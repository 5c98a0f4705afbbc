--------------------------- MODULE Harness_proofs ---------------------------
(***************************************************************************)
(* What the measurements of the test harness are, for every number of      *)
(* threads, requests and hits, every rate and every clock.                 *)
(*                                                                         *)
(*   TypeCorrect      the variables keep their types, and the worker that  *)
(*                    reports is the one that holds consoleMutex           *)
(*   AveragesBounded  no average exceeds the longest time of a read        *)
(*   EventsCounted    each hit is in one second of the monitor's list      *)
(*   AsPaced          no worker is faster than asked for or oversleeps     *)
(*   TotalsSummed     the totals are the sums over the workers             *)
(*                                                                         *)
(* Four invariants carry them.  Sound has the types (TypeInv), where a     *)
(* worker can be and who has the mutex (PcInv), that no timer holds more   *)
(* than longest for a read (TimerInv), and what the totals weigh           *)
(* (TotalsInv): it counts what the worker in the middle of its report has  *)
(* still to multiply, without which the weights are no invariant.  On it   *)
(* rest AveragesInv, for what main has returned, MeasureInv, what one      *)
(* worker has measured up to now, and SumsInv, what each worker has added  *)
(* to the totals so far.                                                   *)
(*                                                                         *)
(* The steps of a worker are first given as the record they leave          *)
(* (the lemmas ...Moves), so that what follows is about a record me in the *)
(* place of worker[w]; each invariant then has a lemma for each action     *)
(* (...Types, ...Totals, ...Measures, ...Sums).  Sums over lists and sets  *)
(* are folds of the library, and FoldLemmas gives their steps.             *)
(***************************************************************************)
EXTENDS Harness, FoldLemmas, SequenceTheorems, TLAPS

----------------------------------------------------------------------------
(* Arithmetic *)

LEMMA DivFacts ==
  ASSUME NEW a \in Int, NEW b \in Nat \ {0}
  PROVE  /\ a \div b \in Int
         /\ b * (a \div b) <= a
         /\ a < b * (a \div b) + b
         /\ a >= 0 => a \div b \in Nat
OBVIOUS

LEMMA Products ==
  ASSUME NEW a \in Int, NEW b \in Int, NEW c \in Nat, a <= b
  PROVE  a * c <= b * c /\ c * a <= c * b
OBVIOUS

LEMMA Cancel ==
  ASSUME NEW a \in Int, NEW b \in Int, NEW c \in Nat \ {0}, c * a < c * b
  PROVE  a < b
OBVIOUS

LEMMA QuotientBelow ==
  ASSUME NEW a \in Nat, NEW b \in Nat \ {0}, NEW c \in Nat, a <= b * c
  PROVE  a \div b <= c
OBVIOUS

----------------------------------------------------------------------------
(* The operators of Clocks *)

Monitor == [clockPrev : Nat, count : Nat, list : Seq(Nat)]
Timer == [clockStart : Nat, clockPrev : Nat, count : Nat, ns : Nat, list : Seq(Nat)]

LEMMA MinusFacts ==
  ASSUME NEW a \in Nat, NEW b \in Nat
  PROVE  Minus(a, b) \in Nat /\ (a >= b => Minus(a, b) = a - b) /\ (a < b => Minus(a, b) = 0)
BY DEF Minus

\* What is left of the time since prev when the full seconds are off it.
LEMMA FullSecondsFacts ==
  ASSUME NEW t \in Nat, NEW prev \in Nat
  PROVE  /\ FullSeconds(t, prev) \in Nat
         /\ FullSeconds(t, prev) * NANOSECOND \in Nat
         /\ FullSeconds(t, prev) > 0 => prev + FullSeconds(t, prev) * NANOSECOND < t
         /\ t <= prev + FullSeconds(t, prev) * NANOSECOND + NANOSECOND
<1> DEFINE n == FullSeconds(t, prev)
<1>1. NANOSECOND \in Nat \ {0}
  BY UnitsAssumption DEF UnitsAssumption
<1>2. CASE t > prev + NANOSECOND
  <2>1. Minus(t, prev) = t - prev /\ t - prev > NANOSECOND
    BY <1>1, <1>2, MinusFacts
  <2>2. n = (t - prev - 1) \div NANOSECOND
    BY <2>1 DEF FullSeconds
  <2>3. t - prev - 1 \in Nat
    BY <1>1, <2>1
  <2>4. /\ n \in Nat
        /\ NANOSECOND * n <= t - prev - 1
        /\ t - prev - 1 < NANOSECOND * n + NANOSECOND
    BY <1>1, <2>2, <2>3, DivFacts
  <2> HIDE DEF n
  <2>5. NANOSECOND * n = n * NANOSECOND /\ n * NANOSECOND \in Nat
    BY <1>1, <2>4
  <2> QED BY <1>1, <2>4, <2>5 DEF n
<1>3. CASE t <= prev + NANOSECOND
  <2>1. ~(Minus(t, prev) > NANOSECOND)
    <3>1. Minus(t, prev) = t - prev \/ Minus(t, prev) = 0
      BY MinusFacts
    <3> QED BY <3>1, <1>1, <1>3
  <2>2. n = 0
    BY <2>1 DEF FullSeconds
  <2> QED BY <1>1, <1>3, <2>2
<1> QED BY <1>1, <1>2, <1>3

IsPushed(new, list, n, value) ==
  /\ new \in Seq(Nat)
  /\ Len(new) = Len(list) + n
  /\ \A i \in 1..Len(list) : new[i] = list[i]
  /\ \A i \in (Len(list) + 1)..(Len(list) + n) :
       new[i] = IF i = Len(list) + 1 THEN value ELSE 0

LEMMA PushedFacts ==
  ASSUME NEW list \in Seq(Nat), NEW n \in Nat, NEW value \in Nat
  PROVE  IsPushed(Pushed(list, n, value), list, n, value)
<1> DEFINE more == [i \in 1..n |-> IF i = 1 THEN value ELSE 0]
<1>1. more \in Seq(Nat) /\ Len(more) = n /\ \A i \in 1..n : more[i] = IF i = 1 THEN value ELSE 0
  OBVIOUS
<1>2. Pushed(list, n, value) = list \o more
  BY DEF Pushed
<1> HIDE DEF more
<1>3. /\ list \o more \in Seq(Nat) /\ Len(list \o more) = Len(list) + n
      /\ \A i \in 1..(Len(list) + n) :
           (list \o more)[i] = IF i <= Len(list) THEN list[i] ELSE more[i - Len(list)]
  BY <1>1, ConcatProperties
<1>4. Len(list) \in Nat
  BY LenProperties
<1>5. ASSUME NEW i \in 1..Len(list) PROVE (list \o more)[i] = list[i]
  BY <1>3, <1>4
<1>6. ASSUME NEW i \in (Len(list) + 1)..(Len(list) + n)
      PROVE  (list \o more)[i] = IF i = Len(list) + 1 THEN value ELSE 0
  <2>1. i \in 1..(Len(list) + n) /\ ~(i <= Len(list)) /\ i - Len(list) \in 1..n
        /\ (i - Len(list) = 1 <=> i = Len(list) + 1)
    BY <1>4
  <2> QED BY <2>1, <1>1, <1>3
<1> QED BY <1>2, <1>3, <1>5, <1>6 DEF IsPushed


LEMMA RolledMonitor ==
  ASSUME NEW m \in Monitor, NEW t \in Nat
  PROVE  /\ MonitorRolled(m, t) \in Monitor
         /\ MonitorRolled(m, t).list = Pushed(m.list, FullSeconds(t, m.clockPrev), m.count)
         /\ MonitorRolled(m, t).clockPrev = m.clockPrev + FullSeconds(t, m.clockPrev) * NANOSECOND
         /\ MonitorRolled(m, t).count = IF FullSeconds(t, m.clockPrev) = 0 THEN m.count ELSE 0
<1>1. m.clockPrev \in Nat /\ m.count \in Nat /\ m.list \in Seq(Nat)
  BY DEF Monitor
<1> DEFINE n == FullSeconds(t, m.clockPrev)
<1>2. n \in Nat /\ n * NANOSECOND \in Nat
  BY <1>1, FullSecondsFacts
<1>3. Pushed(m.list, n, m.count) \in Seq(Nat)
  BY <1>1, <1>2, PushedFacts DEF IsPushed
<1>4. MonitorRolled(m, t) = [clockPrev |-> m.clockPrev + n * NANOSECOND,
                             count |-> IF n = 0 THEN m.count ELSE 0,
                             list |-> Pushed(m.list, n, m.count)]
  BY DEF MonitorRolled
<1> HIDE DEF n
<1>5. m.clockPrev + n * NANOSECOND \in Nat /\ (IF n = 0 THEN m.count ELSE 0) \in Nat
  BY <1>1, <1>2
<1> QED BY <1>3, <1>4, <1>5 DEF Monitor, n

LEMMA Incremented ==
  ASSUME NEW m \in Monitor, NEW t \in Nat, m.clockPrev >= NANOSECOND
  PROVE  /\ Increment(m, t) \in Monitor
         /\ Increment(m, t).list = MonitorRolled(m, t).list
         /\ Increment(m, t).clockPrev = MonitorRolled(m, t).clockPrev
         /\ Increment(m, t).count = MonitorRolled(m, t).count + 1
<1>1. NANOSECOND \in Nat \ {0} /\ m.clockPrev \in Nat
  BY UnitsAssumption DEF UnitsAssumption, Monitor
<1>2. Seconds(m.clockPrev) # 0
  <2>1. \A a \in Nat : a < NANOSECOND * (a \div NANOSECOND) + NANOSECOND
    BY <1>1, DivFacts
  <2> QED BY <1>1, <2>1 DEF Seconds
<1>3. Increment(m, t) = [MonitorRolled(m, t) EXCEPT !.count = @ + 1]
  BY <1>2 DEF Increment
<1>4. MonitorRolled(m, t) \in Monitor
  BY RolledMonitor
<1> QED BY SMTT(40), <1>3, <1>4 DEF Monitor

LEMMA StoppedMonitor ==
  ASSUME NEW m \in Monitor, NEW t \in Nat
  PROVE  /\ MonitorStop(m, t) \in Monitor
         /\ \/ MonitorStop(m, t).list = MonitorRolled(m, t).list
            \/ \E e \in Nat : MonitorStop(m, t).list = Append(MonitorRolled(m, t).list, e)
<1> DEFINE rolled == MonitorRolled(m, t)
           rest == Minus(t, rolled.clockPrev)
           scaled == (rolled.count * NANOSECOND) \div rest
<1>1. NANOSECOND \in Nat \ {0}
  BY UnitsAssumption DEF UnitsAssumption
<1>2. rolled \in Monitor
  BY RolledMonitor
<1> HIDE DEF rolled
<1>3. rolled.count \in Nat /\ rolled.clockPrev \in Nat /\ rolled.list \in Seq(Nat)
  BY <1>2 DEF Monitor
<1>4. rest \in Nat
  BY <1>3, MinusFacts
<1> HIDE DEF rest
<1>5. rest > NANOSECOND \div 20 => scaled \in Nat
  <2>1. NANOSECOND \div 20 \in Nat
    BY <1>1, DivFacts
  <2>2. rolled.count * NANOSECOND \in Nat
    BY <1>1, <1>3
  <2> QED BY <1>4, <2>1, <2>2, DivFacts
<1>6. MonitorStop(m, t) =
        [clockPrev |-> rolled.clockPrev % NANOSECOND, count |-> 0,
         list |-> IF rolled.count > 0 /\ rest > NANOSECOND \div 20
                  THEN Append(rolled.list, scaled) ELSE rolled.list]
  BY DEF MonitorStop, rolled, rest
<1> HIDE DEF scaled
<1>7. rolled.clockPrev % NANOSECOND \in Nat
  BY <1>1, <1>3
<1>8. CASE rolled.count > 0 /\ rest > NANOSECOND \div 20
  <2>1. Append(rolled.list, scaled) \in Seq(Nat) /\ scaled \in Nat
    BY <1>3, <1>5, <1>8
  <2>2. MonitorStop(m, t) = [clockPrev |-> rolled.clockPrev % NANOSECOND, count |-> 0,
                             list |-> Append(rolled.list, scaled)]
    BY <1>6, <1>8
  <2> QED BY <1>7, <2>1, <2>2 DEF Monitor, rolled
<1>9. CASE ~(rolled.count > 0 /\ rest > NANOSECOND \div 20)
  BY <1>3, <1>6, <1>7, <1>9 DEF Monitor, rolled
<1> QED BY <1>8, <1>9

----------------------------------------------------------------------------
(* A timer and the longest time it has measured *)

\* No average of the timer, listed or of the second under way, can be above b.
Bounded(t, b) ==
  /\ t.ns <= t.count * b
  /\ \A i \in 1..Len(t.list) : t.list[i] <= b

LEMMA BoundedAverage ==
  ASSUME NEW t \in Timer, NEW b \in Nat, Bounded(t, b)
  PROVE  Average(t) \in Nat /\ Average(t) <= b
<1>1. t.ns \in Nat /\ t.count \in Nat /\ t.ns <= t.count * b
  BY DEF Timer, Bounded
<1>2. CASE t.count = 0
  <2>1. t.ns = 0 /\ Average(t) = 0 \div 1
    BY <1>1, <1>2 DEF Average
  <2> QED BY <2>1
<1>3. CASE t.count # 0
  <2>1. Average(t) = t.ns \div t.count /\ t.count \in Nat \ {0}
    BY <1>1, <1>3 DEF Average
  <2> QED BY <1>1, <2>1, DivFacts, QuotientBelow
<1> QED BY <1>2, <1>3

LEMMA RolledTimer ==
  ASSUME NEW t \in Timer, NEW n \in Nat, NEW b \in Nat, Bounded(t, b)
  PROVE  TimerRolled(t, n) \in Timer /\ Bounded(TimerRolled(t, n), b)
<1> DEFINE k == FullSeconds(n, t.clockPrev)
           new == [t EXCEPT !.clockPrev = @ + k * NANOSECOND,
                            !.count = IF k = 0 THEN @ ELSE 0,
                            !.ns = IF k = 0 THEN @ ELSE 0,
                            !.list = Pushed(@, k, Average(t))]
<1>1. /\ t.clockPrev \in Nat /\ t.count \in Nat /\ t.ns \in Nat /\ t.list \in Seq(Nat)
      /\ t.clockStart \in Nat
  BY DEF Timer
<1>2. k \in Nat /\ k * NANOSECOND \in Nat
  BY <1>1, FullSecondsFacts
<1>3. Average(t) \in Nat /\ Average(t) <= b
  BY BoundedAverage
<1> DEFINE list == Pushed(t.list, k, Average(t))
<1>4. /\ list \in Seq(Nat) /\ Len(list) = Len(t.list) + k
      /\ \A i \in 1..Len(t.list) : list[i] = t.list[i]
      /\ \A i \in (Len(t.list) + 1)..(Len(t.list) + k) :
           list[i] = IF i = Len(t.list) + 1 THEN Average(t) ELSE 0
  <2> DEFINE avg == Average(t)
             old == t.list
  <2>1. avg \in Nat /\ old \in Seq(Nat)
    BY <1>1, <1>3
  <2> HIDE DEF k, avg, old
  <2>2. IsPushed(Pushed(old, k, avg), old, k, avg)
    BY <1>2, <2>1, PushedFacts
  <2> QED BY <2>2 DEF avg, old, IsPushed
<1>5. TimerRolled(t, n) = new
  BY DEF TimerRolled
<1> HIDE DEF k, list
<1>6. /\ new \in Timer /\ new.list = list
      /\ new.count = (IF k = 0 THEN t.count ELSE 0) /\ new.ns = (IF k = 0 THEN t.ns ELSE 0)
  <2>1. t.clockPrev + k * NANOSECOND \in Nat
    BY <1>1, <1>2
  <2> QED BY <1>1, <1>2, <1>4, <2>1 DEF Timer, list
<1> HIDE DEF new
<1>7. new.ns <= new.count * b
  BY <1>1, <1>2, <1>6 DEF Bounded
<1>8. ASSUME NEW i \in 1..Len(list) PROVE list[i] <= b
  <2>1. Len(t.list) \in Nat /\ (i \in 1..Len(t.list) \/ i \in (Len(t.list) + 1)..(Len(t.list) + k))
    BY <1>1, <1>2, <1>4, LenProperties
  <2>2. CASE i \in 1..Len(t.list)
    BY <2>2, <1>4 DEF Bounded
  <2>3. CASE i \in (Len(t.list) + 1)..(Len(t.list) + k)
    BY <2>3, <1>3, <1>4
  <2> QED BY <2>1, <2>2, <2>3
<1> QED BY <1>5, <1>6, <1>7, <1>8 DEF Bounded

LEMMA StartedTimer ==
  ASSUME NEW t \in Timer, NEW n \in Nat, NEW b \in Nat, Bounded(t, b)
  PROVE  TimerStart(t, n) \in Timer /\ Bounded(TimerStart(t, n), b)
BY DEF TimerStart, Timer, Bounded

\* The time that ends is at most the new bound.
LEMMA StoppedTimer ==
  ASSUME NEW t \in Timer, NEW n \in Nat, NEW b \in Nat, Bounded(t, b),
         Minus(n, t.clockStart) <= b
  PROVE  TimerStop(t, n) \in Timer /\ Bounded(TimerStop(t, n), b)
<1> DEFINE r == TimerRolled(t, n)
           spent == Minus(n, t.clockStart)
<1>1. r \in Timer /\ Bounded(r, b)
  BY RolledTimer
<1>2. spent \in Nat /\ spent <= b
  BY MinusFacts DEF Timer
<1>3. TimerStop(t, n) = [r EXCEPT !.count = @ + 1, !.ns = @ + spent]
  BY DEF TimerStop
<1> HIDE DEF r, spent
<1>4. r.ns \in Nat /\ r.count \in Nat /\ r.ns <= r.count * b
  BY <1>1 DEF Timer, Bounded
<1>5. (r.count + 1) * b = r.count * b + b
  BY <1>4
<1>6. r.ns + spent <= (r.count + 1) * b
  <2>1. r.count * b \in Nat
    BY <1>4
  <2> QED BY <2>1, <1>2, <1>4, <1>5
<1> DEFINE new == [r EXCEPT !.count = @ + 1, !.ns = @ + spent]
<1>7. /\ new \in Timer /\ new.list = r.list
      /\ new.count = r.count + 1 /\ new.ns = r.ns + spent
  <2>1. r.count + 1 \in Nat /\ r.ns + spent \in Nat
    BY <1>2, <1>4
  <2> QED BY <1>1, <2>1 DEF Timer
<1> HIDE DEF new
<1>8. Bounded(new, b)
  BY <1>1, <1>6, <1>7 DEF Bounded
<1> QED BY <1>3, <1>7, <1>8 DEF new

\* A call of NsPerSecond keeps the entries there are, and may add some.
LEMMA AskedTimer ==
  ASSUME NEW t \in Timer, NEW n \in Nat, NEW b \in Nat, Bounded(t, b)
  PROVE  NsPerSecond(t, n) \in Timer /\ Bounded(NsPerSecond(t, n), b)
<1> DEFINE r == TimerRolled(t, n)
<1>1. r \in Timer /\ Bounded(r, b)
  BY RolledTimer
<1>2. NsPerSecond(t, n) = IF r.count > 0 THEN [r EXCEPT !.list = Append(@, Average(r))] ELSE r
  BY DEF NsPerSecond
<1>3. Average(r) \in Nat /\ Average(r) <= b
  BY <1>1, BoundedAverage
<1> HIDE DEF r
<1>4. r.list \in Seq(Nat) /\ Len(r.list) \in Nat
  BY <1>1, LenProperties DEF Timer
<1>5. /\ Append(r.list, Average(r)) \in Seq(Nat)
      /\ Len(Append(r.list, Average(r))) = Len(r.list) + 1
      /\ \A i \in 1..(Len(r.list) + 1) :
           Append(r.list, Average(r))[i] = IF i = Len(r.list) + 1 THEN Average(r) ELSE r.list[i]
  BY <1>3, <1>4, AppendProperties
<1>6. \A i \in 1..(Len(r.list) + 1) : Append(r.list, Average(r))[i] <= b
  BY <1>1, <1>3, <1>4, <1>5 DEF Bounded
<1>7. CASE r.count > 0
  <2> DEFINE list == Append(r.list, Average(r))
  <2>1. NsPerSecond(t, n) = [r EXCEPT !.list = list]
    BY <1>2, <1>7
  <2> HIDE DEF list
  <2>2. [r EXCEPT !.list = list] \in Timer
    BY <1>1, <1>5 DEF Timer, list
  <2>3. /\ [r EXCEPT !.list = list].list = list /\ [r EXCEPT !.list = list].ns = r.ns
        /\ [r EXCEPT !.list = list].count = r.count
    BY <1>1 DEF Timer
  <2>4. \A i \in 1..Len(list) : list[i] <= b
    BY <1>5, <1>6 DEF list
  <2> QED BY <1>1, <2>1, <2>2, <2>3, <2>4 DEF Bounded
<1>8. CASE ~(r.count > 0)
  BY <1>1, <1>2, <1>8
<1> QED BY <1>7, <1>8

----------------------------------------------------------------------------
(* Totals of lists *)

\* P[n] is the sum of the first n entries.
PartialSums(list, P) ==
  /\ P \in [0..Len(list) -> Nat]
  /\ P[0] = 0
  /\ \A n \in 1..Len(list) : P[n] = P[n - 1] + list[n]

LEMMA TotalIsSum ==
  ASSUME NEW list \in Seq(Nat)
  PROVE  \E P : PartialSums(list, P) /\ Total(list) = P[Len(list)]
<1> DEFINE L == Len(list)
           step == [p \in Nat \X (1..L) |-> p[1] + list[p[2]]]
           Fold(f) == [s \in SUBSET (1..L) |->
                         IF s = {} THEN 0 ELSE f[s \ {Max(s)}] + list[Max(s)]]
<1>0. L \in Nat /\ \A n \in 1..L : list[n] \in Nat
  BY LenProperties, ElementOfSeq
<1>1. step \in [Nat \X (1..L) -> Nat] /\ \A v \in Nat, n \in 1..L : step[<<v, n>>] = v + list[n]
  <2>1. ASSUME NEW v \in Nat, NEW n \in 1..L PROVE v + list[n] \in Nat
    BY <1>0
  <2> QED BY <2>1
<1> HIDE DEF step
<1>2. PICK g \in [SUBSET (1..L) -> Nat] : IsFold(g, 0, L, step)
  <2>1. 0 \in Nat
    OBVIOUS
  <2> HIDE DEF L, Fold
  <2> QED BY <2>1, <1>0, <1>1, FoldExists
<1>3. g = Fold(g)
  <2> SUFFICES ASSUME NEW s \in SUBSET (1..L), s # {}
               PROVE  step[<<g[s \ {Max(s)}], Max(s)>>] = g[s \ {Max(s)}] + list[Max(s)]
    BY <1>2 DEF IsFold
  <2>1. Max(s) \in 1..L /\ s \ {Max(s)} \in SUBSET (1..L)
    BY <1>0, MaxFacts
  <2> QED BY <2>1, <1>1, <1>2
<1> DEFINE h == CHOOSE f : f = Fold(f)
<1>4. h = Fold(h)
  <2>1. \E f : f = Fold(f)
    BY <1>3
  <2> HIDE DEF Fold
  <2> QED BY <2>1
<1>5. Total(list) = h[1..L]
  <2>1. DOMAIN list = 1..L
    BY LenProperties
  <2>2. Total(list) =
          (CHOOSE f : f = [s \in SUBSET DOMAIN list |->
                             IF s = {} THEN 0 ELSE f[s \ {Max(s)}] + list[Max(s)]])[DOMAIN list]
    BY Zenon DEF Total, FoldLeft, MapThenFoldSet
  <2> QED BY <2>1, <2>2
<1> HIDE DEF h
<1>6. IsStepwise(h, Nat, 0, L, step)
  <2>1. h[{}] = 0
    BY <1>4
  <2>2. ASSUME NEW s \in SUBSET (1..L), s # {}, h[s \ {Max(s)}] \in Nat
        PROVE  h[s] = step[<<h[s \ {Max(s)}], Max(s)>>]
    <3>1. Max(s) \in 1..L
      BY <1>0, <2>2, MaxFacts
    <3>2. h[s] = h[s \ {Max(s)}] + list[Max(s)]
      BY <1>4, <2>2
    <3> QED BY <3>1, <3>2, <2>2, <1>1
  <2>3. 0 \in Nat
    OBVIOUS
  <2> HIDE DEF L, Fold
  <2>4. IsFoldIn(h, Nat, 0, L, step)
    BY <2>1, <2>2 DEF IsFoldIn
  <2> QED BY <2>3, <2>4, <1>0, <1>1, FoldSteps
<1> DEFINE P == [n \in 0..L |-> h[1..n]]
<1>7. PartialSums(list, P)
  <2>1. \A n \in 0..L : h[1..n] \in Nat
    BY <1>6 DEF IsStepwise
  <2>2. P[0] = 0
    BY <1>0, <1>6 DEF IsStepwise
  <2>3. ASSUME NEW n \in 1..L PROVE P[n] = P[n - 1] + list[n]
    <3>1. n - 1 \in 0..L /\ n \in 0..L
      BY <1>0
    <3>2. h[1..n] = step[<<h[1..(n - 1)], n>>]
      BY <1>6 DEF IsStepwise
    <3> QED BY <3>1, <3>2, <2>1, <1>1
  <2> QED BY <2>1, <2>2, <2>3 DEF PartialSums
<1>8. Total(list) = P[L]
  BY <1>0, <1>5
<1> QED BY <1>7, <1>8

\* Lists with the same first entries have the same first sums.
LEMMA SumsAgree ==
  ASSUME NEW s \in Seq(Nat), NEW t \in Seq(Nat), NEW P, NEW Q,
         PartialSums(s, P), PartialSums(t, Q),
         NEW L \in Nat, L <= Len(s), L <= Len(t), \A i \in 1..L : s[i] = t[i]
  PROVE  \A n \in 0..L : P[n] = Q[n]
<1> DEFINE S == {n \in 0..L : P[n] = Q[n]}
<1>0. Len(s) \in Nat /\ Len(t) \in Nat
  BY LenProperties
<1>1. 0 \in S
  BY DEF PartialSums
<1>2. ASSUME NEW n \in 1..L, n - 1 \in S PROVE n \in S
  <2>1. n \in 1..Len(s) /\ n \in 1..Len(t)
    BY <1>0
  <2>2. P[n] = P[n - 1] + s[n] /\ Q[n] = Q[n - 1] + t[n]
    BY <2>1 DEF PartialSums
  <2> QED BY <2>2, <1>2
<1>3. 0..L \subseteq S
  <2> HIDE DEF S
  <2> QED BY <1>1, <1>2, UpTo
<1> QED BY <1>3

LEMMA TotalAppend ==
  ASSUME NEW s \in Seq(Nat), NEW e \in Nat
  PROVE  Total(Append(s, e)) = Total(s) + e /\ Total(s) \in Nat
<1> DEFINE t == Append(s, e)
<1>1. /\ t \in Seq(Nat) /\ Len(t) = Len(s) + 1 /\ Len(s) \in Nat
      /\ \A i \in 1..Len(s) : t[i] = s[i]
      /\ t[Len(s) + 1] = e
  BY AppendProperties, LenProperties
<1> HIDE DEF t
<1>2. PICK P : PartialSums(s, P) /\ Total(s) = P[Len(s)]
  BY TotalIsSum
<1>3. PICK Q : PartialSums(t, Q) /\ Total(t) = Q[Len(t)]
  BY <1>1, TotalIsSum
<1>4. P[Len(s)] = Q[Len(s)]
  <2> DEFINE L == Len(s)
  <2>0. L \in Nat /\ L <= Len(s) /\ L <= Len(t) /\ \A i \in 1..L : s[i] = t[i]
    BY <1>1
  <2> HIDE DEF L
  <2>1. \A n \in 0..L : P[n] = Q[n]
    BY SMTT(40), <2>0, <1>1, <1>2, <1>3, SumsAgree
  <2> QED BY <2>0, <2>1 DEF L
<1>5. Q[Len(s) + 1] = Q[Len(s)] + e
  <2>1. Len(s) + 1 \in 1..Len(t) /\ (Len(s) + 1) - 1 = Len(s)
    BY <1>1
  <2>2. Q[Len(s) + 1] = Q[(Len(s) + 1) - 1] + t[Len(s) + 1]
    BY <2>1, <1>3 DEF PartialSums
  <2> QED BY <2>1, <2>2, <1>1
<1>6. P[Len(s)] \in Nat
  BY <1>1, <1>2 DEF PartialSums
<1> QED BY <1>1, <1>2, <1>3, <1>4, <1>5, <1>6 DEF t

\* The zeros that are pushed after a value add nothing.
LEMMA TotalPushed ==
  ASSUME NEW list \in Seq(Nat), NEW n \in Nat, NEW value \in Nat
  PROVE  /\ Total(Pushed(list, n, value)) = Total(list) + IF n = 0 THEN 0 ELSE value
         /\ Total(list) \in Nat
<1> DEFINE S == {k \in 0..n : Total(Pushed(list, k, value)) = Total(list) + IF k = 0 THEN 0 ELSE value}
<1>0. Total(list) \in Nat
  BY TotalAppend
<1>1. 0 \in S
  <2>1. IsPushed(Pushed(list, 0, value), list, 0, value)
    BY PushedFacts
  <2>2. Len(list) \in Nat
    BY LenProperties
  <2> DEFINE new == Pushed(list, 0, value)
  <2>3. new \in Seq(Nat) /\ Len(new) = Len(list) /\ \A i \in 1..Len(list) : new[i] = list[i]
    BY <2>1, <2>2 DEF IsPushed
  <2> HIDE DEF new
  <2>4. new = list
    BY <2>3, SeqEqual
  <2> QED BY <2>4, <1>0 DEF new
<1>2. ASSUME NEW k \in 1..n, k - 1 \in S PROVE k \in S
  <2> DEFINE old == Pushed(list, k - 1, value)
             new == Pushed(list, k, value)
             e == IF k = 1 THEN value ELSE 0
  <2>1. IsPushed(old, list, k - 1, value)
    <3>1. k - 1 \in Nat
      OBVIOUS
    <3> QED BY <3>1, PushedFacts
  <2>2. IsPushed(new, list, k, value)
    <3>1. k \in Nat
      OBVIOUS
    <3> QED BY <3>1, PushedFacts
  <2>3. Total(old) = Total(list) + IF k - 1 = 0 THEN 0 ELSE value
    BY <1>2
  <2> HIDE DEF old, new
  <2>4. Len(list) \in Nat /\ e \in Nat
    BY LenProperties
  <2>5. old \in Seq(Nat) /\ Len(old) = Len(list) + k - 1
    BY <2>1, <2>4 DEF IsPushed
  <2>6. new \in Seq(Nat) /\ Len(new) = Len(list) + k
    BY <2>2 DEF IsPushed
  <2> DEFINE app == Append(old, e)
  <2>7. /\ app \in Seq(Nat) /\ Len(app) = Len(old) + 1
        /\ \A i \in 1..Len(old) : app[i] = old[i]
        /\ app[Len(old) + 1] = e
    <3> HIDE DEF e
    <3> QED BY <2>4, <2>5, AppendProperties
  <2> HIDE DEF app
  <2>8. ASSUME NEW i \in 1..Len(new) PROVE app[i] = new[i]
    <3>1. i \in 1..(Len(list) + k)
      BY <2>6
    <3>2. CASE i \in 1..Len(list)
      <4>1. i \in 1..Len(old)
        BY <3>2, <2>4, <2>5
      <4> QED BY <3>2, <4>1, <2>1, <2>2, <2>7 DEF IsPushed
    <3>3. CASE i \in (Len(list) + 1)..(Len(list) + k - 1)
      <4>1. i \in 1..Len(old) /\ i \in (Len(list) + 1)..(Len(list) + (k - 1))
            /\ i \in (Len(list) + 1)..(Len(list) + k)
        BY <3>3, <2>4, <2>5
      <4>2. app[i] = old[i]
        BY <4>1, <2>7
      <4>3. old[i] = IF i = Len(list) + 1 THEN value ELSE 0
        BY <4>1, <2>1 DEF IsPushed
      <4>4. new[i] = IF i = Len(list) + 1 THEN value ELSE 0
        BY <4>1, <2>2 DEF IsPushed
      <4> QED BY <4>2, <4>3, <4>4
    <3>4. CASE i = Len(list) + k
      <4>1. i = Len(old) + 1 /\ i \in (Len(list) + 1)..(Len(list) + k)
            /\ (i = Len(list) + 1 <=> k = 1)
        BY <3>4, <2>4, <2>5
      <4>2. app[i] = e
        BY <4>1, <2>7
      <4>3. new[i] = IF i = Len(list) + 1 THEN value ELSE 0
        BY <4>1, <2>2 DEF IsPushed
      <4> QED BY <4>1, <4>2, <4>3
    <3> QED BY <3>1, <3>2, <3>3, <3>4, <2>4
  <2>9. app = new
    <3>1. Len(app) = Len(new)
      BY <2>4, <2>5, <2>6, <2>7
    <3> QED BY <3>1, <2>6, <2>7, <2>8, SeqEqual
  <2>10. Total(new) = Total(old) + e
    BY <2>4, <2>5, <2>9, TotalAppend DEF app
  <2>11. Total(new) = Total(list) + IF k = 0 THEN 0 ELSE value
    <3>1. k = 1 => Total(old) = Total(list)
      BY <2>3, <1>0
    <3>2. k # 1 => Total(old) = Total(list) + value
      BY <2>3, <1>0
    <3> QED BY <3>1, <3>2, <2>10, <1>0
  <2>12. k \in 0..n
    OBVIOUS
  <2> QED BY <2>11, <2>12 DEF new
<1>3. n \in S
  <2>1. 0..n \subseteq S
    <3> HIDE DEF S
    <3> QED BY <1>1, <1>2, UpTo
  <2> QED BY <2>1
<1> QED BY <1>0, <1>3

----------------------------------------------------------------------------
(* Types *)

Pcs == {"none", "start", "starting", "next", "pace", "reading", "stopped", "reporting", "done"}
Modes == {"EVENT_BASED", "HIT_BASED"}
ReplayRates == (Nat \ {0}) \X (Nat \ {0})

Control == [mode : Modes, rate : Nat \cup ReplayRates, clockPrev : Nat, count : Nat,
            firstHitTime : Nat, startTime : Nat]

RateFits(mode, rate) == IF mode = "HIT_BASED" THEN rate \in ReplayRates ELSE rate \in Nat

WorkerType == [pc : Pcs, i : Nat, hitTime : Nat, wakeAt : Nat, index : Nat,
               control : Control, monitor : Monitor, late : Int, timer : Timer]

OptionsOK == /\ options.threads \in Nat /\ options.requests \in Nat
             /\ options.memory \subseteq Nat
             /\ options.mode \in Modes /\ RateFits(options.mode, options.rate)

TypeInv ==
  /\ OptionsOK
  /\ main \in [pc : {"configuring", "creating", "exited", "returned"}, created : Nat]
  /\ main.created <= options.threads
  /\ main.pc = "configuring" => options = NoOptions /\ main.created = 0
  /\ left \in Seq(Nat) /\ longest \in Nat
  /\ now \in Nat /\ now >= StartTime
  /\ worker \in [Pids -> WorkerType]
  /\ console \in Pids \cup {0}
  /\ total \in [rate : Seq(Nat), read : Seq(Nat)]

\* Where a worker can be, and who has the mutex.
PcInv ==
  \A w \in Pids :
    /\ worker[w].i <= options.requests
    /\ worker[w].pc = "none" <=> w > main.created
    /\ worker[w].pc = "reporting" <=> console = w
    /\ worker[w].pc # "reporting" => worker[w].index = 0
    /\ RateFits(worker[w].control.mode, worker[w].control.rate)

\* A step of worker w that makes its record me.
Moves(w, me) == me \in WorkerType /\ worker' = [worker EXCEPT ![w] = me]

LEMMA MovedWorker ==
  ASSUME TypeInv, NEW w \in Pids, NEW me, Moves(w, me), UNCHANGED options
  PROVE  /\ worker' \in [Pids' -> WorkerType]
         /\ worker'[w] = me
         /\ \A v \in Pids : v # w => worker'[v] = worker[v]
         /\ Pids' = Pids
BY DEF TypeInv, Moves, Pids

LEMMA Units ==
  /\ NANOSECOND \in Nat \ {0} /\ MICROSECOND \in Nat \ {0} /\ MICROSECOND <= NANOSECOND
  /\ StartTime \in Nat /\ StartTime >= NANOSECOND
BY UnitsAssumption, ClockIsSet DEF UnitsAssumption, ClockIsSet

LEMMA IncrementType ==
  ASSUME NEW m \in Monitor, NEW t \in Nat
  PROVE  Increment(m, t) \in Monitor
<1> DEFINE started == IF Seconds(m.clockPrev) = 0 THEN [m EXCEPT !.clockPrev = t, !.count = 0] ELSE m
<1>1. started \in Monitor
  <2>1. [m EXCEPT !.clockPrev = t, !.count = 0] \in Monitor
    BY DEF Monitor
  <2> QED BY <2>1, Zenon
<1>2. Increment(m, t) = [MonitorRolled(started, t) EXCEPT !.count = @ + 1]
  BY DEF Increment
<1> HIDE DEF started
<1> DEFINE rolled == MonitorRolled(started, t)
<1>3. rolled \in Monitor
  BY <1>1, RolledMonitor
<1> HIDE DEF rolled
<1>4. rolled.count + 1 \in Nat
  BY <1>3 DEF Monitor
<1>5. [rolled EXCEPT !.count = @ + 1] \in Monitor
  BY <1>3, <1>4 DEF Monitor
<1> QED BY <1>2, <1>5 DEF rolled

LEMMA CountedControl ==
  ASSUME NEW c \in Control, NEW hitTime \in Nat, NEW t \in Nat
  PROVE  /\ Counted(c, hitTime, t) \in Control
         /\ Counted(c, hitTime, t).mode = c.mode /\ Counted(c, hitTime, t).rate = c.rate
         /\ Counted(c, hitTime, t).clockPrev = c.clockPrev
         /\ Counted(c, hitTime, t).count = c.count + 1
<1>1. Seconds(t) \in Nat
  BY Units, DivFacts DEF Seconds
<1>0. c.count + 1 \in Nat
  BY DEF Control
<1>2. CASE c.mode = "HIT_BASED" /\ c.firstHitTime = 0
  <2> DEFINE s == Seconds(t)
  <2>1. Counted(c, hitTime, t) = [c EXCEPT !.count = @ + 1, !.firstHitTime = hitTime, !.startTime = s]
    BY <1>2 DEF Counted
  <2>2. s \in Nat
    BY <1>1
  <2> HIDE DEF s
  <2> QED BY <1>0, <2>1, <2>2 DEF Control
<1>3. CASE ~(c.mode = "HIT_BASED" /\ c.firstHitTime = 0)
  <2>1. Counted(c, hitTime, t) = [c EXCEPT !.count = @ + 1]
    BY <1>3 DEF Counted
  <2> QED BY <1>0, <2>1 DEF Control
<1> QED BY <1>2, <1>3

LEMMA NewRecords ==
  ASSUME NEW t \in Nat
  PROVE  NewMonitor(t) \in Monitor /\ NewTimer(t) \in Timer
<1>1. <<>> \in Seq(Nat)
  OBVIOUS
<1> QED BY <1>1 DEF NewMonitor, NewTimer, Monitor, Timer

LEMMA NewControlType ==
  ASSUME NEW mode \in Modes, NEW rate, RateFits(mode, rate), NEW t \in Nat
  PROVE  NewControl(mode, rate, t) \in Control
BY DEF NewControl, Control, RateFits

LEMMA UnbornType == Unborn \in WorkerType /\ RateFits(Unborn.control.mode, Unborn.control.rate)
<1>1. NewMonitor(0) \in Monitor /\ NewTimer(0) \in Timer
  BY NewRecords
<1>2. NewControl("EVENT_BASED", 0, 0) \in Control
  BY NewControlType DEF Modes, RateFits
<1>3. Unborn.control.mode = "EVENT_BASED" /\ Unborn.control.rate = 0
  BY DEF Unborn, NewControl
<1> QED BY <1>1, <1>2, <1>3 DEF Unborn, WorkerType, Pcs, RateFits

LEMMA WakeTimeType ==
  ASSUME NEW c \in Control, RateFits(c.mode, c.rate), NEW hitTime \in Nat, NEW t \in Nat,
         MustWait(c, hitTime, t)
  PROVE  WakeTime(c, hitTime, t) \in Nat
<1>1. c.clockPrev \in Nat /\ c.count \in Nat /\ c.firstHitTime \in Nat /\ c.startTime \in Nat
  BY DEF Control
<1>2. CASE c.mode = "HIT_BASED"
  <2>1. c.rate[1] \in Nat \ {0} /\ c.rate[2] \in Nat \ {0}
    BY <1>2 DEF RateFits, ReplayRates
  <2>2. VirtualTime(c, t) \in Int
    <3>1. Seconds(t) \in Nat
      BY Units, DivFacts DEF Seconds
    <3>2. (Seconds(t) - c.startTime) * c.rate[1] \in Int
      BY <1>1, <2>1, <3>1
    <3>3. ((Seconds(t) - c.startTime) * c.rate[1]) \div c.rate[2] \in Int
      BY <2>1, <3>2, DivFacts
    <3> QED BY <1>1, <3>3 DEF VirtualTime
  <2> DEFINE sleep == ((hitTime - VirtualTime(c, t)) * c.rate[2]) \div c.rate[1]
  <2>3. sleep \in Int
    <3>1. (hitTime - VirtualTime(c, t)) * c.rate[2] \in Int
      BY <2>1, <2>2
    <3> QED BY <2>1, <3>1, DivFacts
  <2>4. WakeTime(c, hitTime, t) = t + (IF sleep > 1 THEN sleep - 1 ELSE 0) * NANOSECOND
    BY <1>2 DEF WakeTime
  <2> HIDE DEF sleep
  <2>5. (IF sleep > 1 THEN sleep - 1 ELSE 0) \in Nat
    BY <2>3
  <2> QED BY <2>4, <2>5, Units
<1>3. CASE c.mode # "HIT_BASED"
  <2>1. c.rate \in Nat \ {0}
    BY <1>3 DEF RateFits, MustWait
  <2>2. Missing(c, t) \in Nat
    <3>1. Interval(c) \in Nat
      BY <2>1, Units, DivFacts DEF Interval
    <3>2. Interval(c) * c.count \in Nat
      BY <1>1, <3>1
    <3>3. Minus(t, c.clockPrev) \in Nat
      BY <1>1, MinusFacts
    <3> QED BY <3>2, <3>3, MinusFacts DEF Missing
  <2> DEFINE us == NANOSECOND \div MICROSECOND
  <2>3. us \in Nat \ {0}
    <3>1. us \in Nat /\ NANOSECOND < MICROSECOND * us + MICROSECOND
      BY Units, DivFacts
    <3> HIDE DEF us
    <3>2. us = 0 => NANOSECOND < MICROSECOND
      BY <3>1, Units
    <3> QED BY <3>1, <3>2, Units
  <2>4. Missing(c, t) \div us \in Nat
    <3> HIDE DEF us
    <3> QED BY <2>2, <2>3, DivFacts
  <2>5. WakeTime(c, hitTime, t) = t + (Missing(c, t) \div us) * us
    BY <1>3 DEF WakeTime
  <2> DEFINE q == Missing(c, t) \div us
  <2> HIDE DEF q, us
  <2>6. q * us \in Nat
    BY <2>3, <2>4 DEF q
  <2> QED BY <2>5, <2>6 DEF q
<1> QED BY <1>2, <1>3

----------------------------------------------------------------------------
(* What each step of a worker makes of its record *)

LEMMA BeginControlMoves ==
  ASSUME TypeInv, NEW w \in Pids, BeginControl(w)
  PROVE  \E memory \in Nat, me \in WorkerType :
           /\ Moves(w, me) /\ me.pc = "starting" /\ me.i = worker[w].i
           /\ me.index = worker[w].index
           /\ me.timer = NewTimer(memory)
           /\ me.monitor = worker[w].monitor /\ me.late = worker[w].late
           /\ me.control = NewControl(options.mode, options.rate, now)
<1>1. PICK memory \in options.memory :
        worker' = [worker EXCEPT ![w] =
         [@ EXCEPT !.pc = "starting", !.timer = NewTimer(memory),
                   !.control = NewControl(options.mode, options.rate, now)]]
  BY DEF BeginControl
<1>2. memory \in Nat /\ worker[w] \in WorkerType /\ now \in Nat
  BY DEF TypeInv, OptionsOK
<1>3. NewTimer(memory) \in Timer
  BY <1>2, NewRecords
<1>4. NewControl(options.mode, options.rate, now) \in Control
  BY <1>2, NewControlType DEF TypeInv, OptionsOK
<1> DEFINE me == [worker[w] EXCEPT !.pc = "starting", !.timer = NewTimer(memory),
                                   !.control = NewControl(options.mode, options.rate, now)]
<1>5. /\ me \in WorkerType /\ me.pc = "starting" /\ me.i = worker[w].i
      /\ me.index = worker[w].index
      /\ me.timer = NewTimer(memory)
      /\ me.monitor = worker[w].monitor /\ me.late = worker[w].late
      /\ me.control = NewControl(options.mode, options.rate, now)
  BY <1>2, <1>3, <1>4 DEF WorkerType, Pcs
<1>6. worker' = [worker EXCEPT ![w] = me]
  BY <1>1
<1> HIDE DEF me
<1> QED BY <1>2, <1>5, <1>6 DEF Moves

LEMMA BeginMonitorMoves ==
  ASSUME TypeInv, NEW w \in Pids, BeginMonitor(w)
  PROVE  \E me \in WorkerType :
           /\ Moves(w, me) /\ me.pc = "next" /\ me.i = worker[w].i
           /\ me.index = worker[w].index
           /\ me.timer = worker[w].timer /\ me.control = worker[w].control
           /\ me.monitor = NewMonitor(now)
           /\ me.late = now - worker[w].control.clockPrev
<1> DEFINE m == NewMonitor(now)
           d == now - worker[w].control.clockPrev
           me == [worker[w] EXCEPT !.pc = "next", !.monitor = m, !.late = d]
<1>1. worker[w] \in WorkerType /\ now \in Nat
  BY DEF TypeInv
<1>2. m \in Monitor /\ d \in Int
  BY <1>1, NewRecords DEF WorkerType, Control
<1>3. worker' = [worker EXCEPT ![w] = me]
  BY DEF BeginMonitor
<1> HIDE DEF m, d
<1>4. /\ me \in WorkerType /\ me.pc = "next" /\ me.i = worker[w].i
      /\ me.index = worker[w].index
      /\ me.timer = worker[w].timer /\ me.control = worker[w].control
      /\ me.monitor = m /\ me.late = d
  BY <1>1, <1>2 DEF WorkerType, Pcs
<1> HIDE DEF me
<1> QED BY <1>3, <1>4 DEF Moves, m, d

LEMMA NextHitMoves ==
  ASSUME TypeInv, NEW w \in Pids, NextHit(w)
  PROVE  /\ left' \in Seq(Nat)
         /\ \E me \in WorkerType, hitTime \in Nat :
              /\ Moves(w, me) /\ me.pc = "pace" /\ me.i = worker[w].i + 1
              /\ me.index = worker[w].index /\ me.late = worker[w].late
              /\ me.hitTime = hitTime /\ me.wakeAt = now
              /\ me.timer = worker[w].timer
              /\ me.monitor = Increment(worker[w].monitor, now)
              /\ me.control = Counted(worker[w].control, hitTime, now)
<1>1. left # <<>> /\ left \in Seq(Nat)
  BY DEF NextHit, TypeInv
<1>2. Head(left) \in Nat /\ Tail(left) \in Seq(Nat)
  BY <1>1
<1> DEFINE t == Head(left)
           m == Increment(worker[w].monitor, now)
           c == Counted(worker[w].control, t, now)
           me == [worker[w] EXCEPT !.pc = "pace", !.i = @ + 1, !.hitTime = t, !.wakeAt = now,
                                   !.monitor = m, !.control = c]
<1>3. worker[w] \in WorkerType /\ now \in Nat
  BY DEF TypeInv
<1>4. /\ worker[w].monitor \in Monitor /\ worker[w].control \in Control /\ worker[w].i + 1 \in Nat
  BY <1>3 DEF WorkerType
<1>5. m \in Monitor /\ c \in Control
  BY <1>2, <1>3, <1>4, IncrementType, CountedControl
<1>6. left' = Tail(left) /\ worker' = [worker EXCEPT ![w] = me]
  BY DEF NextHit
<1> HIDE DEF t, m, c
<1>7. /\ me \in WorkerType /\ me.pc = "pace" /\ me.i = worker[w].i + 1
      /\ me.index = worker[w].index
           /\ me.late = worker[w].late /\ me.hitTime = t /\ me.wakeAt = now
      /\ me.timer = worker[w].timer /\ me.monitor = m /\ me.control = c
  <2>1. t \in Nat
    BY <1>2 DEF t
  <2> QED BY <2>1, <1>3, <1>4, <1>5 DEF WorkerType, Pcs
<1> HIDE DEF me
<1> QED BY <1>2, <1>6, <1>7 DEF Moves, t, m, c

LEMMA NoMoreHitsMoves ==
  ASSUME TypeInv, NEW w \in Pids, NoMoreHits(w)
  PROVE  \E me \in WorkerType :
           /\ Moves(w, me) /\ me.pc = "stopped" /\ me.i = worker[w].i
           /\ me.index = worker[w].index /\ me.late = worker[w].late
           /\ me.timer = worker[w].timer /\ me.control = worker[w].control
           /\ me.monitor = MonitorStop(worker[w].monitor, now)
<1> DEFINE m == MonitorStop(worker[w].monitor, now)
           me == [worker[w] EXCEPT !.pc = "stopped", !.monitor = m]
<1>1. worker[w] \in WorkerType /\ now \in Nat
  BY DEF TypeInv
<1>2. m \in Monitor
  BY <1>1, StoppedMonitor DEF WorkerType
<1>3. worker' = [worker EXCEPT ![w] = me]
  BY DEF NoMoreHits
<1> HIDE DEF m
<1>4. /\ me \in WorkerType /\ me.pc = "stopped" /\ me.i = worker[w].i
      /\ me.index = worker[w].index /\ me.late = worker[w].late
      /\ me.timer = worker[w].timer /\ me.control = worker[w].control /\ me.monitor = m
  BY <1>1, <1>2 DEF WorkerType, Pcs
<1> HIDE DEF me
<1> QED BY <1>3, <1>4 DEF Moves, m

LEMMA PaceMoves ==
  ASSUME TypeInv, PcInv, NEW w \in Pids, Pace(w)
  PROVE  \E me \in WorkerType :
           /\ Moves(w, me) /\ me.i = worker[w].i /\ me.index = worker[w].index
           /\ me.late = worker[w].late
           /\ me.monitor = worker[w].monitor /\ me.control = worker[w].control
           /\ IF MustWait(worker[w].control, worker[w].hitTime, now)
              THEN /\ me.pc = "pace" /\ me.timer = worker[w].timer
                   /\ me.hitTime = worker[w].hitTime
                   /\ me.wakeAt = WakeTime(worker[w].control, worker[w].hitTime, now)
              ELSE me.pc = "reading" /\ me.timer = TimerStart(worker[w].timer, now)
<1> DEFINE old == worker[w]
<1>1. old \in WorkerType /\ old.pc = "pace" /\ now \in Nat
  BY DEF TypeInv, Pace, Running, At
<1>2. CASE MustWait(old.control, old.hitTime, now)
  <2> DEFINE t == WakeTime(old.control, old.hitTime, now)
             me == [old EXCEPT !.wakeAt = t]
  <2>1. t \in Nat
    BY <1>1, <1>2, WakeTimeType DEF WorkerType, PcInv
  <2>2. worker' = [worker EXCEPT ![w] = me]
    BY <1>2 DEF Pace
  <2> HIDE DEF t, old
  <2>3. /\ me \in WorkerType /\ me.pc = "pace" /\ me.i = old.i
        /\ me.index = old.index /\ me.late = old.late
        /\ me.monitor = old.monitor /\ me.control = old.control
        /\ me.timer = old.timer /\ me.hitTime = old.hitTime /\ me.wakeAt = t
    BY <1>1, <2>1 DEF WorkerType
  <2> HIDE DEF me
  <2> QED BY <1>2, <2>2, <2>3 DEF Moves, old, t
<1>3. CASE ~MustWait(old.control, old.hitTime, now)
  <2> DEFINE t == TimerStart(old.timer, now)
             me == [old EXCEPT !.pc = "reading", !.timer = t]
  <2>1. t \in Timer
    BY <1>1 DEF WorkerType, Timer, TimerStart
  <2>2. worker' = [worker EXCEPT ![w] = me]
    BY <1>3 DEF Pace
  <2> HIDE DEF t, old
  <2>3. /\ me \in WorkerType /\ me.pc = "reading" /\ me.i = old.i
        /\ me.index = old.index /\ me.late = old.late
        /\ me.monitor = old.monitor /\ me.control = old.control /\ me.timer = t
    BY <1>1, <2>1 DEF WorkerType, Pcs
  <2> HIDE DEF me
  <2> QED BY <1>3, <2>2, <2>3 DEF Moves, old, t
<1> QED BY <1>2, <1>3

LEMMA StopReadMoves ==
  ASSUME TypeInv, NEW w \in Pids, StopRead(w), TimerStop(worker[w].timer, now) \in Timer
  PROVE  \E me \in WorkerType :
           /\ Moves(w, me) /\ me.pc = "next" /\ me.i = worker[w].i
           /\ me.index = worker[w].index /\ me.late = worker[w].late
           /\ me.monitor = worker[w].monitor /\ me.control = worker[w].control
           /\ me.timer = TimerStop(worker[w].timer, now)
<1> DEFINE t == TimerStop(worker[w].timer, now)
           me == [worker[w] EXCEPT !.pc = "next", !.timer = t]
<1>1. worker[w] \in WorkerType
  BY DEF TypeInv
<1>2. t \in Timer
  OBVIOUS
<1>3. worker' = [worker EXCEPT ![w] = me]
  BY DEF StopRead
<1> HIDE DEF t
<1>4. /\ me \in WorkerType /\ me.pc = "next" /\ me.i = worker[w].i
      /\ me.index = worker[w].index /\ me.late = worker[w].late
      /\ me.monitor = worker[w].monitor /\ me.control = worker[w].control /\ me.timer = t
  BY <1>1, <1>2 DEF WorkerType, Pcs
<1> HIDE DEF me
<1> QED BY <1>3, <1>4 DEF Moves, t

\* The lists are kept; the entries the timer gets are at their end.
LEMMA ReportMoves ==
  ASSUME TypeInv, NEW w \in Pids, Report(w), NsPerSecond(worker[w].timer, now) \in Timer
  PROVE  \E me \in WorkerType :
           /\ Moves(w, me) /\ me.pc = "reporting" /\ me.i = worker[w].i
           /\ me.index = worker[w].index /\ me.late = worker[w].late
           /\ me.monitor = worker[w].monitor /\ me.control = worker[w].control
           /\ me.timer = NsPerSecond(worker[w].timer, now)
<1> DEFINE t == NsPerSecond(worker[w].timer, now)
           me == [worker[w] EXCEPT !.pc = "reporting", !.timer = t]
<1>1. worker[w] \in WorkerType
  BY DEF TypeInv
<1>2. t \in Timer
  OBVIOUS
<1>3. worker' = [worker EXCEPT ![w] = me]
  BY DEF Report
<1> HIDE DEF t
<1>4. /\ me \in WorkerType /\ me.pc = "reporting" /\ me.i = worker[w].i
      /\ me.index = worker[w].index /\ me.late = worker[w].late
      /\ me.monitor = worker[w].monitor /\ me.control = worker[w].control /\ me.timer = t
  BY <1>1, <1>2 DEF WorkerType, Pcs
<1> HIDE DEF me
<1> QED BY <1>3, <1>4 DEF Moves, t

LEMMA GoneFacts ==
  ASSUME NEW me \in WorkerType, NEW t \in Timer
  PROVE  /\ Gone(me, t) \in WorkerType
         /\ Gone(me, t).pc = "done" /\ Gone(me, t).i = me.i /\ Gone(me, t).index = 0
         /\ Gone(me, t).monitor.list = me.monitor.list /\ Gone(me, t).late = me.late
         /\ Gone(me, t).control = Unborn.control
         /\ Gone(me, t).timer = [NewTimer(0) EXCEPT !.list = t.list]
<1> DEFINE m == [NewMonitor(0) EXCEPT !.list = me.monitor.list]
           u == [NewTimer(0) EXCEPT !.list = t.list]
<1>1. Unborn \in WorkerType /\ Unborn.monitor = NewMonitor(0) /\ Unborn.timer = NewTimer(0)
      /\ Unborn.index = 0
  BY UnbornType DEF Unborn
<1>2. m \in Monitor /\ u \in Timer /\ m.list = me.monitor.list
  <2>1. NewMonitor(0) \in Monitor /\ NewTimer(0) \in Timer
    BY NewRecords
  <2> QED BY <2>1 DEF Monitor, Timer, WorkerType
<1>3. Gone(me, t) = [Unborn EXCEPT !.pc = "done", !.i = me.i, !.late = me.late,
                                 !.monitor = m, !.timer = u]
  BY <1>1 DEF Gone, Unborn
<1> HIDE DEF m, u
<1> DEFINE g == [Unborn EXCEPT !.pc = "done", !.i = me.i, !.late = me.late,
                                 !.monitor = m, !.timer = u]
<1>4. /\ g \in WorkerType /\ g.pc = "done" /\ g.i = me.i /\ g.index = 0 /\ g.monitor = m
      /\ g.late = me.late /\ g.control = Unborn.control /\ g.timer = u
  BY <1>1, <1>2 DEF WorkerType, Pcs
<1> HIDE DEF g
<1> QED BY <1>2, <1>3, <1>4 DEF g, u

\* What is listed stays listed.
LEMMA AskedKeepsEntries ==
  ASSUME NEW t \in Timer, NEW n \in Nat, NEW b \in Nat, Bounded(t, b)
  PROVE  /\ Len(t.list) <= Len(NsPerSecond(t, n).list)
         /\ \A i \in 1..Len(t.list) : NsPerSecond(t, n).list[i] = t.list[i]
<1> DEFINE r == TimerRolled(t, n)
           k == FullSeconds(n, t.clockPrev)
           avg == Average(t)
           old == t.list
<1>1. /\ t.clockPrev \in Nat /\ old \in Seq(Nat) /\ avg \in Nat
      /\ Len(old) \in Nat
  BY BoundedAverage, LenProperties DEF Timer
<1>2. k \in Nat
  BY <1>1, FullSecondsFacts
<1>3. r.list = Pushed(old, k, avg)
  BY DEF TimerRolled, Timer
<1>4. r \in Timer /\ Bounded(r, b)
  BY RolledTimer
<1>5. NsPerSecond(t, n) = IF r.count > 0 THEN [r EXCEPT !.list = Append(@, Average(r))] ELSE r
  BY DEF NsPerSecond
<1>6. r.list \in Seq(Nat) /\ Len(r.list) \in Nat /\ Average(r) \in Nat
  BY <1>4, BoundedAverage, LenProperties DEF Timer
<1> HIDE DEF r, k, avg, old
<1>7. IsPushed(Pushed(old, k, avg), old, k, avg)
  BY <1>1, <1>2, PushedFacts
<1>8. Len(old) <= Len(r.list) /\ \A i \in 1..Len(old) : r.list[i] = old[i]
  BY <1>1, <1>2, <1>3, <1>7 DEF IsPushed
<1>9. NsPerSecond(t, n).list = IF r.count > 0 THEN Append(r.list, Average(r)) ELSE r.list
  BY <1>4, <1>5 DEF Timer
<1>10. /\ Len(Append(r.list, Average(r))) = Len(r.list) + 1
       /\ \A i \in 1..Len(r.list) : Append(r.list, Average(r))[i] = r.list[i]
  BY <1>6, AppendProperties
<1>11. \A i \in 1..Len(old) : i \in 1..Len(r.list)
  BY <1>1, <1>6, <1>8
<1> DEFINE new == NsPerSecond(t, n).list
<1>12. CASE r.count > 0
  <2>1. new = Append(r.list, Average(r))
    BY <1>9, <1>12
  <2> HIDE DEF new
  <2>2. Len(old) <= Len(new) /\ \A i \in 1..Len(old) : new[i] = old[i]
    BY <2>1, <1>1, <1>6, <1>8, <1>10, <1>11
  <2> QED BY <2>2 DEF new, old
<1>13. CASE ~(r.count > 0)
  <2>1. new = r.list
    BY <1>9, <1>13
  <2> HIDE DEF new
  <2>2. Len(old) <= Len(new) /\ \A i \in 1..Len(old) : new[i] = old[i]
    BY <2>1, <1>8
  <2> QED BY <2>2 DEF new, old
<1> QED BY <1>12, <1>13

\* The rounds of AddTimes.
Asked(w) == NsPerSecond(worker[w].timer, now)
Again(w) == NsPerSecond(Asked(w), now)

AddRound(w, me) ==
  LET k == worker[w].index + 1
  IN /\ k <= Len(Asked(w).list) /\ k <= Len(worker[w].monitor.list)
     /\ me.pc = "reporting" /\ me.i = worker[w].i /\ me.index = k
     /\ me.monitor = worker[w].monitor /\ me.control = worker[w].control
     /\ me.late = worker[w].late
     /\ me.timer = Again(w)
     /\ total' = [total EXCEPT !.read =
                    AddedAt(@, k, worker[w].monitor.list[k] * Again(w).list[k])]
     /\ UNCHANGED console

SkipRound(w, me) ==
  LET k == worker[w].index + 1
  IN /\ k <= Len(Asked(w).list) /\ k > Len(worker[w].monitor.list)
     /\ me.pc = "reporting" /\ me.i = worker[w].i /\ me.index = k
     /\ me.monitor = worker[w].monitor /\ me.control = worker[w].control
     /\ me.late = worker[w].late
     /\ me.timer = Asked(w)
     /\ UNCHANGED <<total, console>>

LastRound(w, me) ==
  /\ worker[w].index >= Len(Asked(w).list)
  /\ me = Gone(worker[w], Asked(w))
  /\ console' = 0
  /\ UNCHANGED total

LEMMA AddTimesMoves ==
  ASSUME TypeInv, NEW w \in Pids, AddTimes(w), Bounded(worker[w].timer, longest)
  PROVE  \E me \in WorkerType :
           /\ Moves(w, me)
           /\ AddRound(w, me) \/ SkipRound(w, me) \/ LastRound(w, me)
<1> DEFINE old == worker[w]
           k == old.index + 1
           asked == Asked(w)
           again == Again(w)
<1>1. /\ old \in WorkerType /\ old.pc = "reporting" /\ now \in Nat /\ longest \in Nat
      /\ old.timer \in Timer /\ old.index \in Nat
  BY DEF TypeInv, AddTimes, Running, At, WorkerType
<1>2. asked \in Timer /\ Bounded(asked, longest)
  BY <1>1, AskedTimer DEF Asked
<1>3. again \in Timer
  <2> HIDE DEF asked
  <2>1. NsPerSecond(asked, now) \in Timer
    BY <1>1, <1>2, AskedTimer
  <2> QED BY <2>1 DEF asked, Again
<1>4. \/ /\ old.index < Len(asked.list) /\ k <= Len(old.monitor.list)
         /\ worker' = [worker EXCEPT ![w].index = k, ![w].timer = again]
         /\ total' = [total EXCEPT !.read =
                        AddedAt(@, k, old.monitor.list[k] * again.list[k])]
         /\ UNCHANGED console
      \/ /\ old.index < Len(asked.list) /\ k > Len(old.monitor.list)
         /\ worker' = [worker EXCEPT ![w].index = k, ![w].timer = asked]
         /\ UNCHANGED <<total, console>>
      \/ /\ old.index >= Len(asked.list)
         /\ worker' = [worker EXCEPT ![w] = Gone(old, asked)]
         /\ console' = 0
         /\ UNCHANGED total
  BY Zenon DEF AddTimes, Asked, Again
<1>5. Len(asked.list) \in Nat /\ k \in Nat
  BY <1>1, <1>2, LenProperties DEF Timer
<1> HIDE DEF asked, again
<1>6. CASE /\ old.index < Len(asked.list) /\ k <= Len(old.monitor.list)
           /\ worker' = [worker EXCEPT ![w].index = k, ![w].timer = again]
           /\ total' = [total EXCEPT !.read =
                          AddedAt(@, k, old.monitor.list[k] * again.list[k])]
           /\ UNCHANGED console
  <2> DEFINE me == [old EXCEPT !.index = k, !.timer = again]
  <2>1. worker' = [worker EXCEPT ![w] = me]
    BY <1>6
  <2> HIDE DEF old, k
  <2>2. /\ me \in WorkerType /\ me.pc = "reporting" /\ me.i = old.i /\ me.index = k
        /\ me.monitor = old.monitor /\ me.control = old.control /\ me.late = old.late
        /\ me.timer = again
    BY <1>1, <1>3, <1>5 DEF WorkerType
  <2>3. k <= Len(asked.list)
    BY <1>1, <1>5, <1>6 DEF k
  <2> HIDE DEF me
  <2>4. Moves(w, me)
    BY <2>1, <2>2 DEF Moves
  <2>5. AddRound(w, me)
    BY <1>6, <2>2, <2>3 DEF AddRound, old, k, asked, again
  <2> QED BY <2>2, <2>4, <2>5
<1>7. CASE /\ old.index < Len(asked.list) /\ k > Len(old.monitor.list)
           /\ worker' = [worker EXCEPT ![w].index = k, ![w].timer = asked]
           /\ UNCHANGED <<total, console>>
  <2> DEFINE me == [old EXCEPT !.index = k, !.timer = asked]
  <2>1. worker' = [worker EXCEPT ![w] = me]
    BY <1>7
  <2> HIDE DEF old, k
  <2>2. /\ me \in WorkerType /\ me.pc = "reporting" /\ me.i = old.i /\ me.index = k
        /\ me.monitor = old.monitor /\ me.control = old.control /\ me.late = old.late
        /\ me.timer = asked
    BY <1>1, <1>2, <1>5 DEF WorkerType
  <2>3. k <= Len(asked.list)
    BY <1>1, <1>5, <1>7 DEF k
  <2> HIDE DEF me
  <2>4. Moves(w, me)
    BY <2>1, <2>2 DEF Moves
  <2>5. SkipRound(w, me)
    BY <1>7, <2>2, <2>3 DEF SkipRound, old, k, asked
  <2> QED BY <2>2, <2>4, <2>5
<1>8. CASE /\ old.index >= Len(asked.list)
           /\ worker' = [worker EXCEPT ![w] = Gone(old, asked)]
           /\ console' = 0
           /\ UNCHANGED total
  <2> DEFINE me == Gone(old, asked)
  <2>1. me \in WorkerType
    BY <1>1, <1>2, GoneFacts
  <2>2. Moves(w, me) /\ LastRound(w, me)
    BY <1>8, <2>1 DEF Moves, LastRound, asked
  <2> HIDE DEF me
  <2> QED BY <2>1, <2>2
<1> QED BY <1>4, <1>6, <1>7, <1>8

----------------------------------------------------------------------------
(* Types, control and what the timers hold: an inductive invariant *)

TimerInv == \A w \in Pids : Bounded(worker[w].timer, longest)

TInv == TypeInv /\ PcInv /\ TimerInv

LEMMA BoundedByMore ==
  ASSUME NEW t \in Timer, NEW b \in Nat, NEW c \in Nat, b <= c, Bounded(t, b)
  PROVE  Bounded(t, c)
<1>1. t.count \in Nat /\ t.ns \in Nat /\ t.ns <= t.count * b
  BY DEF Timer, Bounded
<1>2. t.count * b <= t.count * c /\ t.count * b \in Nat /\ t.count * c \in Nat
  BY <1>1, Products
<1>3. t.ns <= t.count * c
  BY <1>1, <1>2
<1>4. ASSUME NEW i \in 1..Len(t.list) PROVE t.list[i] <= c
  <2>1. t.list[i] \in Nat /\ t.list[i] <= b
    BY ElementOfSeq DEF Timer, Bounded
  <2> QED BY <2>1
<1> QED BY <1>3, <1>4 DEF Bounded

LEMMA NewTimerBounded ==
  ASSUME NEW memory \in Nat, NEW b \in Nat
  PROVE  Bounded(NewTimer(memory), b)
<1>1. NewTimer(memory).ns = 0 /\ NewTimer(memory).count = 0 /\ Len(NewTimer(memory).list) = 0
  BY DEF NewTimer
<1> QED BY <1>1 DEF Bounded

\* What has to be shown of a step of a worker.
KeepsTypes(w, me) ==
  /\ left' \in Seq(Nat) /\ longest' \in Nat /\ longest <= longest'
  /\ total' \in [rate : Seq(Nat), read : Seq(Nat)]
  /\ console' \in Pids \cup {0}
  /\ \A v \in Pids : v # w => (console' = v <=> console = v)
  /\ me.pc = "reporting" <=> console' = w
  /\ me.pc # "none" /\ worker[w].pc # "none"
  /\ me.i <= options.requests
  /\ me.pc # "reporting" => me.index = 0
  /\ RateFits(me.control.mode, me.control.rate)
  /\ Bounded(me.timer, longest')

LEMMA WorkerKeepsTypes ==
  ASSUME TInv, NEW w \in Pids, NEW me \in WorkerType, Moves(w, me),
         UNCHANGED <<options, main, now>>, KeepsTypes(w, me)
  PROVE  TInv'
<1>1. /\ worker' \in [Pids -> WorkerType] /\ worker'[w] = me
      /\ \A v \in Pids : v # w => worker'[v] = worker[v]
      /\ Pids' = Pids
  <2>1. TypeInv /\ UNCHANGED options
    BY DEF TInv
  <2> QED BY <2>1, MovedWorker
<1>2. TypeInv'
  BY <1>1 DEF TInv, TypeInv, KeepsTypes, OptionsOK
<1>3. PcInv'
  <2> SUFFICES ASSUME NEW v \in Pids
               PROVE  /\ worker'[v].i <= options.requests
                      /\ worker'[v].pc = "none" <=> v > main.created
                      /\ worker'[v].pc = "reporting" <=> console' = v
                      /\ worker'[v].pc # "reporting" => worker'[v].index = 0
                      /\ RateFits(worker'[v].control.mode, worker'[v].control.rate)
    BY <1>1 DEF PcInv
  <2>1. CASE v = w
    BY <2>1, <1>1 DEF TInv, PcInv, KeepsTypes
  <2>2. CASE v # w
    BY <2>2, <1>1 DEF TInv, PcInv, KeepsTypes
  <2> QED BY <2>1, <2>2
<1>4. TimerInv'
  <2> SUFFICES ASSUME NEW v \in Pids PROVE Bounded(worker'[v].timer, longest')
    BY <1>1 DEF TimerInv
  <2>1. CASE v = w
    BY <2>1, <1>1 DEF KeepsTypes
  <2>2. CASE v # w
    <3>1. /\ worker[v].timer \in Timer /\ Bounded(worker[v].timer, longest)
          /\ longest \in Nat /\ longest' \in Nat /\ longest <= longest'
      BY DEF TInv, TypeInv, TimerInv, WorkerType, KeepsTypes
    <3>2. worker'[v] = worker[v]
      BY <2>2, <1>1
    <3>3. Bounded(worker[v].timer, longest')
      BY <3>1, BoundedByMore
    <3> QED BY <3>2, <3>3
  <2> QED BY <2>1, <2>2
<1> QED BY <1>2, <1>3, <1>4 DEF TInv

\* What is known of the worker before its step.
LEMMA Before ==
  ASSUME TInv, NEW w \in Pids
  PROVE  /\ worker[w] \in WorkerType /\ worker[w].timer \in Timer
         /\ worker[w].monitor \in Monitor /\ worker[w].control \in Control
         /\ worker[w].i \in Nat /\ worker[w].index \in Nat
         /\ worker[w].i <= options.requests /\ options.requests \in Nat
         /\ worker[w].pc = "none" <=> w > main.created
         /\ worker[w].pc = "reporting" <=> console = w
         /\ worker[w].pc # "reporting" => worker[w].index = 0
         /\ RateFits(worker[w].control.mode, worker[w].control.rate)
         /\ Bounded(worker[w].timer, longest)
         /\ now \in Nat /\ longest \in Nat
         /\ left \in Seq(Nat) /\ total \in [rate : Seq(Nat), read : Seq(Nat)]
         /\ console \in Pids \cup {0} /\ w # 0
<1>1. worker[w] \in WorkerType
  BY DEF TInv, TypeInv
<1>2. /\ worker[w].timer \in Timer /\ worker[w].monitor \in Monitor
      /\ worker[w].control \in Control /\ worker[w].i \in Nat /\ worker[w].index \in Nat
  BY <1>1 DEF WorkerType
<1>3. /\ worker[w].i <= options.requests
      /\ worker[w].pc = "none" <=> w > main.created
      /\ worker[w].pc = "reporting" <=> console = w
      /\ worker[w].pc # "reporting" => worker[w].index = 0
      /\ RateFits(worker[w].control.mode, worker[w].control.rate)
  BY DEF TInv, PcInv
<1>4. Bounded(worker[w].timer, longest)
  BY DEF TInv, TimerInv
<1>5. /\ now \in Nat /\ longest \in Nat /\ options.requests \in Nat
      /\ left \in Seq(Nat) /\ total \in [rate : Seq(Nat), read : Seq(Nat)]
      /\ console \in Pids \cup {0}
  BY DEF TInv, TypeInv, OptionsOK
<1>6. w # 0
  BY DEF TInv, TypeInv, OptionsOK, Pids
<1> QED BY <1>1, <1>2, <1>3, <1>4, <1>5, <1>6

LEMMA BeginControlTypes ==
  ASSUME TInv, NEW w \in Pids, BeginControl(w) PROVE TInv'
<1>1. PICK memory \in Nat, me \in WorkerType :
         /\ Moves(w, me) /\ me.pc = "starting" /\ me.i = worker[w].i
         /\ me.index = worker[w].index
         /\ me.timer = NewTimer(memory)
         /\ me.control = NewControl(options.mode, options.rate, now)
  BY BeginControlMoves DEF TInv
<1>2. worker[w].pc = "start" /\ UNCHANGED <<options, left, now, main, console, total, longest>>
  BY DEF BeginControl, Running, At
<1>3. RateFits(me.control.mode, me.control.rate)
  BY <1>1 DEF TInv, TypeInv, OptionsOK, NewControl
<1>4. Bounded(me.timer, longest)
  BY <1>1, Before, NewTimerBounded
<1>5. KeepsTypes(w, me)
  BY <1>1, <1>2, <1>3, <1>4, Before DEF KeepsTypes
<1> QED BY <1>1, <1>2, <1>5, WorkerKeepsTypes

LEMMA BeginMonitorTypes ==
  ASSUME TInv, NEW w \in Pids, BeginMonitor(w) PROVE TInv'
<1>1. PICK me \in WorkerType :
         /\ Moves(w, me) /\ me.pc = "next" /\ me.i = worker[w].i
         /\ me.index = worker[w].index
         /\ me.timer = worker[w].timer /\ me.control = worker[w].control
  BY BeginMonitorMoves DEF TInv
<1>2. worker[w].pc = "starting" /\ UNCHANGED <<options, left, now, main, console, total, longest>>
  BY DEF BeginMonitor, Running, At
<1>3. KeepsTypes(w, me)
  BY <1>1, <1>2, Before DEF KeepsTypes
<1> QED BY <1>1, <1>2, <1>3, WorkerKeepsTypes

LEMMA NextHitTypes ==
  ASSUME TInv, NEW w \in Pids, NextHit(w) PROVE TInv'
<1>1. /\ left' \in Seq(Nat)
      /\ \E me \in WorkerType, hitTime \in Nat :
           /\ Moves(w, me) /\ me.pc = "pace" /\ me.i = worker[w].i + 1
           /\ me.index = worker[w].index
           /\ me.hitTime = hitTime /\ me.wakeAt = now
           /\ me.timer = worker[w].timer
           /\ me.monitor = Increment(worker[w].monitor, now)
           /\ me.control = Counted(worker[w].control, hitTime, now)
  BY NextHitMoves DEF TInv
<1>2. PICK me \in WorkerType, hitTime \in Nat :
         /\ Moves(w, me) /\ me.pc = "pace" /\ me.i = worker[w].i + 1
         /\ me.index = worker[w].index
         /\ me.timer = worker[w].timer
         /\ me.control = Counted(worker[w].control, hitTime, now)
  BY <1>1
<1>3. /\ worker[w].pc = "next" /\ worker[w].i < options.requests
      /\ UNCHANGED <<options, now, main, console, total, longest>>
  BY DEF NextHit, Running, At
<1>4. RateFits(me.control.mode, me.control.rate)
  <2>1. /\ worker[w].control \in Control /\ now \in Nat
        /\ RateFits(worker[w].control.mode, worker[w].control.rate)
    BY Before
  <2>2. me.control.mode = worker[w].control.mode /\ me.control.rate = worker[w].control.rate
    <3> DEFINE c == worker[w].control
    <3>1. c \in Control /\ now \in Nat /\ hitTime \in Nat
      BY <2>1
    <3>2. me.control = Counted(c, hitTime, now)
      BY <1>2
    <3> HIDE DEF c
    <3>3. Counted(c, hitTime, now).mode = c.mode /\ Counted(c, hitTime, now).rate = c.rate
      BY <3>1, CountedControl
    <3> QED BY <3>2, <3>3 DEF c
  <2> QED BY <2>1, <2>2
<1>5. me.i <= options.requests
  BY <1>2, <1>3, Before
<1>6. KeepsTypes(w, me)
  BY <1>1, <1>2, <1>3, <1>4, <1>5, Before DEF KeepsTypes
<1> QED BY <1>2, <1>3, <1>6, WorkerKeepsTypes

LEMMA NoMoreHitsTypes ==
  ASSUME TInv, NEW w \in Pids, NoMoreHits(w) PROVE TInv'
<1>1. PICK me \in WorkerType :
         /\ Moves(w, me) /\ me.pc = "stopped" /\ me.i = worker[w].i
         /\ me.index = worker[w].index
         /\ me.timer = worker[w].timer /\ me.control = worker[w].control
  BY NoMoreHitsMoves DEF TInv
<1>2. worker[w].pc = "next" /\ UNCHANGED <<options, left, now, main, console, total, longest>>
  BY DEF NoMoreHits, Running, At
<1>3. KeepsTypes(w, me)
  BY <1>1, <1>2, Before DEF KeepsTypes
<1> QED BY <1>1, <1>2, <1>3, WorkerKeepsTypes

LEMMA PaceTypes ==
  ASSUME TInv, NEW w \in Pids, Pace(w) PROVE TInv'
<1>1. PICK me \in WorkerType :
         /\ Moves(w, me) /\ me.i = worker[w].i /\ me.index = worker[w].index
         /\ me.control = worker[w].control
         /\ \/ me.pc = "pace" /\ me.timer = worker[w].timer
            \/ me.pc = "reading" /\ me.timer = TimerStart(worker[w].timer, now)
  BY PaceMoves DEF TInv
<1>2. worker[w].pc = "pace" /\ UNCHANGED <<options, left, now, main, console, total, longest>>
  BY DEF Pace, Running, At
<1>3. Bounded(me.timer, longest)
  BY <1>1, Before, StartedTimer
<1>4. KeepsTypes(w, me)
  BY <1>1, <1>2, <1>3, Before DEF KeepsTypes
<1> QED BY <1>1, <1>2, <1>4, WorkerKeepsTypes

\* The time that has been measured is at most the longest one.
LEMMA StopReadBounds ==
  ASSUME TInv, NEW w \in Pids, StopRead(w)
  PROVE  /\ longest' \in Nat /\ longest <= longest'
         /\ TimerStop(worker[w].timer, now) \in Timer
         /\ Bounded(TimerStop(worker[w].timer, now), longest')
<1> DEFINE start == worker[w].timer.clockStart
<1>1. /\ start \in Nat /\ now \in Nat /\ longest \in Nat
      /\ worker[w].timer \in Timer /\ Bounded(worker[w].timer, longest)
  BY Before DEF Timer
<1>2. longest' = IF now - start > longest THEN now - start ELSE longest
  BY DEF StopRead
<1> HIDE DEF start
<1>3. longest' \in Nat /\ longest <= longest' /\ Minus(now, start) <= longest'
  BY <1>1, <1>2 DEF Minus
<1>4. Bounded(worker[w].timer, longest')
  BY <1>1, <1>3, BoundedByMore
<1> QED BY <1>1, <1>3, <1>4, StoppedTimer DEF start

LEMMA StopReadTypes ==
  ASSUME TInv, NEW w \in Pids, StopRead(w) PROVE TInv'
<1>1. PICK me \in WorkerType :
         /\ Moves(w, me) /\ me.pc = "next" /\ me.i = worker[w].i
         /\ me.index = worker[w].index
         /\ me.monitor = worker[w].monitor /\ me.control = worker[w].control
         /\ me.timer = TimerStop(worker[w].timer, now)
  BY StopReadBounds, StopReadMoves DEF TInv
<1>2. worker[w].pc = "reading" /\ UNCHANGED <<options, left, now, main, console, total>>
  BY DEF StopRead, Running, At
<1>3. longest' \in Nat /\ longest <= longest' /\ Bounded(me.timer, longest')
  BY <1>1, StopReadBounds
<1>4. KeepsTypes(w, me)
  BY <1>1, <1>2, <1>3, Before DEF KeepsTypes
<1> QED BY <1>1, <1>2, <1>4, WorkerKeepsTypes

----------------------------------------------------------------------------
(* The totals of two lists *)

LEMMA AddedFacts ==
  ASSUME NEW a \in Seq(Nat), NEW b \in Seq(Nat)
  PROVE  /\ Added(a, b) \in Seq(Nat)
         /\ Len(Added(a, b)) = IF Len(a) > Len(b) THEN Len(a) ELSE Len(b)
         /\ \A i \in 1..Len(Added(a, b)) : Added(a, b)[i] = EntryOf(a, i) + EntryOf(b, i)
<1> DEFINE n == IF Len(a) > Len(b) THEN Len(a) ELSE Len(b)
           f == [i \in 1..n |-> EntryOf(a, i) + EntryOf(b, i)]
<1>1. n \in Nat
  BY LenProperties
<1>2. \A i \in 1..n : EntryOf(a, i) \in Nat /\ EntryOf(b, i) \in Nat
  BY ElementOfSeq, LenProperties DEF EntryOf
<1>3. Added(a, b) = f
  BY DEF Added, EntryOf
<1> HIDE DEF n
<1>4. \A i \in 1..n : f[i] \in Nat
  BY <1>2
<1>5. f \in [1..n -> Nat]
  BY <1>4
<1>6. f \in Seq(Nat)
  BY <1>1, <1>5
<1>7. Len(f) = n
  BY <1>1, <1>6, LenProperties
<1>8. \A i \in 1..n : f[i] = EntryOf(a, i) + EntryOf(b, i)
  OBVIOUS
<1> HIDE DEF f
<1> QED BY <1>3, <1>6, <1>7, <1>8 DEF n

\* b is a with e added to the entry k, which may be a new one.
IsAddedAt(b, a, k, e) ==
  /\ b \in Seq(Nat)
  /\ Len(b) = IF k <= Len(a) THEN Len(a) ELSE Len(a) + 1
  /\ \A i \in 1..Len(b) : b[i] = EntryOf(a, i) + IF i = k THEN e ELSE 0

LEMMA AddedAtFacts ==
  ASSUME NEW a \in Seq(Nat), NEW k \in Nat \ {0}, NEW e \in Nat, k <= Len(a) + 1
  PROVE  IsAddedAt(AddedAt(a, k, e), a, k, e)
<1>1. CASE k <= Len(a)
  <2>1. AddedAt(a, k, e) = [a EXCEPT ![k] = @ + e]
    BY <1>1 DEF AddedAt
  <2>2. k \in 1..Len(a) /\ a[k] + e \in Nat
    BY <1>1, ElementOfSeq, LenProperties
  <2> DEFINE f == [a EXCEPT ![k] = a[k] + e]
  <2>3. f \in Seq(Nat) /\ Len(f) = Len(a) /\ \A i \in 1..Len(a) : f[i] = IF i = k THEN a[k] + e ELSE a[i]
    BY <2>2, ExceptSeq
  <2>4. \A i \in 1..Len(a) : a[i] \in Nat
    BY ElementOfSeq
  <2>5. AddedAt(a, k, e) = f
    BY <2>1
  <2> HIDE DEF f
  <2> QED BY <1>1, <2>3, <2>4, <2>5 DEF EntryOf, IsAddedAt
<1>2. CASE ~(k <= Len(a))
  <2>1. AddedAt(a, k, e) = Append(a, e)
    BY <1>2 DEF AddedAt
  <2>2. /\ Append(a, e) \in Seq(Nat) /\ Len(Append(a, e)) = Len(a) + 1
        /\ \A i \in 1..Len(a) : Append(a, e)[i] = a[i]
        /\ Append(a, e)[Len(a) + 1] = e
    BY AppendProperties
  <2>3. \A i \in 1..Len(a) : a[i] \in Nat
    BY ElementOfSeq
  <2>4. Len(a) \in Nat /\ k = Len(a) + 1
    BY <1>2, LenProperties
  <2> DEFINE f == Append(a, e)
  <2> HIDE DEF f
  <2>5. \A i \in 1..Len(f) : i \in 1..Len(a) \/ i = Len(a) + 1
    BY <2>2, <2>4 DEF f
  <2>6. \A i \in 1..Len(f) : f[i] = EntryOf(a, i) + IF i = Len(a) + 1 THEN e ELSE 0
    BY <2>2, <2>3, <2>4, <2>5 DEF EntryOf, f
  <2> QED BY <1>2, <2>1, <2>2, <2>4, <2>6 DEF f, IsAddedAt
<1> QED BY <1>1, <1>2

LEMMA AddedAtType ==
  ASSUME NEW a \in Seq(Nat), NEW k \in Nat \ {0}, NEW e \in Nat
  PROVE  AddedAt(a, k, e) \in Seq(Nat)
<1>1. CASE k <= Len(a)
  <2>1. k \in 1..Len(a) /\ a[k] + e \in Nat
    BY <1>1, ElementOfSeq, LenProperties
  <2>2. [a EXCEPT ![k] = a[k] + e] \in Seq(Nat)
    BY <2>1, ExceptSeq
  <2> QED BY <1>1, <2>2 DEF AddedAt
<1>2. CASE ~(k <= Len(a))
  BY <1>2, AppendProperties DEF AddedAt
<1> QED BY <1>1, <1>2

LEMMA ReportTypes ==
  ASSUME TInv, NEW w \in Pids, Report(w) PROVE TInv'
<1>1. NsPerSecond(worker[w].timer, now) \in Timer /\ Bounded(NsPerSecond(worker[w].timer, now), longest)
  BY Before, AskedTimer
<1>2. PICK me \in WorkerType :
         /\ Moves(w, me) /\ me.pc = "reporting" /\ me.i = worker[w].i
         /\ me.index = worker[w].index
         /\ me.monitor = worker[w].monitor /\ me.control = worker[w].control
         /\ me.timer = NsPerSecond(worker[w].timer, now)
  BY <1>1, ReportMoves DEF TInv
<1>3. /\ worker[w].pc = "stopped" /\ console = 0 /\ console' = w
      /\ total' = [total EXCEPT !.rate = Added(@, worker[w].monitor.list)]
      /\ UNCHANGED <<options, left, now, main, longest>>
  BY DEF Report, Running, At
<1>4. total' \in [rate : Seq(Nat), read : Seq(Nat)]
  <2>1. total.rate \in Seq(Nat) /\ worker[w].monitor.list \in Seq(Nat)
    BY Before DEF Monitor
  <2>2. Added(total.rate, worker[w].monitor.list) \in Seq(Nat)
    BY <2>1, AddedFacts
  <2> QED BY <1>3, <2>2, Before
<1>5. \A v \in Pids : v # w => (console' = v <=> console = v)
  BY <1>3, Before DEF Pids
<1>6. KeepsTypes(w, me)
  BY <1>1, <1>2, <1>3, <1>4, <1>5, Before DEF KeepsTypes
<1> QED BY <1>2, <1>3, <1>6, WorkerKeepsTypes

LEMMA AddTimesTypes ==
  ASSUME TInv, NEW w \in Pids, AddTimes(w) PROVE TInv'
<1>1. Bounded(worker[w].timer, longest) /\ worker[w].timer \in Timer /\ now \in Nat /\ longest \in Nat
  BY Before
<1>2. PICK me \in WorkerType :
        /\ Moves(w, me)
        /\ AddRound(w, me) \/ SkipRound(w, me) \/ LastRound(w, me)
  BY <1>1, AddTimesMoves DEF TInv
<1>3. worker[w].pc = "reporting" /\ UNCHANGED <<options, left, now, main, longest>>
  BY DEF AddTimes, Running, At
<1>4. Asked(w) \in Timer /\ Bounded(Asked(w), longest)
  BY <1>1, AskedTimer DEF Asked
<1>5. Again(w) \in Timer /\ Bounded(Again(w), longest)
  BY <1>1, <1>4, AskedTimer DEF Again
<1>6. console = w /\ w \in Pids /\ w # 0
  BY <1>3, Before
<1>7. CASE AddRound(w, me)
  <2> DEFINE k == worker[w].index + 1
             product == worker[w].monitor.list[k] * Again(w).list[k]
  <2>1. /\ k <= Len(Asked(w).list) /\ k <= Len(worker[w].monitor.list)
        /\ me.pc = "reporting" /\ me.i = worker[w].i
        /\ me.control = worker[w].control /\ me.timer = Again(w)
        /\ total' = [total EXCEPT !.read = AddedAt(@, k, product)]
        /\ UNCHANGED console
    BY <1>7 DEF AddRound
  <2>2. k \in Nat /\ k >= 1
    BY Before
  <2>3. product \in Nat
    <3>1. worker[w].monitor.list \in Seq(Nat) /\ Again(w).list \in Seq(Nat) /\ Asked(w).list \in Seq(Nat)
      BY <1>4, <1>5, Before DEF Monitor, Timer
    <3>2. Len(Asked(w).list) <= Len(Again(w).list)
      BY <1>1, <1>4, AskedKeepsEntries DEF Again
    <3>3. worker[w].monitor.list[k] \in Nat /\ Again(w).list[k] \in Nat
      <4> DEFINE a == worker[w].monitor.list
                 b == Again(w).list
                 c == Asked(w).list
      <4>1. a \in Seq(Nat) /\ b \in Seq(Nat) /\ c \in Seq(Nat) /\ Len(c) <= Len(b)
            /\ k <= Len(c) /\ k <= Len(a)
        BY <2>1, <3>1, <3>2
      <4> HIDE DEF a, b, c, k
      <4>2. k \in 1..Len(a) /\ k \in 1..Len(b)
        BY <4>1, <2>2, LenProperties
      <4>3. a[k] \in Nat /\ b[k] \in Nat
        BY <4>1, <4>2, ElementOfSeq
      <4> QED BY <4>3 DEF a, b
    <3> HIDE DEF k
    <3> QED BY <3>3
  <2> HIDE DEF product, k
  <2>4. total' \in [rate : Seq(Nat), read : Seq(Nat)]
    <3>1. total.read \in Seq(Nat) /\ total \in [rate : Seq(Nat), read : Seq(Nat)]
      BY Before
    <3>2. AddedAt(total.read, k, product) \in Seq(Nat)
      <4>1. k \in Nat \ {0}
        BY <2>2
      <4> QED BY <3>1, <4>1, <2>3, AddedAtType
    <3> QED BY <2>1, <3>1, <3>2
  <2>5. KeepsTypes(w, me)
    BY <1>3, <1>5, <1>6, <2>1, <2>4, Before DEF KeepsTypes
  <2> QED BY <1>2, <1>3, <2>5, WorkerKeepsTypes
<1>8. CASE SkipRound(w, me)
  <2>1. /\ me.pc = "reporting" /\ me.i = worker[w].i
        /\ me.control = worker[w].control /\ me.timer = Asked(w)
        /\ UNCHANGED <<total, console>>
    BY <1>8 DEF SkipRound
  <2>2. KeepsTypes(w, me)
    BY <1>3, <1>4, <1>6, <2>1, Before DEF KeepsTypes
  <2> QED BY <1>2, <1>3, <2>2, WorkerKeepsTypes
<1>9. CASE LastRound(w, me)
  <2>1. me = Gone(worker[w], Asked(w)) /\ console' = 0 /\ UNCHANGED total
    BY <1>9 DEF LastRound
  <2>2. /\ me.pc = "done" /\ me.i = worker[w].i /\ me.index = 0
        /\ me.control = Unborn.control
        /\ me.timer = [NewTimer(0) EXCEPT !.list = Asked(w).list]
    BY <2>1, <1>4, Before, GoneFacts
  <2>3. RateFits(me.control.mode, me.control.rate)
    BY <2>2, UnbornType
  <2>4. Bounded(me.timer, longest)
    <3>1. me.timer.list = Asked(w).list /\ me.timer.count = 0 /\ me.timer.ns = 0
      BY <2>2 DEF NewTimer
    <3> QED BY <1>1, <1>4, <3>1 DEF Bounded
  <2>5. \A v \in Pids : v # w => (console' = v <=> console = v)
    BY <1>6, <2>1, Before DEF Pids
  <2>6. KeepsTypes(w, me)
    BY <1>3, <1>6, <2>1, <2>2, <2>3, <2>4, <2>5, Before DEF KeepsTypes
  <2> QED BY <1>2, <1>3, <2>6, WorkerKeepsTypes
<1> QED BY <1>2, <1>7, <1>8, <1>9

----------------------------------------------------------------------------
(* What the totals hold: lengths and weights *)

\* The console's rates of seconds whose times have not been added yet.
Pending(i) ==
  IF console # 0 /\ i > worker[console].index THEN EntryOf(worker[console].monitor.list, i) ELSE 0

\* Every second with a time has a rate, also in the middle of a worker.
Lengths ==
  /\ Len(total.read) <= Len(total.rate)
  /\ console # 0 =>
       /\ Len(worker[console].monitor.list) <= Len(total.rate)
       /\ \A j \in 1..worker[console].index :
            j <= Len(worker[console].monitor.list) => j <= Len(total.read)

\* The events of a second whose times are in the total weigh at most longest.
Weights ==
  main.pc # "returned" =>
    \A i \in 1..Len(total.rate) :
      /\ Pending(i) <= total.rate[i]
      /\ i <= Len(total.read) => total.read[i] <= (total.rate[i] - Pending(i)) * longest

TotalsInv == Lengths /\ Weights

LEMMA EntryFacts ==
  ASSUME NEW list \in Seq(Nat)
  PROVE  \A i \in Nat \ {0} :
           /\ EntryOf(list, i) \in Nat
           /\ i <= Len(list) => EntryOf(list, i) = list[i]
           /\ i > Len(list) => EntryOf(list, i) = 0
BY ElementOfSeq, LenProperties DEF EntryOf

LEMMA PendingNat ==
  ASSUME TInv, NEW i \in Nat \ {0}
  PROVE  Pending(i) \in Nat
<1>1. CASE console = 0
  BY <1>1 DEF Pending
<1>2. CASE console # 0
  <2>1. console \in Pids
    BY <1>2 DEF TInv, TypeInv
  <2>2. worker[console].monitor.list \in Seq(Nat)
    BY <2>1, Before DEF Monitor
  <2>3. EntryOf(worker[console].monitor.list, i) \in Nat
    BY <2>2, EntryFacts
  <2> QED BY <2>3 DEF Pending
<1> QED BY <1>1, <1>2

LEMMA TotalsType ==
  ASSUME TInv
  PROVE  /\ total.rate \in Seq(Nat) /\ total.read \in Seq(Nat)
         /\ Len(total.rate) \in Nat /\ Len(total.read) \in Nat /\ longest \in Nat
         /\ \A i \in 1..Len(total.rate) : total.rate[i] \in Nat
         /\ \A i \in 1..Len(total.read) : total.read[i] \in Nat
<1>1. total.rate \in Seq(Nat) /\ total.read \in Seq(Nat) /\ longest \in Nat
  BY DEF TInv, TypeInv
<1> QED BY <1>1, ElementOfSeq, LenProperties

\* Steps that change neither the totals nor what the console still has to add.
LEMMA TotalsKept ==
  ASSUME TInv, TotalsInv, UNCHANGED total,
         main.pc # "returned" \/ main'.pc = "returned",
         longest' \in Nat, longest <= longest',
         \A i \in Nat \ {0} : Pending(i)' = Pending(i),
         Lengths'
  PROVE  TotalsInv'
<1>1. SUFFICES ASSUME main'.pc # "returned", NEW i \in 1..Len(total.rate)
               PROVE  /\ Pending(i) <= total.rate[i]
                      /\ i <= Len(total.read) =>
                           total.read[i] <= (total.rate[i] - Pending(i)) * longest'
  BY DEF TotalsInv, Weights
<1>2. /\ Pending(i) <= total.rate[i]
      /\ i <= Len(total.read) => total.read[i] <= (total.rate[i] - Pending(i)) * longest
  BY <1>1 DEF TotalsInv, Weights
<1>3. Pending(i) \in Nat /\ total.rate[i] \in Nat
  BY PendingNat, TotalsType
<1> DEFINE d == total.rate[i] - Pending(i)
<1>4. d \in Nat
  BY <1>2, <1>3
<1>5. CASE i <= Len(total.read)
  <2>1. total.read[i] \in Nat /\ longest \in Nat
    BY <1>5, TotalsType
  <2> HIDE DEF d
  <2>2. d * longest <= d * longest' /\ d * longest \in Int /\ d * longest' \in Int
    <3>1. ASSUME NEW x \in Nat, NEW a \in Nat, NEW b \in Nat, a <= b
          PROVE  x * a <= x * b /\ x * a \in Int /\ x * b \in Int
      BY <3>1, Products
    <3> QED BY <3>1, <1>4, <2>1
  <2>3. total.read[i] <= d * longest
    BY <1>2, <1>5 DEF d
  <2>4. total.read[i] <= d * longest'
    BY <2>1, <2>2, <2>3
  <2> QED BY <1>2, <2>4 DEF d
<1> QED BY <1>2, <1>5

\* A step of a worker that does not hold the mutex, before or after.
LEMMA OthersKeepTotals ==
  ASSUME TInv, TotalsInv, NEW w \in Pids, NEW me \in WorkerType, Moves(w, me),
         UNCHANGED <<options, main, total, console>>, console # w,
         main.pc = "creating", longest' \in Nat, longest <= longest'
  PROVE  TotalsInv'
<1>1. \A v \in Pids : v # w => worker'[v] = worker[v]
  BY MovedWorker DEF TInv
<1>2. console # 0 => worker'[console] = worker[console]
  BY <1>1 DEF TInv, TypeInv
<1>3. \A i \in Nat \ {0} : Pending(i)' = Pending(i)
  BY <1>2 DEF Pending
<1>4. Lengths'
  BY <1>2 DEF TotalsInv, Lengths
<1> HIDE DEF TotalsInv
<1> QED BY <1>3, <1>4, TotalsKept

LEMMA ReportTotals ==
  ASSUME TInv, TotalsInv, NEW w \in Pids, Report(w)
  PROVE  TotalsInv'
<1> DEFINE list == worker[w].monitor.list
           rate == Added(total.rate, list)
<1>1. NsPerSecond(worker[w].timer, now) \in Timer
  BY Before, AskedTimer
<1>2. PICK me \in WorkerType :
         /\ Moves(w, me) /\ me.pc = "reporting" /\ me.index = worker[w].index
         /\ me.monitor = worker[w].monitor
  BY <1>1, ReportMoves DEF TInv
<1>3. /\ worker[w].pc = "stopped" /\ console = 0 /\ console' = w
      /\ total' = [total EXCEPT !.rate = rate]
      /\ UNCHANGED <<options, left, now, main, longest>>
      /\ main.pc = "creating"
  BY DEF Report, Running, At
<1>4. worker'[w] = me /\ me.index = 0 /\ w # 0
  BY <1>2, <1>3, MovedWorker, Before DEF TInv
<1>5. list \in Seq(Nat)
  BY Before DEF Monitor
<1>6. /\ rate \in Seq(Nat)
      /\ Len(rate) = IF Len(total.rate) > Len(list) THEN Len(total.rate) ELSE Len(list)
      /\ \A i \in 1..Len(rate) : rate[i] = EntryOf(total.rate, i) + EntryOf(list, i)
  BY <1>5, TotalsType, AddedFacts
<1>7. total'.rate = rate /\ total'.read = total.read
  BY <1>3 DEF TInv, TypeInv
<1>8. Len(list) \in Nat /\ Len(total.rate) \in Nat /\ Len(total.read) \in Nat
  BY <1>5, TotalsType
<1>9. worker'[w].monitor.list = list /\ worker'[w].index = 0
  BY <1>2, <1>4
<1>10. Lengths'
  <2>1. Len(total.read) <= Len(rate) /\ Len(list) <= Len(rate)
    BY <1>6, <1>8 DEF TotalsInv, Lengths
  <2> HIDE DEF list, rate
  <2> QED BY <2>1, <1>3, <1>7, <1>9 DEF Lengths
<1>11. Weights'
  <2> SUFFICES ASSUME NEW i \in 1..Len(rate)
               PROVE  /\ Pending(i)' <= rate[i]
                      /\ i <= Len(total.read) =>
                           total.read[i] <= (rate[i] - Pending(i)') * longest
    BY <1>3, <1>7 DEF Weights
  <2>1. Pending(i)' = EntryOf(list, i)
    <3> HIDE DEF list
    <3> QED BY <1>3, <1>4, <1>9 DEF Pending
  <2>2. i \in Nat \ {0}
    BY <1>6, LenProperties
  <2>3. EntryOf(list, i) \in Nat /\ EntryOf(total.rate, i) \in Nat
    BY <2>2, <1>5, EntryFacts, TotalsType
  <2>4. rate[i] = EntryOf(total.rate, i) + EntryOf(list, i)
    BY <1>6
  <2> HIDE DEF list, rate
  <2>5. Pending(i)' <= rate[i] /\ rate[i] - Pending(i)' = EntryOf(total.rate, i)
    BY <2>1, <2>3, <2>4
  <2>6. ASSUME i <= Len(total.read)
        PROVE  total.read[i] <= EntryOf(total.rate, i) * longest
    <3>1. i \in 1..Len(total.rate)
      BY <2>2, <2>6, <1>8 DEF TotalsInv, Lengths
    <3>2. Pending(i) = 0
      BY <1>3 DEF Pending
    <3>3. total.read[i] <= (total.rate[i] - Pending(i)) * longest
      BY <3>1, <2>6, <1>3 DEF TotalsInv, Weights
    <3>4. EntryOf(total.rate, i) = total.rate[i] /\ total.rate[i] \in Nat
      BY <3>1, TotalsType DEF EntryOf
    <3> QED BY <3>2, <3>3, <3>4
  <2> QED BY <2>5, <2>6
<1> QED BY <1>10, <1>11 DEF TotalsInv

LEMMA AddTimesTotals ==
  ASSUME TInv, TotalsInv, NEW w \in Pids, AddTimes(w)
  PROVE  TotalsInv'
<1>1. Bounded(worker[w].timer, longest) /\ worker[w].timer \in Timer /\ now \in Nat /\ longest \in Nat
  BY Before
<1>2. PICK me \in WorkerType :
        /\ Moves(w, me)
        /\ AddRound(w, me) \/ SkipRound(w, me) \/ LastRound(w, me)
  BY <1>1, AddTimesMoves DEF TInv
<1>3. /\ worker[w].pc = "reporting" /\ UNCHANGED <<options, left, now, main, longest>>
      /\ main.pc = "creating"
  BY DEF AddTimes, Running, At
<1>4. console = w /\ w # 0
  BY <1>3, Before
<1>5. worker'[w] = me
  BY <1>2, <1>3, MovedWorker DEF TInv
<1>6. Asked(w) \in Timer /\ Bounded(Asked(w), longest)
  BY <1>1, AskedTimer DEF Asked
<1>7. Again(w) \in Timer /\ Bounded(Again(w), longest)
  BY <1>1, <1>6, AskedTimer DEF Again
<1> DEFINE list == worker[w].monitor.list
           k == worker[w].index + 1
           rate == total.rate
           read == total.read
           times == Again(w).list
<1>8. /\ list \in Seq(Nat) /\ times \in Seq(Nat) /\ Asked(w).list \in Seq(Nat)
      /\ k \in Nat \ {0} /\ worker[w].index \in Nat
      /\ Len(Asked(w).list) <= Len(times)
  <2>1. list \in Seq(Nat) /\ times \in Seq(Nat) /\ Asked(w).list \in Seq(Nat)
    BY <1>6, <1>7, Before DEF Monitor, Timer
  <2>2. k \in Nat \ {0} /\ worker[w].index \in Nat
    BY Before
  <2>3. Len(Asked(w).list) <= Len(times)
    BY <1>1, <1>6, AskedKeepsEntries DEF Again
  <2> QED BY <2>1, <2>2, <2>3
<1>9. /\ rate \in Seq(Nat) /\ read \in Seq(Nat) /\ Len(rate) \in Nat /\ Len(read) \in Nat
      /\ \A i \in 1..Len(rate) : rate[i] \in Nat
      /\ \A i \in 1..Len(read) : read[i] \in Nat
  BY TotalsType
<1>10. /\ Len(read) <= Len(rate) /\ Len(list) <= Len(rate)
       /\ \A j \in 1..worker[w].index : j <= Len(list) => j <= Len(read)
  BY <1>4 DEF TotalsInv, Lengths
<1>11. \A i \in 1..Len(rate) :
         /\ Pending(i) = (IF i > worker[w].index THEN EntryOf(list, i) ELSE 0)
         /\ Pending(i) <= rate[i]
         /\ i <= Len(read) => read[i] <= (rate[i] - Pending(i)) * longest
  BY <1>3, <1>4 DEF TotalsInv, Weights, Pending
<1>12. CASE AddRound(w, me)
  <2> DEFINE product == list[k] * times[k]
             new == AddedAt(read, k, product)
  <2>1. /\ k <= Len(Asked(w).list) /\ k <= Len(list)
        /\ me.index = k /\ me.monitor = worker[w].monitor
        /\ total' = [total EXCEPT !.read = new]
        /\ UNCHANGED console
    BY <1>12 DEF AddRound
  <2>2. total'.rate = rate /\ total'.read = new
    BY <2>1 DEF TInv, TypeInv
  <2>3. k \in 1..Len(list) /\ k \in 1..Len(times) /\ list[k] \in Nat /\ times[k] \in Nat
    <3> HIDE DEF list, times, k
    <3>1. k \in 1..Len(list) /\ k \in 1..Len(times)
      BY <1>8, <2>1, LenProperties
    <3> QED BY <3>1, <1>8, ElementOfSeq
  <2>4. times[k] <= longest
    BY <2>3, <1>7 DEF Bounded
  <2>5. k <= Len(read) + 1
    <3> DEFINE j == worker[w].index
    <3> HIDE DEF list, read, j
    <3>1. j \in Nat /\ Len(list) \in Nat /\ Len(read) \in Nat /\ k = j + 1 /\ k <= Len(list)
      BY <1>8, <1>9, <2>1, LenProperties DEF j
    <3>2. j >= 1 => j <= Len(read)
      BY <3>1, <1>10 DEF j
    <3> QED BY <3>1, <3>2
  <2>6. list[k] <= rate[k] /\ k \in 1..Len(rate)
    <3> DEFINE j == worker[w].index
    <3> HIDE DEF list, rate, j, k
    <3>1. Len(list) \in Nat
      BY <1>8, LenProperties
    <3>2. k \in 1..Len(rate)
      <4>1. k <= Len(list)
        BY <2>1
      <4> QED BY <3>1, <4>1, <1>8, <1>9, <1>10
    <3>3. k > j
      BY <1>8 DEF k, j
    <3>4. Pending(k) = EntryOf(list, k) /\ Pending(k) <= rate[k]
      BY <1>11, <3>2, <3>3 DEF j
    <3> QED BY <3>2, <3>4, <2>1 DEF EntryOf
  <2> HIDE DEF list, times, k, rate, read
  <2>7. product \in Nat /\ product <= list[k] * longest
    <3>1. ASSUME NEW x \in Nat, NEW a \in Nat, NEW b \in Nat, a <= b
          PROVE  x * a \in Nat /\ x * a <= x * b
      BY <3>1, Products
    <3> QED BY <3>1, <2>3, <2>4, <1>1
  <2> HIDE DEF product
  <2>8. IsAddedAt(new, read, k, product)
    BY <1>8, <1>9, <2>5, <2>7, AddedAtFacts
  <2> HIDE DEF new
  <2>9. k > Len(read) => k = Len(read) + 1
    BY <1>8, <1>9, <2>5
  <2>10. \A i \in 1..Len(new) : new[i] = EntryOf(read, i) + IF i = k THEN product ELSE 0
    BY <2>8 DEF IsAddedAt
  <2>11. Len(new) <= Len(rate) /\ k <= Len(new) /\ Len(read) <= Len(new) /\ Len(new) \in Nat
    BY <1>8, <1>9, <1>10, <2>6, <2>8, <2>9 DEF IsAddedAt
  <2>12. Lengths'
    <3>1. worker'[w].monitor.list = list /\ worker'[w].index = k
      BY <1>5, <2>1 DEF list
    <3>2. \A j \in 1..k : j <= Len(list) => j <= Len(new)
      BY <1>8, <2>11
    <3> QED BY <1>4, <1>10, <2>1, <2>2, <2>11, <3>1, <3>2 DEF Lengths
  <2>13. Weights'
    <3> SUFFICES ASSUME NEW i \in 1..Len(rate)
                 PROVE  /\ Pending(i)' <= rate[i]
                        /\ i <= Len(new) => new[i] <= (rate[i] - Pending(i)') * longest
      BY <1>3, <2>2 DEF Weights
    <3>1. i \in Nat \ {0} /\ rate[i] \in Nat
      BY <1>9
    <3>2. Pending(i)' = IF i > k THEN EntryOf(list, i) ELSE 0
      BY <1>4, <1>5, <2>1 DEF Pending, list
    <3>3. /\ Pending(i) = (IF i >= k THEN EntryOf(list, i) ELSE 0)
          /\ Pending(i) <= rate[i]
          /\ i <= Len(read) => read[i] <= (rate[i] - Pending(i)) * longest
      <4>1. i > worker[w].index <=> i >= k
        BY <1>8, <3>1 DEF k
      <4> HIDE DEF Pending, EntryOf
      <4> QED BY <1>11, <4>1
    <3>4. CASE i # k
      <4>1. Pending(i)' = Pending(i)
        BY <3>1, <3>2, <3>3, <3>4, <1>8
      <4>2. i <= Len(new) => i <= Len(read) /\ new[i] = read[i]
        <5> SUFFICES ASSUME i <= Len(new) PROVE i <= Len(read) /\ new[i] = read[i]
          OBVIOUS
        <5>1. Len(new) = IF k <= Len(read) THEN Len(read) ELSE Len(read) + 1
          BY <2>8 DEF IsAddedAt
        <5>2. i <= Len(read)
          BY <5>1, <3>1, <3>4, <2>9, <1>9, <1>8
        <5>3. new[i] = EntryOf(read, i) + 0
          BY <2>10, <2>11, <3>1, <3>4
        <5>4. EntryOf(read, i) = read[i] /\ read[i] \in Nat
          BY <5>2, <3>1, <1>9 DEF EntryOf
        <5> QED BY <5>2, <5>3, <5>4
      <4> QED BY <3>3, <4>1, <4>2
    <3>5. CASE i = k
      <4>1. Pending(i)' = 0 /\ Pending(i) = list[k]
        BY <3>2, <3>3, <3>5, <1>8, <2>1 DEF EntryOf
      <4>2. new[k] = EntryOf(read, k) + product
        BY <2>10, <2>11, <1>8
      <4>3. EntryOf(read, k) <= (rate[k] - list[k]) * longest /\ EntryOf(read, k) \in Nat
        <5>1. CASE k <= Len(read)
          BY <5>1, <3>3, <3>5, <4>1, <1>8, <1>9 DEF EntryOf
        <5>2. CASE ~(k <= Len(read))
          <6>1. EntryOf(read, k) = 0
            BY <5>2 DEF EntryOf
          <6>2. ASSUME NEW a \in Nat, NEW b \in Nat PROVE 0 <= a * b
            OBVIOUS
          <6>3. rate[k] - list[k] \in Nat
            BY <2>3, <2>6, <1>9
          <6> QED BY <6>1, <6>2, <6>3, <1>1
        <5> QED BY <5>1, <5>2
      <4>4. (rate[k] - list[k]) * longest + list[k] * longest = rate[k] * longest
        <5>1. ASSUME NEW a \in Int, NEW b \in Int, NEW c \in Int
              PROVE  (a - b) * c + b * c = a * c
          OBVIOUS
        <5> QED BY <5>1, <2>3, <3>1, <3>5, <1>1
      <4>5. /\ (rate[k] - list[k]) * longest \in Int /\ list[k] * longest \in Int
            /\ rate[k] * longest \in Int
        <5>1. ASSUME NEW a \in Int, NEW b \in Int PROVE a * b \in Int
          OBVIOUS
        <5> QED BY <5>1, <2>3, <3>1, <3>5, <1>1
      <4>6. new[k] <= rate[k] * longest
        BY <4>2, <4>3, <4>4, <4>5, <2>7
      <4> QED BY <3>1, <3>5, <4>1, <4>6
    <3> QED BY <3>4, <3>5
  <2> QED BY <2>12, <2>13 DEF TotalsInv
<1>13. CASE SkipRound(w, me)
  <2>1. /\ k > Len(list) /\ me.index = k /\ me.monitor = worker[w].monitor
        /\ UNCHANGED <<total, console>>
    BY <1>13 DEF SkipRound
  <2>2. worker'[w].monitor.list = list /\ worker'[w].index = k
    BY <1>5, <2>1
  <2> HIDE DEF list, rate, read
  <2>3. Len(list) \in Nat
    BY <1>8, LenProperties
  <2>4. \A i \in Nat \ {0} : Pending(i)' = Pending(i)
    <3> SUFFICES ASSUME NEW i \in Nat \ {0} PROVE Pending(i)' = Pending(i)
      OBVIOUS
    <3>1. i = k => EntryOf(list, i) = 0
      BY <2>1, <1>8, <2>3 DEF EntryOf
    <3> QED BY <3>1, <2>1, <2>2, <1>4, <1>8 DEF Pending, list
  <2>5. Lengths'
    <3>1. \A j \in 1..k : j <= Len(list) => j <= Len(read)
      BY <1>8, <1>10, <2>1, <2>3
    <3> QED BY <3>1, <1>4, <1>10, <2>1, <2>2 DEF Lengths, read, rate
  <2> HIDE DEF TotalsInv
  <2> QED BY <1>1, <1>3, <2>1, <2>4, <2>5, TotalsKept
<1>14. CASE LastRound(w, me)
  <2>1. console' = 0 /\ UNCHANGED total
    BY <1>14 DEF LastRound
  <2>2. Lengths'
    BY <1>10, <2>1 DEF Lengths
  <2>3. Weights'
    <3> SUFFICES ASSUME NEW i \in 1..Len(rate)
                 PROVE  /\ 0 <= rate[i]
                        /\ i <= Len(read) => read[i] <= (rate[i] - 0) * longest
      BY <1>3, <2>1 DEF Weights, Pending
    <3>1. rate[i] \in Nat /\ Pending(i) \in Nat /\ Pending(i) <= rate[i]
      BY <1>9, <1>11, PendingNat
    <3>2. ASSUME i <= Len(read) PROVE read[i] <= rate[i] * longest
      <4>1. read[i] \in Nat /\ read[i] <= (rate[i] - Pending(i)) * longest
        BY <3>2, <1>9, <1>11
      <4>2. ASSUME NEW a \in Nat, NEW b \in Nat, NEW c \in Nat, b <= a
            PROVE  (a - b) * c <= a * c /\ (a - b) * c \in Int /\ a * c \in Int
        BY <4>2, Products
      <4>3. /\ (rate[i] - Pending(i)) * longest <= rate[i] * longest
            /\ (rate[i] - Pending(i)) * longest \in Int /\ rate[i] * longest \in Int
        BY <4>2, <3>1, <1>1
      <4> QED BY <4>1, <4>3
    <3> QED BY <3>1, <3>2
  <2> QED BY <2>2, <2>3 DEF TotalsInv
<1> QED BY <1>2, <1>12, <1>13, <1>14

----------------------------------------------------------------------------
(* All steps keep the types, the mutex and the totals *)

Sound == TInv /\ TotalsInv

LEMMA StepSound ==
  ASSUME Sound, NEW w \in Pids, Step(w)
  PROVE  Sound'
<1>1. TInv /\ TotalsInv
  BY DEF Sound
<1>2. CASE Report(w)
  BY <1>1, <1>2, ReportTypes, ReportTotals DEF Sound
<1>3. CASE AddTimes(w)
  BY <1>1, <1>3, AddTimesTypes, AddTimesTotals DEF Sound
<1>4. ASSUME NEW me \in WorkerType, Moves(w, me), TInv', UNCHANGED <<options, main, total, console>>,
             worker[w].pc # "reporting", main.pc = "creating", longest <= longest'
      PROVE  Sound'
  <2>1. console # w /\ longest' \in Nat
    BY <1>1, <1>4, Before DEF TInv, TypeInv
  <2> HIDE DEF TotalsInv
  <2> QED BY <1>1, <1>4, <2>1, OthersKeepTotals DEF Sound
<1>5. longest <= longest
  BY <1>1 DEF TInv, TypeInv
<1>6. CASE BeginControl(w)
  <2>1. PICK me \in WorkerType : Moves(w, me)
    BY <1>1, <1>6, BeginControlMoves DEF TInv
  <2>2. /\ UNCHANGED <<options, main, total, console, longest>>
        /\ worker[w].pc # "reporting" /\ main.pc = "creating"
    BY <1>6 DEF BeginControl, Running, At
  <2> QED BY <1>1, <1>4, <1>5, <1>6, <2>1, <2>2, BeginControlTypes
<1>11. CASE BeginMonitor(w)
  <2>1. PICK me \in WorkerType : Moves(w, me)
    BY <1>1, <1>11, BeginMonitorMoves DEF TInv
  <2>2. /\ UNCHANGED <<options, main, total, console, longest>>
        /\ worker[w].pc # "reporting" /\ main.pc = "creating"
    BY <1>11 DEF BeginMonitor, Running, At
  <2> QED BY <1>1, <1>4, <1>5, <1>11, <2>1, <2>2, BeginMonitorTypes
<1>7. CASE NextHit(w)
  <2>1. PICK me \in WorkerType : Moves(w, me)
    BY <1>1, <1>7, NextHitMoves DEF TInv
  <2>2. /\ UNCHANGED <<options, main, total, console, longest>>
        /\ worker[w].pc # "reporting" /\ main.pc = "creating"
    BY <1>7 DEF NextHit, Running, At
  <2> QED BY <1>1, <1>4, <1>5, <1>7, <2>1, <2>2, NextHitTypes
<1>8. CASE NoMoreHits(w)
  <2>1. PICK me \in WorkerType : Moves(w, me)
    BY <1>1, <1>8, NoMoreHitsMoves DEF TInv
  <2>2. /\ UNCHANGED <<options, main, total, console, longest>>
        /\ worker[w].pc # "reporting" /\ main.pc = "creating"
    BY <1>8 DEF NoMoreHits, Running, At
  <2> QED BY <1>1, <1>4, <1>5, <1>8, <2>1, <2>2, NoMoreHitsTypes
<1>9. CASE Pace(w)
  <2>1. PICK me \in WorkerType : Moves(w, me)
    BY <1>1, <1>9, PaceMoves DEF TInv
  <2>2. /\ UNCHANGED <<options, main, total, console, longest>>
        /\ worker[w].pc # "reporting" /\ main.pc = "creating"
    BY <1>9 DEF Pace, Running, At
  <2> QED BY <1>1, <1>4, <1>5, <1>9, <2>1, <2>2, PaceTypes
<1>10. CASE StopRead(w)
  <2>0. TimerStop(worker[w].timer, now) \in Timer /\ longest <= longest'
    BY <1>1, <1>10, StopReadBounds
  <2>1. PICK me \in WorkerType : Moves(w, me)
    BY <1>1, <1>10, <2>0, StopReadMoves DEF TInv
  <2>2. /\ UNCHANGED <<options, main, total, console>>
        /\ worker[w].pc # "reporting" /\ main.pc = "creating"
    BY <1>10 DEF StopRead, Running, At
  <2> QED BY <1>1, <1>4, <1>10, <2>0, <2>1, <2>2, StopReadTypes
<1> QED BY <1>2, <1>3, <1>6, <1>7, <1>8, <1>9, <1>10, <1>11 DEF Step

\* Before the options are known there is no worker, so nobody has the mutex.
LEMMA NobodyYet ==
  ASSUME TInv, main.pc = "configuring"
  PROVE  console = 0 /\ Pids = {} /\ main.created = 0
BY DEF TInv, TypeInv, NoOptions, Pids

LEMMA ConfigureSound ==
  ASSUME Sound, Configure
  PROVE  Sound'
<1>1. TInv /\ TotalsInv /\ main.pc = "configuring"
  BY DEF Sound, Configure
<1>2. console = 0 /\ Pids = {} /\ main.created = 0
  BY <1>1, NobodyYet
<1>3. UNCHANGED <<now, console, total, longest>>
  BY DEF Configure
<1>4. /\ main' \in [pc : {"creating", "exited"}, created : Nat]
      /\ main'.created = main.created
  BY <1>1 DEF Configure, TInv, TypeInv
<1>5. TotalsInv'
  <2>1. \A i \in Nat \ {0} : Pending(i)' = Pending(i)
    BY <1>2, <1>3 DEF Pending
  <2>2. Lengths'
    BY <1>1, <1>2, <1>3 DEF TotalsInv, Lengths
  <2>3. longest' \in Nat /\ longest <= longest' /\ main.pc # "returned"
    BY <1>1, <1>3 DEF TInv, TypeInv
  <2> HIDE DEF TotalsInv
  <2> QED BY <1>1, <1>3, <2>1, <2>2, <2>3, TotalsKept
<1>6. CASE UNCHANGED <<options, left, worker>>
  <2>1. TypeInv'
    BY <1>1, <1>3, <1>4, <1>6 DEF TInv, TypeInv, OptionsOK, Pids
  <2>2. PcInv' /\ TimerInv'
    <3>1. Pids' = {}
      BY <1>2, <1>6 DEF Pids
    <3> QED BY <3>1 DEF PcInv, TimerInv
  <2> QED BY <1>5, <2>1, <2>2 DEF Sound, TInv
<1>7. CASE \E s \in Scenarios :
             /\ options' = [o \in DOMAIN NoOptions |-> s[o]]
             /\ left' = s.hits
             /\ worker' = [w \in 1..s.threads |-> Unborn]
  <2>1. PICK s \in Scenarios : /\ options' = [o \in DOMAIN NoOptions |-> s[o]]
                               /\ left' = s.hits
                               /\ worker' = [w \in 1..s.threads |-> Unborn]
    BY <1>7
  <2>2. /\ s.threads \in Nat /\ s.requests \in Nat /\ s.hits \in Seq(Nat)
        /\ s.memory \subseteq Nat
        /\ s.mode \in Modes /\ RateFits(s.mode, s.rate)
    <3>1. s.memory \subseteq Nat
      BY ClockIsSet DEF ClockIsSet
    <3>2. /\ s.threads \in Nat /\ s.requests \in Nat /\ s.hits \in Seq(Nat)
          /\ \/ s.mode = "EVENT_BASED" /\ s.rate \in Nat
             \/ s.mode = "HIT_BASED" /\ s.rate \in (Nat \ {0}) \X (Nat \ {0})
      BY ScenariosAssumption DEF ScenariosAssumption
    <3> QED BY <3>1, <3>2, Units DEF Modes, RateFits, ReplayRates
  <2>3. /\ options'.threads = s.threads /\ options'.requests = s.requests
        /\ options'.memory = s.memory /\ options'.mode = s.mode /\ options'.rate = s.rate
    BY <2>1 DEF NoOptions
  <2>4. OptionsOK'
    BY <2>2, <2>3 DEF OptionsOK
  <2>5. Pids' = 1..s.threads
    BY <2>3 DEF Pids
  <2>6. worker' \in [Pids' -> WorkerType] /\ \A w \in Pids' : worker'[w] = Unborn
    BY <2>1, <2>5, UnbornType
  <2>7. TypeInv'
    <3>1. main'.created <= s.threads
      BY <1>2, <1>4, <2>2
    <3>2. main' \in [pc : {"configuring", "creating", "exited", "returned"}, created : Nat]
          /\ main'.pc # "configuring"
      BY <1>4
    <3>3. /\ longest' \in Nat /\ now' \in Nat /\ now' >= StartTime
          /\ total' \in [rate : Seq(Nat), read : Seq(Nat)]
      BY <1>1, <1>3 DEF TInv, TypeInv
    <3>4. left' \in Seq(Nat) /\ console' \in Pids' \cup {0}
      BY <1>2, <1>3, <2>1, <2>2
    <3> QED BY <2>3, <2>4, <2>6, <3>1, <3>2, <3>3, <3>4 DEF TypeInv
  <2>8. PcInv' /\ TimerInv'
    <3> SUFFICES ASSUME NEW w \in Pids'
                 PROVE  /\ worker'[w].i <= options'.requests
                        /\ worker'[w].pc = "none" <=> w > main'.created
                        /\ worker'[w].pc = "reporting" <=> console' = w
                        /\ worker'[w].pc # "reporting" => worker'[w].index = 0
                        /\ RateFits(worker'[w].control.mode, worker'[w].control.rate)
                        /\ Bounded(worker'[w].timer, longest')
      BY DEF PcInv, TimerInv
    <3>1. worker'[w] = Unborn /\ Unborn.pc = "none" /\ Unborn.i = 0 /\ Unborn.index = 0
          /\ Unborn.timer = NewTimer(0)
      BY <2>6 DEF Unborn
    <3>2. w # 0 /\ w > 0
      BY <2>2, <2>5
    <3>3. Bounded(NewTimer(0), longest')
      BY <1>1, <1>3, NewTimerBounded DEF TInv, TypeInv
    <3>4. options'.requests \in Nat
      BY <2>2, <2>3
    <3> QED BY <3>1, <3>2, <3>3, <3>4, <1>2, <1>3, <1>4, UnbornType
  <2> QED BY <1>5, <2>7, <2>8 DEF Sound, TInv
<1> QED BY <1>6, <1>7 DEF Configure

LEMMA CreateSound ==
  ASSUME Sound, Create
  PROVE  Sound'
<1>1. /\ TInv /\ TotalsInv /\ main.pc = "creating" /\ main.created < options.threads
      /\ console = 0 /\ UNCHANGED <<options, left, now, console, total, longest>>
  BY DEF Sound, Create
<1>2. longest \in Nat /\ longest <= longest /\ console = 0 /\ main \in [pc : {"configuring", "creating", "exited", "returned"}, created : Nat]
      /\ main.created \in Nat /\ options.threads \in Nat
  BY <1>1 DEF TInv, TypeInv, OptionsOK
<1>3. TotalsInv'
  <2>1. \A i \in Nat \ {0} : Pending(i)' = Pending(i)
    BY <1>1 DEF Pending
  <2>2. Lengths'
    BY <1>1 DEF TotalsInv, Lengths
  <2> HIDE DEF TotalsInv
  <2> QED BY <1>1, <1>2, <2>1, <2>2, TotalsKept
<1>4. CASE main' = [main EXCEPT !.pc = "exited"] /\ UNCHANGED worker
  <2>1. main' \in [pc : {"creating", "exited"}, created : Nat] /\ main'.created = main.created
    BY <1>2, <1>4
  <2>2. TypeInv'
    BY <1>1, <1>4, <2>1 DEF TInv, TypeInv, OptionsOK, Pids
  <2>3. PcInv' /\ TimerInv'
    BY <1>1, <1>4, <2>1 DEF TInv, PcInv, TimerInv, Pids
  <2> QED BY <1>3, <2>2, <2>3 DEF Sound, TInv
<1>5. CASE /\ main' = [main EXCEPT !.created = @ + 1]
           /\ worker' = [worker EXCEPT ![main.created + 1].pc = "start"]
  <2> DEFINE w == main.created + 1
             me == [worker[w] EXCEPT !.pc = "start"]
  <2>1. w \in Pids /\ w \in Nat
    BY <1>1, <1>2 DEF Pids
  <2>2. main' \in [pc : {"creating", "exited"}, created : Nat] /\ main'.created = w /\ main'.pc = "creating"
    BY <1>1, <1>2, <1>5
  <2>3. worker' = [worker EXCEPT ![w] = me]
    BY <1>5
  <2> HIDE DEF w
  <2>4. worker[w] \in WorkerType
    BY <1>1, <2>1, Before
  <2>5. /\ me \in WorkerType /\ me.pc = "start" /\ me.i = worker[w].i /\ me.index = worker[w].index
        /\ me.control = worker[w].control /\ me.timer = worker[w].timer
    BY <2>4 DEF WorkerType, Pcs
  <2> HIDE DEF me
  <2>6. /\ worker' \in [Pids' -> WorkerType] /\ worker'[w] = me
        /\ \A v \in Pids : v # w => worker'[v] = worker[v]
        /\ Pids' = Pids
    BY <1>1, <2>1, <2>3, <2>5, MovedWorker DEF Moves, TInv
  <2>7. TypeInv'
    <3>1. w <= options.threads
      BY <1>1, <1>2 DEF w
    <3> QED BY <3>1, <1>1, <2>2, <2>6 DEF TInv, TypeInv, OptionsOK
  <2>8. PcInv'
    <3> SUFFICES ASSUME NEW v \in Pids
                 PROVE  /\ worker'[v].i <= options.requests
                        /\ worker'[v].pc = "none" <=> v > w
                        /\ worker'[v].pc = "reporting" <=> console = v
                        /\ worker'[v].pc # "reporting" => worker'[v].index = 0
                        /\ RateFits(worker'[v].control.mode, worker'[v].control.rate)
      BY <1>1, <2>2, <2>6 DEF PcInv
    <3>1. v \in Nat /\ v # 0
      BY <1>2 DEF Pids
    <3>2. CASE v = w
      <4>1. worker[w].pc = "none"
        BY <1>1, <1>2, <2>1, Before DEF w
      <4>2. worker[w].index = 0 /\ worker[w].i <= options.requests
            /\ RateFits(worker[w].control.mode, worker[w].control.rate)
        BY <4>1, <1>1, <2>1, Before
      <4> QED BY <3>1, <3>2, <4>2, <2>1, <2>5, <2>6, <1>1
    <3>3. CASE v # w
      <4>1. /\ worker[v].i <= options.requests
            /\ worker[v].pc = "none" <=> v > main.created
            /\ worker[v].pc = "reporting" <=> console = v
            /\ worker[v].pc # "reporting" => worker[v].index = 0
            /\ RateFits(worker[v].control.mode, worker[v].control.rate)
        BY <1>1, Before
      <4>2. v > main.created <=> v > w
        BY <3>1, <3>3, <1>2 DEF w
      <4> QED BY <4>1, <4>2, <3>3, <2>6
    <3> QED BY <3>2, <3>3
  <2>9. TimerInv'
    <3> SUFFICES ASSUME NEW v \in Pids PROVE Bounded(worker'[v].timer, longest)
      BY <1>1, <2>6 DEF TimerInv
    <3>1. Bounded(worker[v].timer, longest) /\ worker'[v].timer = worker[v].timer
      BY <1>1, <2>1, <2>5, <2>6, Before
    <3> QED BY <3>1
  <2> QED BY <1>3, <2>7, <2>8, <2>9 DEF Sound, TInv
<1> QED BY <1>4, <1>5 DEF Create

\* What main makes of the totals when all workers are done.
LEMMA AveragesFacts ==
  ASSUME Sound, Join
  PROVE  /\ total' \in [rate : Seq(Nat), read : Seq(Nat)]
         /\ Len(total'.read) = Len(total.read) /\ total'.rate = total.rate
         /\ \A i \in 1..Len(total'.read) : total'.read[i] <= longest
<1>1. /\ TInv /\ TotalsInv /\ main.pc = "creating"
      /\ \A w \in Pids : worker[w].pc = "done"
      /\ total' = Averages(total)
  BY DEF Sound, Join, At
<1> DEFINE rate == total.rate
           read == total.read
           avg == [i \in DOMAIN read |-> IF rate[i] > 0 THEN read[i] \div rate[i] ELSE 0]
<1>2. /\ rate \in Seq(Nat) /\ read \in Seq(Nat) /\ Len(rate) \in Nat /\ Len(read) \in Nat
      /\ longest \in Nat
      /\ \A i \in 1..Len(rate) : rate[i] \in Nat
      /\ \A i \in 1..Len(read) : read[i] \in Nat
  BY <1>1, TotalsType
<1>3. console = 0
  <2>1. console \in Pids => worker[console].pc = "reporting"
    BY <1>1, Before
  <2> QED BY <2>1, <1>1 DEF TInv, TypeInv
<1>4. Len(read) <= Len(rate)
  BY <1>1 DEF TotalsInv, Lengths
<1>5. \A i \in 1..Len(read) : i \in 1..Len(rate) /\ read[i] <= rate[i] * longest
  <2> SUFFICES ASSUME NEW i \in 1..Len(read)
               PROVE  i \in 1..Len(rate) /\ read[i] <= rate[i] * longest
    OBVIOUS
  <2>1. i \in 1..Len(rate) /\ i <= Len(read)
    BY <1>2, <1>4
  <2>2. Pending(i) = 0
    BY <1>3 DEF Pending
  <2>3. read[i] <= (rate[i] - 0) * longest
    BY <2>1, <2>2, <1>1 DEF TotalsInv, Weights
  <2>4. rate[i] - 0 = rate[i]
    BY <2>1, <1>2
  <2> QED BY <2>1, <2>3, <2>4
<1>6. total' = [total EXCEPT !.read = avg]
  BY <1>1 DEF Averages
<1>7. total \in [rate : Seq(Nat), read : Seq(Nat)]
  BY <1>1 DEF TInv, TypeInv
<1>8. DOMAIN read = 1..Len(read)
  BY <1>2, LenProperties
<1> HIDE DEF rate, read
<1>9. ASSUME NEW i \in 1..Len(read)
      PROVE  avg[i] \in Nat /\ avg[i] <= longest
  <2>1. rate[i] \in Nat /\ read[i] \in Nat /\ read[i] <= rate[i] * longest
    BY <1>2, <1>5
  <2>2. avg[i] = IF rate[i] > 0 THEN read[i] \div rate[i] ELSE 0
    BY <1>8
  <2>3. CASE rate[i] > 0
    <3>1. rate[i] \in Nat \ {0}
      BY <2>1, <2>3
    <3>2. read[i] \div rate[i] <= longest
      BY <3>1, <2>1, <1>2, QuotientBelow
    <3>3. read[i] \div rate[i] \in Nat
      BY <3>1, <2>1, DivFacts
    <3> QED BY <2>2, <2>3, <3>2, <3>3
  <2>4. CASE ~(rate[i] > 0)
    BY <2>2, <2>4, <1>2
  <2> QED BY <2>3, <2>4
<1>10. avg \in Seq(Nat) /\ Len(avg) = Len(read)
  <2>1. avg \in [1..Len(read) -> Nat]
    BY <1>8, <1>9
  <2> HIDE DEF avg
  <2>2. avg \in Seq(Nat)
    BY <2>1, <1>2
  <2>3. Len(avg) = Len(read)
    BY <2>1, <2>2, <1>2, LenProperties
  <2> QED BY <2>2, <2>3
<1> HIDE DEF avg
<1>11. total'.read = avg /\ total'.rate = rate /\ total' \in [rate : Seq(Nat), read : Seq(Nat)]
  BY <1>6, <1>7, <1>10 DEF rate
<1> QED BY <1>9, <1>10, <1>11 DEF rate, read

LEMMA JoinSound ==
  ASSUME Sound, Join
  PROVE  Sound'
<1>1. /\ TInv /\ TotalsInv /\ main.pc = "creating"
      /\ main' = [main EXCEPT !.pc = "returned"]
      /\ UNCHANGED <<options, left, now, worker, console, longest>>
  BY DEF Sound, Join
<1>2. main' \in [pc : {"returned"}, created : Nat] /\ main'.created = main.created
  BY <1>1 DEF TInv, TypeInv
<1>3. /\ total' \in [rate : Seq(Nat), read : Seq(Nat)]
      /\ Len(total'.read) = Len(total.read) /\ total'.rate = total.rate
  BY AveragesFacts
<1>4. TypeInv'
  BY <1>1, <1>2, <1>3 DEF TInv, TypeInv, OptionsOK, Pids
<1>5. PcInv' /\ TimerInv'
  BY <1>1, <1>2 DEF TInv, PcInv, TimerInv, Pids
<1>6. Lengths' /\ Weights'
  BY <1>1, <1>2, <1>3 DEF TotalsInv, Lengths, Weights
<1> QED BY <1>4, <1>5, <1>6 DEF Sound, TInv, TotalsInv

LEMMA TickSound ==
  ASSUME Sound, Tick
  PROVE  Sound'
<1>1. TInv /\ TotalsInv /\ now' = now + 1 /\ UNCHANGED <<options, left, main, worker, console, total, longest>>
  BY DEF Sound, Tick
<1>2. now' \in Nat /\ now' >= StartTime
  BY <1>1, Units DEF TInv, TypeInv
<1>3. TypeInv' /\ PcInv' /\ TimerInv'
  BY <1>1, <1>2 DEF TInv, TypeInv, OptionsOK, PcInv, TimerInv, Pids
<1>4. Lengths' /\ Weights'
  BY <1>1 DEF TotalsInv, Lengths, Weights, Pending
<1> QED BY <1>3, <1>4 DEF Sound, TInv, TotalsInv

LEMMA SameSound ==
  ASSUME Sound, UNCHANGED vars
  PROVE  Sound'
<1>1. UNCHANGED <<options, left, now, main, worker, console, total, longest>>
  BY DEF vars
<1>2. TInv' 
  BY <1>1 DEF Sound, TInv, TypeInv, OptionsOK, PcInv, TimerInv, Pids
<1>3. TotalsInv'
  BY <1>1 DEF Sound, TotalsInv, Lengths, Weights, Pending
<1> QED BY <1>2, <1>3 DEF Sound

LEMMA NextSound ==
  ASSUME Sound, [Next]_vars
  PROVE  Sound'
<1>1. ASSUME NEW w \in Pids, Step(w) PROVE Sound'
  BY <1>1, StepSound
<1> QED BY <1>1, ConfigureSound, CreateSound, JoinSound, TickSound, SameSound DEF Next, Ended, GoOn

LEMMA InitSound ==
  ASSUME Init
  PROVE  Sound
<1>1. OptionsOK
  BY DEF Init, NoOptions, OptionsOK, Modes, RateFits
<1>2. Pids = {}
  BY DEF Init, NoOptions, Pids
<1>3. <<>> \in Seq(Nat) /\ Len(<<>>) = 0
  OBVIOUS
<1>4. TypeInv
  <2>1. worker \in [Pids -> WorkerType]
    BY <1>2 DEF Init
  <2>2. main.created <= options.threads
    BY DEF Init, NoOptions
  <2>3. now \in Nat /\ now >= StartTime
    BY Units DEF Init
  <2> QED BY <1>1, <1>3, <2>1, <2>2, <2>3 DEF Init, TypeInv
<1>5. PcInv /\ TimerInv
  BY <1>2 DEF PcInv, TimerInv
<1>6. Lengths /\ Weights
  BY <1>3 DEF Init, Lengths, Weights
<1> QED BY <1>4, <1>5, <1>6 DEF Sound, TInv, TotalsInv

LEMMA AlwaysSound == Spec => []Sound
BY InitSound, NextSound, PTL DEF Spec

----------------------------------------------------------------------------

(* Every variable keeps its type; a worker is not there before main has    *)
(* created it, and exactly the one that reports holds consoleMutex, so two *)
(* workers never add to the totals at a time.                              *)
THEOREM TypeCorrect == Spec => []TypeOK
<1>1. Sound => TypeOK
  <2> SUFFICES ASSUME Sound PROVE TypeOK
    OBVIOUS
  <2>1. TInv /\ TypeInv /\ PcInv
    BY DEF Sound, TInv
  <2>2. /\ main.pc \in {"configuring", "creating", "exited", "returned"}
        /\ main.created \in 0..options.threads
        /\ now >= StartTime /\ console \in Pids \cup {0}
    BY <2>1 DEF TypeInv, OptionsOK
  <2>3. \A w \in Pids :
          /\ worker[w].pc \in Pcs /\ worker[w].i \in 0..options.requests
          /\ worker[w].pc = "none" <=> w > main.created
          /\ worker[w].pc = "reporting" <=> console = w
    <3> SUFFICES ASSUME NEW w \in Pids
                 PROVE  /\ worker[w].pc \in Pcs /\ worker[w].i \in 0..options.requests
                        /\ worker[w].pc = "none" <=> w > main.created
                        /\ worker[w].pc = "reporting" <=> console = w
      OBVIOUS
    <3>1. worker[w] \in WorkerType
      BY <2>1, Before
    <3>2. worker[w].pc \in Pcs
      BY <3>1 DEF WorkerType
    <3> QED BY <2>1, <3>2, Before
  <2> QED BY <2>2, <2>3 DEF TypeOK, Pcs, At
<1> QED BY <1>1, AlwaysSound, PTL

----------------------------------------------------------------------------
(* Averages *)

AveragesInv == main.pc = "returned" => \A i \in 1..Len(total.read) : total.read[i] <= longest

\* Once main has returned nothing changes.
LEMMA Returned ==
  ASSUME [Next]_vars, main.pc = "returned"
  PROVE  UNCHANGED vars
<1>1. ~Configure /\ ~Create /\ ~Join /\ ~Tick
  BY DEF Configure, Create, Join, Tick
<1>2. ASSUME NEW w \in Pids PROVE ~Step(w)
  BY DEF Step, BeginControl, BeginMonitor, NextHit, NoMoreHits, Pace, StopRead, Report, AddTimes, Running
<1> QED BY <1>1, <1>2 DEF Next, Ended, GoOn

\* Only a join makes main return.
LEMMA Returns ==
  ASSUME [Next]_vars, Sound, main.pc # "returned", main'.pc = "returned"
  PROVE  Join
<1>0. main \in [pc : {"configuring", "creating", "exited", "returned"}, created : Nat]
  BY DEF Sound, TInv, TypeInv
<1>1. ~Configure /\ ~Create
  BY <1>0 DEF Configure, Create
<1>2. ~Tick /\ ~UNCHANGED vars /\ ~Ended /\ ~GoOn
  BY DEF Tick, vars, Ended, GoOn
<1>3. ASSUME NEW w \in Pids PROVE ~Step(w)
  BY DEF Step, BeginControl, BeginMonitor, NextHit, NoMoreHits, Pace, StopRead, Report, AddTimes
<1> QED BY <1>1, <1>2, <1>3 DEF Next

(* No average that is printed, of a worker's second or of all workers',    *)
(* exceeds the longest time a read has taken, although a worker lists the  *)
(* average of a second again whenever it asks how many there are.          *)
THEOREM AveragesBounded == Spec => []NoAverageAboveLongest
<1>1. Init => AveragesInv
  BY DEF Init, AveragesInv
<1>2. Sound /\ AveragesInv /\ [Next]_vars => AveragesInv'
  <2> SUFFICES ASSUME Sound, AveragesInv, [Next]_vars, main'.pc = "returned"
               PROVE  \A i \in 1..Len(total'.read) : total'.read[i] <= longest'
    BY DEF AveragesInv
  <2>1. CASE main.pc = "returned"
    <3>1. UNCHANGED <<total, longest>>
      BY <2>1, Returned DEF vars
    <3> QED BY <2>1, <3>1 DEF AveragesInv
  <2>2. CASE main.pc # "returned"
    <3>1. Join
      BY <2>2, Returns
    <3>2. \A i \in 1..Len(total'.read) : total'.read[i] <= longest
      BY <3>1, AveragesFacts
    <3>3. longest' = longest
      BY <3>1 DEF Join
    <3> QED BY <3>2, <3>3
  <2> QED BY <2>1, <2>2
<1>3. Sound /\ AveragesInv => NoAverageAboveLongest
  <2> SUFFICES ASSUME Sound, AveragesInv PROVE NoAverageAboveLongest
    OBVIOUS
  <2>1. TInv
    BY DEF Sound
  <2>2. ASSUME NEW w \in Pids, NEW i \in DOMAIN worker[w].timer.list
        PROVE  worker[w].timer.list[i] <= longest
    <3> DEFINE list == worker[w].timer.list
    <3>1. worker[w].timer \in Timer /\ Bounded(worker[w].timer, longest)
      BY <2>1, Before
    <3>2. list \in Seq(Nat) /\ \A j \in 1..Len(list) : list[j] <= longest
      BY <3>1 DEF Timer, Bounded
    <3>3. DOMAIN list = 1..Len(list)
      BY <3>2, LenProperties
    <3> QED BY <3>2, <3>3
  <2>3. ASSUME main.pc = "returned", NEW i \in DOMAIN total.read
        PROVE  total.read[i] <= longest
    <3>1. total.read \in Seq(Nat)
      BY <2>1, TotalsType
    <3>2. DOMAIN total.read = 1..Len(total.read)
      BY <3>1, LenProperties
    <3> QED BY <2>3, <3>2 DEF AveragesInv
  <2> QED BY <2>2, <2>3 DEF NoAverageAboveLongest
<1> QED BY <1>1, <1>2, <1>3, AlwaysSound, PTL DEF Spec

----------------------------------------------------------------------------
(* Lists that list no more events than intervals *)

\* As many as there are intervals g in n seconds and what the monitor was late,
\* and the one at their beginning.
Quota(n, g, late) == (n * NANOSECOND + late) \div g + 1

Within(list, g, late) == \A n \in 1..Len(list) : Total(SubSeq(list, 1, n)) <= Quota(n, g, late)

LEMMA QuotaFacts ==
  ASSUME NEW g \in Nat \ {0}, NEW late \in Nat, NEW n \in Nat, NEW m \in Nat, n <= m
  PROVE  /\ Quota(n, g, late) \in Nat /\ Quota(n, g, late) <= Quota(m, g, late)
         /\ \A k \in Nat : g * k <= n * NANOSECOND + late => k + 1 <= Quota(n, g, late)
<1>1. /\ n * NANOSECOND \in Nat /\ m * NANOSECOND \in Nat
      /\ n * NANOSECOND <= m * NANOSECOND
  BY Units, Products
<1> DEFINE a == n * NANOSECOND + late
           b == m * NANOSECOND + late
<1> HIDE DEF a, b
<1>2. a \in Nat /\ b \in Nat /\ a <= b
  BY <1>1 DEF a, b
<1>3. a \div g \in Nat /\ b \div g \in Nat
  BY <1>2, DivFacts
<1>4. a \div g <= b \div g
  <2>1. g * (a \div g) <= a /\ b < g * (b \div g) + g
    BY <1>2, DivFacts
  <2>2. ASSUME NEW x \in Nat, NEW y \in Nat, g * x <= a, b < g * y + g PROVE x <= y
    <3>1. g * (y + 1) = g * y + g /\ g * x \in Int /\ g * y \in Int
      OBVIOUS
    <3>2. g * x < g * (y + 1)
      BY <3>1, <2>2, <1>2
    <3>3. x < y + 1
      BY <3>2, Cancel
    <3> QED BY <3>3
  <2> QED BY <2>1, <2>2, <1>3
<1>5. ASSUME NEW k \in Nat, g * k <= a PROVE k <= a \div g
  <2>1. a < g * (a \div g) + g
    BY <1>2, DivFacts
  <2>2. ASSUME NEW y \in Nat, a < g * y + g PROVE k <= y
    <3>1. g * (y + 1) = g * y + g /\ g * k \in Int /\ g * y \in Int
      OBVIOUS
    <3>2. g * k < g * (y + 1)
      BY <3>1, <2>2, <1>2, <1>5
    <3>3. k < y + 1
      BY <3>2, Cancel
    <3> QED BY <3>3
  <2> QED BY <2>1, <2>2, <1>3
<1>6. Quota(n, g, late) = a \div g + 1 /\ Quota(m, g, late) = b \div g + 1
  BY DEF Quota, a, b
<1> DEFINE x == a \div g
           y == b \div g
<1>7. x \in Nat /\ y \in Nat /\ x <= y /\ Quota(n, g, late) = x + 1 /\ Quota(m, g, late) = y + 1
  BY <1>3, <1>4, <1>6
<1>8. \A k \in Nat : g * k <= n * NANOSECOND + late => k <= x
  BY <1>5 DEF a
<1> HIDE DEF x, y
<1>9. /\ Quota(n, g, late) \in Nat /\ Quota(n, g, late) <= Quota(m, g, late)
      /\ \A k \in Nat : k <= x => k + 1 <= Quota(n, g, late)
  BY <1>7
<1> QED BY <1>8, <1>9

LEMMA FirstEntries ==
  ASSUME NEW s \in Seq(Nat), NEW n \in 0..Len(s)
  PROVE  /\ SubSeq(s, 1, n) \in Seq(Nat) /\ Len(SubSeq(s, 1, n)) = n
         /\ \A i \in 1..n : SubSeq(s, 1, n)[i] = s[i]
<1>1. Len(s) \in Nat /\ n \in Int /\ 1 \in Int
  BY LenProperties
<1>2. \A i \in 1..n : s[i] \in Nat
  <2> SUFFICES ASSUME NEW i \in 1..n PROVE s[i] \in Nat
    OBVIOUS
  <2>1. i \in 1..Len(s)
    BY <1>1
  <2> QED BY <2>1, ElementOfSeq
<1>3. /\ SubSeq(s, 1, n) \in Seq(Nat)
      /\ Len(SubSeq(s, 1, n)) = IF 1 <= n THEN n - 1 + 1 ELSE 0
      /\ \A i \in 1..(n - 1 + 1) : SubSeq(s, 1, n)[i] = s[1 + i - 1]
  BY <1>1, <1>2, SubSeqProperties
<1> DEFINE t == SubSeq(s, 1, n)
<1> HIDE DEF t
<1>4. n - 1 + 1 = n /\ (~(1 <= n) => n = 0) /\ \A i \in 1..n : 1 + i - 1 = i
  BY <1>1
<1>5. Len(t) = n /\ \A i \in 1..n : t[i] = s[i]
  BY <1>3, <1>4 DEF t
<1> QED BY <1>3, <1>5 DEF t

\* b begins with the entries of a.
Begins(a, b) == Len(a) <= Len(b) /\ \A i \in 1..Len(a) : b[i] = a[i]

LEMMA SamePrefix ==
  ASSUME NEW a \in Seq(Nat), NEW b \in Seq(Nat), Begins(a, b), NEW n \in 1..Len(a)
  PROVE  /\ SubSeq(a, 1, n) \in Seq(Nat)
         /\ SubSeq(b, 1, n) = SubSeq(a, 1, n)
         /\ n \in 1..Len(b)
<1>1. n \in 1..Len(b) /\ Len(a) \in Nat /\ Len(b) \in Nat /\ n \in Nat
  BY LenProperties DEF Begins
<1> DEFINE u == SubSeq(a, 1, n)
           v == SubSeq(b, 1, n)
<1>2. /\ u \in Seq(Nat) /\ Len(u) = n /\ \A i \in 1..n : u[i] = a[i]
      /\ v \in Seq(Nat) /\ Len(v) = n /\ \A i \in 1..n : v[i] = b[i]
  <2>1. n \in 0..Len(a) /\ n \in 0..Len(b)
    BY <1>1
  <2> QED BY <2>1, FirstEntries
<1> HIDE DEF u, v
<1>3. \A i \in 1..Len(u) : u[i] = v[i]
  <2>1. \A i \in 1..n : i \in 1..Len(a)
    BY <1>1
  <2>2. \A i \in 1..n : u[i] = v[i]
    BY <2>1, <1>2 DEF Begins
  <2> QED BY <2>2, <1>2
<1>4. u = v
  BY <1>2, <1>3, SeqEqual
<1> QED BY <1>1, <1>2, <1>4 DEF u, v

LEMMA WithinPrefix ==
  ASSUME NEW a \in Seq(Nat), NEW b \in Seq(Nat), Begins(a, b), NEW g, NEW late, Within(b, g, late)
  PROVE  Within(a, g, late)
<1> SUFFICES ASSUME NEW n \in 1..Len(a) PROVE Total(SubSeq(a, 1, n)) <= Quota(n, g, late)
  BY DEF Within
<1>1. n \in 1..Len(b) /\ SubSeq(b, 1, n) = SubSeq(a, 1, n)
  BY SamePrefix
<1>2. Total(SubSeq(b, 1, n)) <= Quota(n, g, late)
  BY <1>1 DEF Within
<1> QED BY <1>1, <1>2

LEMMA PushedBegins ==
  ASSUME NEW list \in Seq(Nat), NEW n \in Nat, NEW value \in Nat
  PROVE  Begins(list, Pushed(list, n, value)) /\ Pushed(list, n, value) \in Seq(Nat)
<1>1. IsPushed(Pushed(list, n, value), list, n, value)
  BY PushedFacts
<1>2. Len(list) \in Nat
  BY LenProperties
<1> DEFINE new == Pushed(list, n, value)
<1> HIDE DEF new
<1> QED BY <1>1, <1>2 DEF IsPushed, Begins, new

\* A second's events, and zeros after it, if all events so far are allowed in
\* the time to the end of that second.
LEMMA WithinPushed ==
  ASSUME NEW list \in Seq(Nat), NEW k \in Nat, NEW value \in Nat, NEW g \in Nat \ {0},
         NEW late \in Nat, Within(list, g, late),
         Total(list) + value <= Quota(Len(list) + 1, g, late)
  PROVE  Within(Pushed(list, k, value), g, late)
<1> DEFINE new == Pushed(list, k, value)
           L == Len(list)
<1>1. IsPushed(new, list, k, value) /\ Begins(list, new)
  BY PushedFacts, PushedBegins
<1>2. L \in Nat /\ Total(list) \in Nat
  BY LenProperties, TotalAppend
<1>3. new \in Seq(Nat) /\ Len(new) = L + k
  BY <1>1 DEF IsPushed
<1> SUFFICES ASSUME NEW n \in 1..(L + k) PROVE Total(SubSeq(new, 1, n)) <= Quota(n, g, late)
  BY <1>3 DEF Within
<1>4. CASE n <= L
  <2>1. n \in 1..L
    BY <1>2, <1>4
  <2>2. Total(SubSeq(list, 1, n)) <= Quota(n, g, late)
    BY <2>1 DEF Within
  <2> HIDE DEF new
  <2>3. SubSeq(new, 1, n) = SubSeq(list, 1, n)
    BY <2>1, <1>1, <1>3, SamePrefix
  <2> QED BY <2>2, <2>3
<1>5. CASE n > L
  <2> DEFINE j == n - L
             u == SubSeq(new, 1, n)
             v == Pushed(list, j, value)
  <2>1. j \in Nat /\ j >= 1 /\ j <= k /\ n = L + j /\ n \in Nat /\ n <= L + k
    BY <1>2, <1>5
  <2>2. IsPushed(v, list, j, value)
    BY <2>1, PushedFacts
  <2>3. u \in Seq(Nat) /\ Len(u) = n /\ \A i \in 1..n : u[i] = new[i]
    <3> HIDE DEF new, L
    <3>1. n \in 0..Len(new)
      BY <1>3, <1>2, <2>1
    <3> QED BY <3>1, <1>3, FirstEntries
  <2>4. v \in Seq(Nat) /\ Len(v) = n
    BY <2>1, <2>2 DEF IsPushed
  <2>5. \A i \in 1..n : u[i] = v[i]
    <3> SUFFICES ASSUME NEW i \in 1..n PROVE new[i] = v[i]
      BY <2>3
    <3> HIDE DEF new, v, j
    <3>1. CASE i <= L
      <4>1. i \in 1..L
        BY <3>1
      <4> HIDE DEF L
      <4>2. new[i] = list[i] /\ v[i] = list[i]
        BY <4>1, <1>1, <2>2 DEF IsPushed, L
      <4> QED BY <4>2
    <3>2. CASE ~(i <= L)
      <4>1. i \in (L + 1)..(L + k) /\ i \in (L + 1)..(L + j)
        BY <3>2, <1>2, <2>1
      <4>2. new[i] = (IF i = L + 1 THEN value ELSE 0) /\ v[i] = (IF i = L + 1 THEN value ELSE 0)
        BY <4>1, <1>1, <2>2 DEF IsPushed
      <4> QED BY <4>2
    <3> QED BY <3>1, <3>2
  <2>6. u = v
    <3> HIDE DEF u, v, j
    <3> QED BY <2>3, <2>4, <2>5, SeqEqual
  <2>7. Total(v) = Total(list) + value
    <3> HIDE DEF j
    <3>1. Total(Pushed(list, j, value)) = Total(list) + IF j = 0 THEN 0 ELSE value
      BY <2>1, TotalPushed
    <3> QED BY <3>1, <2>1
  <2>8. /\ Quota(L + 1, g, late) <= Quota(n, g, late)
        /\ Quota(L + 1, g, late) \in Nat /\ Quota(n, g, late) \in Nat
    <3> DEFINE m == L + 1
    <3> HIDE DEF L
    <3>1. m \in Nat /\ n \in Nat /\ m <= n /\ n <= n
      BY <1>2, <2>1
    <3> HIDE DEF m
    <3>2. Quota(m, g, late) <= Quota(n, g, late) /\ Quota(m, g, late) \in Nat
      BY <3>1, QuotaFacts
    <3>3. Quota(n, g, late) \in Nat
      BY <3>1, QuotaFacts
    <3> QED BY <3>2, <3>3 DEF m
  <2> HIDE DEF L, u, v, new, j
  <2>9. Total(list) + value <= Quota(L + 1, g, late)
    BY DEF L
  <2>10. Total(u) <= Quota(n, g, late)
    BY <1>2, <2>6, <2>7, <2>8, <2>9
  <2> QED BY <2>10 DEF u
<1> QED BY <1>2, <1>4, <1>5

----------------------------------------------------------------------------
(* The events of a worker: where they are counted, and how many there can be *)

\* The monitor m, started late, has counted what the rate control c has.
Counts(m, c, late) ==
  /\ c.clockPrev >= NANOSECOND
  /\ Total(m.list) + m.count = c.count
  /\ m.clockPrev = c.clockPrev + late + NANOSECOND * Len(m.list)

\* The last of count events came before the end of the second after n listed.
InQuota(count, n, g, late) == count # 0 => g * (count - 1) <= (n + 1) * NANOSECOND + late

LEMMA CountsRolled ==
  ASSUME NEW m \in Monitor, NEW c \in Control, NEW late \in Nat, Counts(m, c, late), NEW t \in Nat
  PROVE  /\ Counts(MonitorRolled(m, t), c, late)
         /\ t <= MonitorRolled(m, t).clockPrev + NANOSECOND
<1> DEFINE n == FullSeconds(t, m.clockPrev)
           list == m.list
           new == Pushed(list, n, m.count)
           L == Len(list)
           r == MonitorRolled(m, t)
<1>1. m.clockPrev \in Nat /\ m.count \in Nat /\ list \in Seq(Nat) /\ L \in Nat
      /\ c.clockPrev \in Nat /\ c.count \in Nat
  BY LenProperties DEF Monitor, Control
<1>2. n \in Nat /\ t <= m.clockPrev + n * NANOSECOND + NANOSECOND /\ n * NANOSECOND \in Nat
  BY <1>1, FullSecondsFacts
<1>3. /\ r.list = new
      /\ r.clockPrev = m.clockPrev + n * NANOSECOND
      /\ r.count = IF n = 0 THEN m.count ELSE 0
  BY RolledMonitor
<1> HIDE DEF n, list, r
<1>4. Total(new) = Total(list) + (IF n = 0 THEN 0 ELSE m.count) /\ Total(list) \in Nat
  BY <1>1, <1>2, TotalPushed
<1>5. Len(new) = L + n
  BY <1>1, <1>2, PushedFacts DEF IsPushed
<1> HIDE DEF new, L
<1>6. Total(list) + m.count = c.count /\ m.clockPrev = c.clockPrev + late + NANOSECOND * L
      /\ c.clockPrev >= NANOSECOND
  BY DEF Counts, list, L
<1>7. Total(r.list) + r.count = c.count
  BY <1>1, <1>3, <1>4, <1>6
<1>8. NANOSECOND * (L + n) = NANOSECOND * L + n * NANOSECOND /\ NANOSECOND * L \in Nat
  <2>1. ASSUME NEW a \in Nat, NEW b \in Nat, NEW d \in Nat
        PROVE  a * (b + d) = a * b + d * a /\ a * b \in Nat
    OBVIOUS
  <2> QED BY <2>1, <1>1, <1>2, Units
<1>9. r.clockPrev = c.clockPrev + late + NANOSECOND * Len(r.list)
  BY <1>1, <1>2, <1>3, <1>5, <1>6, <1>8
<1>10. t <= r.clockPrev + NANOSECOND
  BY <1>2, <1>3
<1>11. Counts(r, c, late)
  BY <1>6, <1>7, <1>9 DEF Counts
<1> QED BY <1>10, <1>11 DEF r

LEMMA RolledWithin ==
  ASSUME NEW m \in Monitor, NEW c \in Control, NEW late \in Nat, Counts(m, c, late), NEW t \in Nat,
         NEW g \in Nat \ {0}, Within(m.list, g, late), InQuota(c.count, Len(m.list), g, late)
  PROVE  Within(MonitorRolled(m, t).list, g, late)
<1> DEFINE n == FullSeconds(t, m.clockPrev)
           list == m.list
           value == m.count
           k == Len(list) + 1
<1>1. m.clockPrev \in Nat /\ value \in Nat /\ list \in Seq(Nat) /\ Len(list) \in Nat
      /\ c.count \in Nat
  BY LenProperties DEF Monitor, Control
<1>2. n \in Nat
  BY <1>1, FullSecondsFacts
<1>3. MonitorRolled(m, t).list = Pushed(list, n, value)
  BY RolledMonitor
<1>4. Total(list) + value = c.count /\ Within(list, g, late)
  BY DEF Counts
<1>5. c.count # 0 => g * (c.count - 1) <= k * NANOSECOND + late
  BY DEF InQuota
<1>6. k \in Nat /\ k <= k
  BY <1>1
<1> HIDE DEF n, list, value, k
<1>7. /\ Quota(k, g, late) \in Nat
      /\ \A e \in Nat : g * e <= k * NANOSECOND + late => e + 1 <= Quota(k, g, late)
  BY <1>6, QuotaFacts
<1>8. c.count <= Quota(k, g, late)
  <2>1. CASE c.count = 0
    BY <2>1, <1>7
  <2>2. CASE c.count # 0
    <3> DEFINE e == c.count - 1
    <3>1. e \in Nat /\ g * e <= k * NANOSECOND + late /\ e + 1 = c.count
      BY <2>2, <1>1, <1>5
    <3> HIDE DEF e
    <3> QED BY <3>1, <1>7
  <2> QED BY <2>1, <2>2
<1>9. Total(list) + value <= Quota(Len(list) + 1, g, late)
  BY <1>4, <1>8 DEF k
<1> QED BY <1>1, <1>2, <1>3, <1>4, <1>9, WithinPushed

\* The monitor of a worker is not of the first second, in which Increment starts anew.
LEMMA HitList ==
  ASSUME NEW m \in Monitor, NEW c \in Control, NEW late \in Nat, Counts(m, c, late), NEW t \in Nat
  PROVE  /\ m.clockPrev >= NANOSECOND
         /\ Increment(m, t).list = MonitorRolled(m, t).list
         /\ Increment(m, t).clockPrev = MonitorRolled(m, t).clockPrev
         /\ Increment(m, t).count = MonitorRolled(m, t).count + 1
<1>1. c.clockPrev \in Nat /\ c.clockPrev >= NANOSECOND /\ m.clockPrev \in Nat
      /\ m.clockPrev = c.clockPrev + late + NANOSECOND * Len(m.list) /\ Len(m.list) \in Nat
  BY LenProperties DEF Monitor, Control, Counts
<1>2. m.clockPrev >= NANOSECOND
  <2>1. ASSUME NEW a \in Nat, NEW b \in Nat PROVE a * b >= 0 /\ a * b \in Int
    OBVIOUS
  <2>2. NANOSECOND * Len(m.list) >= 0 /\ NANOSECOND * Len(m.list) \in Int
    BY <2>1, <1>1, Units
  <2> QED BY <2>2, <1>1, Units
<1> QED BY <1>2, Incremented

\* IncrementAndWait and Increment of one hit.
LEMMA HitCounts ==
  ASSUME NEW m \in Monitor, NEW c \in Control, NEW late \in Nat, Counts(m, c, late),
         NEW t \in Nat, NEW hitTime \in Nat
  PROVE  Counts(Increment(m, t), Counted(c, hitTime, t), late)
<1> DEFINE r == MonitorRolled(m, t)
           i == Increment(m, t)
           d == Counted(c, hitTime, t)
<1>3. i.list = r.list /\ i.clockPrev = r.clockPrev /\ i.count = r.count + 1
  BY HitList
<1>4. Counts(r, c, late)
  BY CountsRolled
<1>5. d.clockPrev = c.clockPrev /\ d.count = c.count + 1
  BY CountedControl
<1>6. r.list \in Seq(Nat) /\ r.count \in Nat /\ c.count \in Nat
  BY RolledMonitor DEF Monitor, Control
<1> HIDE DEF r, i, d
<1>7. Total(r.list) \in Nat
  BY <1>6, TotalAppend
<1>8. Total(i.list) + i.count = d.count
  BY <1>3, <1>4, <1>5, <1>6, <1>7 DEF Counts
<1>9. d.clockPrev >= NANOSECOND /\ i.clockPrev = d.clockPrev + late + NANOSECOND * Len(i.list)
  BY <1>3, <1>4, <1>5 DEF Counts
<1>10. Counts(i, d, late)
  BY <1>8, <1>9 DEF Counts
<1> QED BY <1>10 DEF i, d

\* A hit that is let go not before its time is within the quota of its second.
LEMMA HitInQuota ==
  ASSUME NEW m \in Monitor, NEW c \in Control, NEW late \in Nat, Counts(m, c, late),
         NEW t \in Nat, NEW hitTime \in Nat, NEW g \in Nat \ {0}, g * c.count <= t - c.clockPrev
  PROVE  InQuota(Counted(c, hitTime, t).count, Len(Increment(m, t).list), g, late)
<1> DEFINE r == MonitorRolled(m, t)
           i == Increment(m, t)
           d == Counted(c, hitTime, t)
           L == Len(i.list)
<1>1. Counts(i, d, late) /\ i \in Monitor /\ d \in Control
  BY HitCounts, CountedControl, IncrementType
<1>2. d.clockPrev = c.clockPrev /\ d.count = c.count + 1
  BY CountedControl
<1>3. c.clockPrev \in Nat /\ c.count \in Nat /\ m.clockPrev \in Nat
  BY DEF Control, Monitor
<1>4. L \in Nat /\ i.clockPrev = c.clockPrev + late + NANOSECOND * L
  BY <1>1, <1>2, LenProperties DEF Monitor, Counts
<1>5. i.clockPrev = r.clockPrev
  BY HitList
<1>6. t <= r.clockPrev + NANOSECOND
  BY CountsRolled
<1> HIDE DEF r, i, d, L
<1>7. g * c.count \in Int /\ NANOSECOND * L \in Int /\ (L + 1) * NANOSECOND = NANOSECOND * L + NANOSECOND
  <2>1. ASSUME NEW a \in Nat, NEW b \in Nat
        PROVE  a * b \in Int /\ (b + 1) * a = a * b + a
    OBVIOUS
  <2> QED BY <2>1, <1>3, <1>4, Units
<1>8. g * c.count <= (L + 1) * NANOSECOND + late
  BY <1>3, <1>4, <1>5, <1>6, <1>7, Units
<1>9. d.count - 1 = c.count
  BY <1>2, <1>3
<1>10. InQuota(d.count, L, g, late)
  BY <1>8, <1>9 DEF InQuota
<1> QED BY <1>10 DEF d, L, i

----------------------------------------------------------------------------
(* Sleeping *)

LEMMA DivMonotone ==
  ASSUME NEW a \in Int, NEW b \in Int, NEW c \in Nat \ {0}, a <= b
  PROVE  a \div c <= b \div c
<1>1. c * (a \div c) <= a /\ b < c * (b \div c) + c /\ a \div c \in Int /\ b \div c \in Int
  BY DivFacts
<1>2. ASSUME NEW x \in Int, NEW y \in Int, c * x <= a, b < c * y + c PROVE x <= y
  <2>1. c * (y + 1) = c * y + c /\ c * x \in Int /\ c * y \in Int
    OBVIOUS
  <2>2. c * x < c * (y + 1)
    BY <2>1, <1>2
  <2>3. x < y + 1
    BY <2>2, Cancel
  <2> QED BY <2>3
<1> QED BY <1>1, <1>2

LEMMA DivBelow ==
  ASSUME NEW a \in Int, NEW b \in Int, NEW c \in Nat \ {0}, a < c * b
  PROVE  a \div c < b
<1>1. c * (a \div c) <= a /\ a \div c \in Int
  BY DivFacts
<1>2. ASSUME NEW x \in Int, c * x <= a PROVE x < b
  <2>1. c * x \in Int /\ c * b \in Int
    OBVIOUS
  <2>2. c * x < c * b
    BY <1>2, <2>1
  <2> QED BY <2>2, Cancel
<1> QED BY <1>1, <1>2

LEMMA SecondsFacts ==
  ASSUME NEW s \in Nat, NEW t \in Nat
  PROVE  Seconds(t) \in Nat /\ (s <= t => Seconds(s) <= Seconds(t))
         /\ t < NANOSECOND * Seconds(t) + NANOSECOND
BY Units, DivFacts, DivMonotone DEF Seconds

LEMMA LaterVirtualTime ==
  ASSUME NEW c \in Control, c.rate \in ReplayRates, NEW s \in Nat, NEW t \in Nat, s <= t
  PROVE  VirtualTime(c, s) <= VirtualTime(c, t) /\ VirtualTime(c, t) \in Int
<1> DEFINE a == Seconds(s) - c.startTime
           b == Seconds(t) - c.startTime
           n == c.rate[1]
           d == c.rate[2]
<1>1. n \in Nat \ {0} /\ d \in Nat \ {0}
  BY DEF ReplayRates
<1>2. c.startTime \in Nat /\ c.firstHitTime \in Nat
  BY DEF Control
<1>3. a \in Int /\ b \in Int /\ a <= b
  BY <1>2, SecondsFacts
<1>4. /\ VirtualTime(c, s) = (a * n) \div d + c.firstHitTime
      /\ VirtualTime(c, t) = (b * n) \div d + c.firstHitTime
  BY DEF VirtualTime
<1> HIDE DEF a, b, n, d
<1>5. a * n \in Int /\ b * n \in Int
  BY <1>1, <1>3
<1>6. a * n <= b * n
  BY <1>1, <1>3, Products
<1> DEFINE x == a * n
           y == b * n
<1> HIDE DEF x, y
<1>7. x \div d <= y \div d /\ x \div d \in Int /\ y \div d \in Int
  BY <1>1, <1>5, <1>6, DivMonotone, DivFacts DEF x, y
<1> QED BY <1>2, <1>4, <1>7 DEF x, y

\* The second before usleep returns is not past the time of the hit.
LEMMA HitSleep ==
  ASSUME NEW c \in Control, c.mode = "HIT_BASED", c.rate \in ReplayRates,
         NEW hitTime \in Nat, NEW t \in Nat
  PROVE  LET wakeAt == WakeTime(c, hitTime, t)
         IN wakeAt <= t \/ (wakeAt \in Nat \ {0} /\ VirtualTime(c, wakeAt - 1) <= hitTime)
<1> DEFINE n == c.rate[1]
           d == c.rate[2]
           sec == Seconds(t)
           a == (sec - c.startTime) * n
           v == a \div d
           h == hitTime - c.firstHitTime
           s == ((h - v) * d) \div n
           W == WakeTime(c, hitTime, t)
<1>1. n \in Nat \ {0} /\ d \in Nat \ {0} /\ c.startTime \in Nat /\ c.firstHitTime \in Nat /\ h \in Int
  BY DEF ReplayRates, Control
<1>2. sec \in Nat /\ t < NANOSECOND * sec + NANOSECOND
  BY SecondsFacts
<1>3. VirtualTime(c, t) = v + c.firstHitTime
  BY DEF VirtualTime
<1>4. a \in Int
  BY <1>1, <1>2
<1> HIDE DEF a, n, d, sec, h
<1>5. v \in Int /\ a < d * v + d
  BY <1>1, <1>4, DivFacts
<1> HIDE DEF v
<1>6. (h - v) * d \in Int
  BY <1>1, <1>5
<1>7. s \in Int /\ n * s <= (h - v) * d
  <2> DEFINE p == (h - v) * d
  <2> HIDE DEF p
  <2>1. p \in Int
    BY <1>6 DEF p
  <2>2. p \div n \in Int /\ n * (p \div n) <= p
    BY <2>1, <1>1, DivFacts
  <2> QED BY <2>2 DEF p
<1>8. hitTime - VirtualTime(c, t) = h - v
  BY <1>1, <1>3, <1>5 DEF h
<1>9. W = t + (IF s > 1 THEN s - 1 ELSE 0) * NANOSECOND
  BY <1>8 DEF WakeTime, n, d
<1> HIDE DEF s, W
<1>10. CASE ~(s > 1)
  <2>1. W = t + 0 * NANOSECOND
    BY <1>9, <1>10
  <2>2. W <= t
    BY <2>1, Units
  <2> QED BY <2>2 DEF W
<1>11. CASE s > 1
  <2> DEFINE m == s - 1
  <2>1. m \in Nat /\ m >= 1 /\ s = m + 1
    BY <1>7, <1>11
  <2>2. W = t + m * NANOSECOND
    BY <1>9, <1>11
  <2> HIDE DEF m
  <2>3. m * NANOSECOND \in Nat /\ m * NANOSECOND >= 1
    <3>1. ASSUME NEW x \in Nat, NEW y \in Nat \ {0}, x >= 1 PROVE x * y \in Nat /\ x * y >= 1
      <4>1. 1 * y <= x * y /\ 1 * y = y /\ x * y \in Nat
        BY <3>1, Products
      <4> QED BY <4>1
    <3> QED BY <3>1, <2>1, Units
  <2>4. W - 1 \in Nat /\ W \in Nat \ {0}
    BY <2>2, <2>3
  <2> DEFINE e == Seconds(W - 1)
  <2>5. e < sec + 1 + m /\ e \in Nat
    <3>1. NANOSECOND * (sec + 1 + m) = NANOSECOND * sec + NANOSECOND + m * NANOSECOND
          /\ NANOSECOND * sec \in Int
      <4>1. ASSUME NEW x \in Nat, NEW y \in Nat, NEW z \in Nat
            PROVE  x * (y + 1 + z) = x * y + x + z * x /\ x * y \in Int
        OBVIOUS
      <4> QED BY <4>1, <1>2, <2>1, Units
    <3>2. W - 1 < NANOSECOND * (sec + 1 + m)
      BY <3>1, <1>2, <2>2, <2>3, Units
    <3> DEFINE q == W - 1
               b == sec + 1 + m
    <3>3. q \in Int /\ b \in Int /\ q < NANOSECOND * b
      BY <3>2, <2>4, <1>2, <2>1
    <3> HIDE DEF q, b
    <3>4. q \div NANOSECOND < b
      BY <3>3, DivBelow, Units
    <3>5. e \in Nat
      BY <2>4, SecondsFacts
    <3> QED BY <3>4, <3>5 DEF q, b, Seconds
  <2>6. VirtualTime(c, W - 1) = ((e - c.startTime) * n) \div d + c.firstHitTime
    BY DEF VirtualTime, n, d
  <2> HIDE DEF e
  <2>7. (e - c.startTime) * n < d * (h + 1)
    <3>1. (e - c.startTime) * n <= (sec - c.startTime + m) * n
      <4>1. e - c.startTime \in Int /\ sec - c.startTime + m \in Int
            /\ e - c.startTime <= sec - c.startTime + m
        BY <1>1, <1>2, <2>1, <2>5
      <4> QED BY <4>1, <1>1, Products
    <3>2. (sec - c.startTime + m) * n = a + n * m /\ n * s = n * m + n
      <4>1. ASSUME NEW x \in Int, NEW y \in Nat, NEW z \in Nat
            PROVE  (x + y) * z = x * z + z * y /\ z * (y + 1) = z * y + z
        OBVIOUS
      <4>2. sec - c.startTime \in Int
        BY <1>1, <1>2
      <4> QED BY <4>1, <4>2, <1>1, <2>1 DEF a
    <3>3. (h - v) * d = d * h - d * v /\ d * (h + 1) = d * h + d
          /\ d * h \in Int /\ d * v \in Int /\ n * m \in Int
      <4>1. ASSUME NEW x \in Int, NEW y \in Int, NEW z \in Int
            PROVE  (x - y) * z = z * x - z * y /\ z * (x + 1) = z * x + z
                   /\ z * x \in Int /\ z * y \in Int
        OBVIOUS
      <4> QED BY <4>1, <1>1, <1>5, <2>1
    <3>4. a + n * m < d * (h + 1)
      BY <3>2, <3>3, <1>1, <1>4, <1>5, <1>7
    <3>5. (e - c.startTime) * n \in Int
      BY <1>1, <2>5
    <3> DEFINE x == (e - c.startTime) * n
               y == d * (h + 1)
    <3>6. y \in Int /\ a + n * m \in Int
      BY <3>3, <1>1, <1>4
    <3> HIDE DEF x, y
    <3>7. x <= a + n * m /\ a + n * m < y /\ x \in Int
      BY <3>1, <3>2, <3>4, <3>5 DEF x, y
    <3>8. x < y
      BY <3>6, <3>7
    <3> QED BY <3>8 DEF x, y
  <2> DEFINE u == (e - c.startTime) * n
             b == h + 1
  <2>8. u \in Int /\ b \in Int
    BY <1>1, <2>5
  <2>9. u < d * b
    BY <2>7
  <2> HIDE DEF u, b
  <2>10. u \div d < b /\ u \div d \in Int
    BY <2>8, <2>9, <1>1, DivBelow, DivFacts
  <2>11. VirtualTime(c, W - 1) = u \div d + c.firstHitTime
    BY <2>6 DEF u
  <2>12. VirtualTime(c, W - 1) <= hitTime
    BY <2>10, <2>11, <1>1 DEF b, h
  <2> QED BY <2>4, <2>12 DEF W
<1> QED BY <1>10, <1>11

\* usleep returns no later than the interval of the events has gone by.
LEMMA EventSleep ==
  ASSUME NEW c \in Control, c.mode # "HIT_BASED", c.rate \in Nat,
         NEW hitTime \in Nat, NEW t \in Nat, MustWait(c, hitTime, t), c.clockPrev <= t
  PROVE  c.rate # 0 /\ WakeTime(c, hitTime, t) <= c.clockPrev + Interval(c) * c.count
<1>1. c.rate \in Nat \ {0} /\ c.clockPrev \in Nat /\ c.count \in Nat /\ Missing(c, t) > 0
  BY DEF MustWait, Control
<1> DEFINE i == Interval(c) * c.count
           us == NANOSECOND \div MICROSECOND
           q == Missing(c, t) \div us
<1>2. i \in Nat
  <2>1. Interval(c) \in Nat
    BY <1>1, Units, DivFacts DEF Interval
  <2> QED BY <1>1, <2>1
<1>3. Missing(c, t) = i - (t - c.clockPrev) /\ Missing(c, t) \in Nat
  <2>1. Minus(t, c.clockPrev) = t - c.clockPrev
    BY <1>1 DEF Minus
  <2> HIDE DEF i
  <2>2. Missing(c, t) = Minus(i, t - c.clockPrev)
    BY <2>1 DEF Missing, i
  <2> QED BY <2>2, <1>1, <1>2 DEF Minus
<1>4. us \in Nat \ {0}
  <2>1. us \in Nat /\ NANOSECOND < MICROSECOND * us + MICROSECOND
    BY Units, DivFacts
  <2> HIDE DEF us
  <2>2. us = 0 => NANOSECOND < MICROSECOND
    BY <2>1, Units
  <2> QED BY <2>1, <2>2, Units
<1>5. WakeTime(c, hitTime, t) = t + q * us
  BY DEF WakeTime
<1> HIDE DEF us, i
<1>6. q \in Nat /\ us * q <= Missing(c, t)
  BY <1>3, <1>4, DivFacts
<1> HIDE DEF q
<1>7. q * us = us * q /\ q * us \in Nat
  BY <1>4, <1>6
<1> QED BY <1>1, <1>2, <1>3, <1>5, <1>6, <1>7 DEF i

----------------------------------------------------------------------------
(* What is measured and paced: an inductive invariant *)

BusyPcs == {"next", "pace", "reading"}

\* The options o ask for a number of events per second that the clock can tell.
Asks(o) == o.mode = "EVENT_BASED" /\ o.rate \in 1..NANOSECOND
Gap(o) == NANOSECOND \div o.rate

\* The list without the last entry, which Stop may have scaled up.
Whole(me) == LET list == me.monitor.list
             IN IF me.pc \in BusyPcs \/ list = <<>> THEN list ELSE Front(list)

Fits(me, o) == Asks(o) => Within(Whole(me), Gap(o), me.late)

\* Once a hit has been let go, the intervals of all the hits have gone by.
InTime(me, t, o) ==
  Asks(o) =>
    /\ Within(me.monitor.list, Gap(o), me.late)
    /\ InQuota(me.control.count, Len(me.monitor.list), Gap(o), me.late)
    /\ me.pc # "pace" => Gap(o) * me.control.count <= t - me.control.clockPrev

\* A sleep ends before the worker could have gone on.
Sleeps(me, t, o) ==
  me.pc = "pace" /\ ~(me.wakeAt <= t) =>
    IF o.mode = "HIT_BASED"
    THEN me.wakeAt \in Nat \ {0} /\ VirtualTime(me.control, me.wakeAt - 1) <= me.hitTime
    ELSE me.control.rate # 0 /\ me.wakeAt <= me.control.clockPrev + Interval(me.control) * me.control.count

\* The controller has been started.
Starts(me, t, o) ==
  /\ me.control.mode = o.mode /\ me.control.rate = o.rate
  /\ me.control.clockPrev <= t

Paces(me, t, o) ==
  /\ Starts(me, t, o)
  /\ Counts(me.monitor, me.control, me.late)
  /\ InTime(me, t, o)
  /\ Sleeps(me, t, o)

Measured(me, t, o) ==
  /\ me.late \in Nat /\ Fits(me, o)
  /\ me.pc = "starting" =>
       Starts(me, t, o) /\ me.control.count = 0 /\ me.control.clockPrev >= NANOSECOND
  /\ me.pc \in BusyPcs => Paces(me, t, o)

MeasureInv == \A w \in Pids : Measured(worker[w], now, options)

LEMMA GapFacts ==
  ASSUME NEW o, Asks(o)
  PROVE  Gap(o) \in Nat \ {0} /\ o.rate \in Nat \ {0} /\ o.mode # "HIT_BASED"
<1>1. o.rate \in Nat \ {0} /\ o.rate <= NANOSECOND /\ o.mode # "HIT_BASED"
  BY Units DEF Asks
<1> DEFINE r == o.rate
           q == NANOSECOND \div r
<1>2. r \in Nat \ {0} /\ r <= NANOSECOND
  BY <1>1
<1> HIDE DEF r
<1>3. q \in Nat /\ NANOSECOND < r * q + r
  BY <1>2, Units, DivFacts
<1> HIDE DEF q
<1>4. q # 0
  BY <1>2, <1>3, Units
<1> QED BY <1>1, <1>3, <1>4 DEF Gap, r, q

\* A worker that is busy has whole seconds only.
LEMMA BusyFits ==
  ASSUME NEW me, me.pc \in BusyPcs, me.late \in Nat, NEW t, NEW o, Paces(me, t, o)
  PROVE  Measured(me, t, o)
<1>1. Whole(me) = me.monitor.list
  BY DEF Whole
<1>2. me.pc # "starting"
  BY DEF BusyPcs
<1> QED BY <1>1, <1>2 DEF Measured, Fits, Paces, InTime

LEMMA WholeType ==
  ASSUME TInv, NEW w \in Pids
  PROVE  Whole(worker[w]) \in Seq(Nat)
<1> DEFINE list == worker[w].monitor.list
<1>1. list \in Seq(Nat) /\ Len(list) \in Nat
  BY Before, LenProperties DEF Monitor
<1> HIDE DEF list
<1>2. CASE Whole(worker[w]) = list
  BY <1>1, <1>2
<1>3. CASE Whole(worker[w]) = Front(list) /\ list # <<>>
  <2> DEFINE n == Len(list) - 1
  <2>1. Len(list) # 0
    BY <1>1, <1>3, EmptySeq
  <2>2. n \in 0..Len(list)
    BY <2>1, <1>1
  <2>3. Front(list) = SubSeq(list, 1, n)
    BY DEF Front
  <2> HIDE DEF n
  <2> QED BY <2>2, <2>3, <1>1, <1>3, FirstEntries
<1> QED BY <1>2, <1>3 DEF Whole, list

LEMMA MeasureMoves ==
  ASSUME TInv, MeasureInv, NEW w \in Pids, NEW me \in WorkerType, Moves(w, me),
         UNCHANGED <<options, now>>, Measured(me, now, options)
  PROVE  MeasureInv'
<1>1. /\ worker'[w] = me
      /\ \A v \in Pids : v # w => worker'[v] = worker[v]
      /\ Pids' = Pids
  BY MovedWorker DEF TInv
<1>2. \A v \in Pids : Measured(worker'[v], now, options)
  <2> SUFFICES ASSUME NEW v \in Pids PROVE Measured(worker'[v], now, options)
    OBVIOUS
  <2>1. CASE v = w
    BY <2>1, <1>1
  <2>2. CASE v # w
    BY <2>2, <1>1 DEF MeasureInv
  <2> QED BY <2>1, <2>2
<1> QED BY <1>1, <1>2 DEF MeasureInv

\* The same monitor measures the same, whoever is not busy with it.
LEMMA ListKept ==
  ASSUME NEW old, NEW me, NEW t, NEW o, Measured(old, t, o),
         me.monitor.list = old.monitor.list, me.late = old.late,
         old.pc \notin BusyPcs, me.pc \notin BusyPcs, me.pc # "starting"
  PROVE  Measured(me, t, o)
<1>1. Whole(me) = Whole(old)
  BY DEF Whole
<1> QED BY <1>1 DEF Measured, Fits

LEMMA BeginControlMeasures ==
  ASSUME TInv, MeasureInv, NEW w \in Pids, BeginControl(w)
  PROVE  MeasureInv'
<1>1. PICK me \in WorkerType :
         /\ Moves(w, me) /\ me.pc = "starting"
         /\ me.monitor = worker[w].monitor /\ me.late = worker[w].late
         /\ me.control = NewControl(options.mode, options.rate, now)
  BY BeginControlMoves DEF TInv
<1>2. UNCHANGED <<options, now>> /\ worker[w].pc = "start"
  BY DEF BeginControl, Running, At
<1>3. now \in Nat /\ now >= NANOSECOND
  BY Units DEF TInv, TypeInv
<1>4. /\ me.control.mode = options.mode /\ me.control.rate = options.rate
      /\ me.control.clockPrev = now /\ me.control.count = 0
  BY <1>1 DEF NewControl
<1>5. me.late \in Nat /\ Fits(me, options)
  <2>1. Whole(me) = Whole(worker[w])
    BY <1>1, <1>2 DEF Whole, BusyPcs
  <2>2. Measured(worker[w], now, options)
    BY DEF MeasureInv
  <2> QED BY <2>1, <2>2, <1>1 DEF Measured, Fits
<1>6. Measured(me, now, options)
  BY <1>1, <1>3, <1>4, <1>5 DEF Measured, Starts, BusyPcs
<1> QED BY <1>1, <1>2, <1>6, MeasureMoves

LEMMA BeginMonitorMeasures ==
  ASSUME TInv, MeasureInv, NEW w \in Pids, BeginMonitor(w)
  PROVE  MeasureInv'
<1>1. PICK me \in WorkerType :
         /\ Moves(w, me) /\ me.pc = "next"
         /\ me.control = worker[w].control
         /\ me.monitor = NewMonitor(now)
         /\ me.late = now - worker[w].control.clockPrev
  BY BeginMonitorMoves DEF TInv
<1>2. UNCHANGED <<options, now>> /\ worker[w].pc = "starting"
  BY DEF BeginMonitor, Running, At
<1> DEFINE c == me.control
<1>3. now \in Nat /\ c.clockPrev \in Nat
  BY <1>1, Before DEF Control
<1>4. /\ Starts(me, now, options) /\ c.clockPrev <= now
      /\ c.count = 0 /\ c.clockPrev >= NANOSECOND
  <2>1. Measured(worker[w], now, options)
    BY DEF MeasureInv
  <2> QED BY <2>1, <1>1, <1>2 DEF Measured, Starts
<1>5. me.monitor.list = <<>> /\ me.monitor.count = 0 /\ me.monitor.clockPrev = now
  BY <1>1 DEF NewMonitor
<1>6. me.late \in Nat /\ now = c.clockPrev + me.late
  BY <1>1, <1>3, <1>4
<1> HIDE DEF c
<1>7. Len(<<>>) = 0 /\ <<>> \in Seq(Nat)
  OBVIOUS
<1>8. Total(<<>>) = 0
  <2>1. PICK P : PartialSums(<<>>, P) /\ Total(<<>>) = P[Len(<<>>)]
    BY <1>7, TotalIsSum
  <2> QED BY <2>1, <1>7 DEF PartialSums
<1>9. Counts(me.monitor, me.control, me.late)
  <2>1. NANOSECOND * 0 = 0
    BY Units
  <2>2. now = c.clockPrev + me.late + 0
    BY <1>3, <1>6
  <2>3. me.monitor.clockPrev = c.clockPrev + me.late + NANOSECOND * Len(me.monitor.list)
    BY <2>1, <2>2, <1>5, <1>7
  <2> QED BY <2>3, <1>4, <1>5, <1>8 DEF Counts, c
<1>10. InTime(me, now, options)
  <2> SUFFICES ASSUME Asks(options)
               PROVE  /\ Within(<<>>, Gap(options), me.late)
                      /\ InQuota(0, 0, Gap(options), me.late)
                      /\ Gap(options) * 0 <= now - c.clockPrev
    BY <1>4, <1>5, <1>7 DEF InTime, c
  <2>1. Within(<<>>, Gap(options), me.late) /\ InQuota(0, 0, Gap(options), me.late)
    BY <1>7 DEF Within, InQuota
  <2>2. Gap(options) * 0 = 0
    BY GapFacts
  <2> QED BY <2>1, <2>2, <1>3, <1>4
<1>11. Sleeps(me, now, options)
  BY <1>1 DEF Sleeps
<1>12. Paces(me, now, options)
  BY <1>4, <1>9, <1>10, <1>11 DEF Paces
<1>13. Measured(me, now, options)
  BY <1>1, <1>6, <1>12, BusyFits DEF BusyPcs
<1> QED BY <1>1, <1>2, <1>13, MeasureMoves

LEMMA NextHitMeasures ==
  ASSUME TInv, MeasureInv, NEW w \in Pids, NextHit(w)
  PROVE  MeasureInv'
<1>1. PICK me \in WorkerType, hitTime \in Nat :
         /\ Moves(w, me) /\ me.pc = "pace" /\ me.wakeAt = now /\ me.late = worker[w].late
         /\ me.monitor = Increment(worker[w].monitor, now)
         /\ me.control = Counted(worker[w].control, hitTime, now)
  BY NextHitMoves DEF TInv
<1>2. UNCHANGED <<options, now>> /\ worker[w].pc = "next"
  BY DEF NextHit, Running, At
<1> DEFINE m == worker[w].monitor
           c == worker[w].control
           late == me.late
           o == options
           t == now
<1>3. m \in Monitor /\ c \in Control /\ t \in Nat
  BY Before
<1>4. Paces(worker[w], t, o) /\ late \in Nat
  BY <1>1, <1>2 DEF MeasureInv, Measured, BusyPcs
<1>5. /\ c.mode = o.mode /\ c.rate = o.rate /\ c.clockPrev <= t /\ Counts(m, c, late)
      /\ InTime(worker[w], t, o)
  BY <1>1, <1>4 DEF Paces, Starts
<1>6. Asks(o) => /\ Within(m.list, Gap(o), late) /\ InQuota(c.count, Len(m.list), Gap(o), late)
                 /\ Gap(o) * c.count <= t - c.clockPrev
  BY <1>1, <1>2, <1>5 DEF InTime
<1>7. me.monitor = Increment(m, t) /\ me.control = Counted(c, hitTime, t)
  BY <1>1
<1> HIDE DEF m, c, o, t, late
<1>8. /\ me.control.mode = c.mode /\ me.control.rate = c.rate
      /\ me.control.clockPrev = c.clockPrev
  BY <1>3, <1>7, CountedControl
<1>9. Counts(me.monitor, me.control, late)
  BY <1>3, <1>4, <1>5, <1>7, HitCounts
<1>10. InTime(me, t, o)
  <2> SUFFICES ASSUME Asks(o)
               PROVE  /\ Within(me.monitor.list, Gap(o), late)
                      /\ InQuota(me.control.count, Len(me.monitor.list), Gap(o), late)
    BY <1>1 DEF InTime, late
  <2> DEFINE g == Gap(o)
  <2>1. g \in Nat \ {0}
    BY GapFacts
  <2>2. /\ Within(m.list, g, late) /\ InQuota(c.count, Len(m.list), g, late)
        /\ g * c.count <= t - c.clockPrev
    BY <1>6
  <2> HIDE DEF g
  <2>3. Within(MonitorRolled(m, t).list, g, late)
    BY <2>1, <2>2, <1>3, <1>4, <1>5, RolledWithin
  <2>4. me.monitor.list = MonitorRolled(m, t).list
    BY <1>3, <1>4, <1>5, <1>7, HitList
  <2>5. InQuota(me.control.count, Len(me.monitor.list), g, late)
    BY <2>1, <2>2, <1>3, <1>4, <1>5, <1>7, HitInQuota
  <2> QED BY <2>3, <2>4, <2>5 DEF g
<1>11. Sleeps(me, t, o)
  BY <1>1, <1>3 DEF Sleeps, t
<1>12. Paces(me, t, o)
  BY <1>5, <1>8, <1>9, <1>10, <1>11 DEF Paces, Starts, late
<1>13. Measured(me, now, options)
  BY <1>1, <1>4, <1>12, BusyFits DEF BusyPcs, t, o, late
<1> QED BY <1>1, <1>2, <1>13, MeasureMoves

LEMMA NoMoreHitsMeasures ==
  ASSUME TInv, MeasureInv, NEW w \in Pids, NoMoreHits(w)
  PROVE  MeasureInv'
<1>1. PICK me \in WorkerType :
         /\ Moves(w, me) /\ me.pc = "stopped" /\ me.late = worker[w].late
         /\ me.monitor = MonitorStop(worker[w].monitor, now)
  BY NoMoreHitsMoves DEF TInv
<1>2. UNCHANGED <<options, now>> /\ worker[w].pc = "next"
  BY DEF NoMoreHits, Running, At
<1> DEFINE m == worker[w].monitor
           c == worker[w].control
           o == options
           t == now
           late == me.late
           R == MonitorRolled(m, t).list
           list == me.monitor.list
<1>3. m \in Monitor /\ c \in Control /\ t \in Nat
  BY Before
<1>4. Counts(m, c, late) /\ InTime(worker[w], t, o) /\ late \in Nat
  BY <1>1, <1>2 DEF MeasureInv, Measured, BusyPcs, Paces
<1>5. Asks(o) => Within(m.list, Gap(o), late) /\ InQuota(c.count, Len(m.list), Gap(o), late)
  BY <1>1, <1>4 DEF InTime
<1>6. list \in Seq(Nat) /\ R \in Seq(Nat) /\ (list = R \/ \E e \in Nat : list = Append(R, e))
  <2>1. list = MonitorStop(m, t).list
    BY <1>1
  <2> HIDE DEF m, t, list
  <2>2. MonitorStop(m, t).list \in Seq(Nat) /\ R \in Seq(Nat)
    BY <1>3, StoppedMonitor, RolledMonitor DEF Monitor
  <2>3. \/ MonitorStop(m, t).list = R
        \/ \E e \in Nat : MonitorStop(m, t).list = Append(R, e)
    BY <1>3, StoppedMonitor
  <2> QED BY <2>1, <2>2, <2>3
<1>7. Whole(me) = IF list = <<>> THEN list ELSE Front(list)
  BY <1>1 DEF Whole, BusyPcs
<1> HIDE DEF m, c, o, t, late, R, list
<1>8. Whole(me) \in Seq(Nat) /\ Begins(Whole(me), R)
  <2>1. CASE list = <<>>
    <3>1. Whole(me) = <<>> /\ <<>> \in Seq(Nat) /\ Len(<<>>) = 0
      BY <2>1, <1>7
    <3>2. Len(R) \in Nat
      BY <1>6, LenProperties
    <3> QED BY <3>1, <3>2 DEF Begins
  <2>2. CASE list # <<>>
    <3> DEFINE n == Len(list) - 1
               f == SubSeq(list, 1, n)
    <3>1. Whole(me) = f
      BY <2>2, <1>7 DEF Front
    <3>2. n \in 0..Len(list) /\ Len(list) \in Nat /\ Len(R) \in Nat
      <4>1. Len(list) \in Nat /\ Len(list) # 0 /\ Len(R) \in Nat
        BY <2>2, <1>6, EmptySeq, LenProperties
      <4> QED BY <4>1
    <3>3. f \in Seq(Nat) /\ Len(f) = n /\ \A i \in 1..n : f[i] = list[i]
      <4> HIDE DEF n
      <4> QED BY <3>2, <1>6, FirstEntries
    <3> HIDE DEF f
    <3>4. n <= Len(R) /\ \A i \in 1..n : list[i] = R[i]
      <4>1. CASE list = R
        BY <4>1, <3>2
      <4>2. ASSUME NEW e \in Nat, list = Append(R, e)
            PROVE  n <= Len(R) /\ \A i \in 1..n : list[i] = R[i]
        <5>1. Len(list) = Len(R) + 1 /\ \A i \in 1..Len(R) : list[i] = R[i]
          BY <4>2, <1>6, AppendProperties
        <5> QED BY <5>1, <3>2
      <4> QED BY <4>1, <4>2, <1>6
    <3> QED BY <3>1, <3>3, <3>4 DEF Begins
  <2> QED BY <2>1, <2>2
<1>9. Fits(me, o)
  <2> SUFFICES ASSUME Asks(o) PROVE Within(Whole(me), Gap(o), late)
    BY DEF Fits, late
  <2> DEFINE g == Gap(o)
  <2>1. g \in Nat \ {0}
    BY GapFacts
  <2>2. Within(m.list, g, late) /\ InQuota(c.count, Len(m.list), g, late)
    BY <1>5
  <2> HIDE DEF g
  <2>3. Within(R, g, late)
    BY <2>1, <2>2, <1>3, <1>4, RolledWithin DEF R
  <2>4. Within(Whole(me), g, late)
    BY <2>3, <1>6, <1>8, WithinPrefix
  <2> QED BY <2>4 DEF g
<1>10. Measured(me, now, options)
  BY <1>1, <1>4, <1>9 DEF Measured, BusyPcs, o, late
<1> QED BY <1>1, <1>2, <1>10, MeasureMoves

LEMMA PaceMeasures ==
  ASSUME TInv, MeasureInv, NEW w \in Pids, Pace(w)
  PROVE  MeasureInv'
<1> DEFINE c == worker[w].control
           h == worker[w].hitTime
           o == options
           t == now
<1>1. PICK me \in WorkerType :
           /\ Moves(w, me) /\ me.late = worker[w].late
           /\ me.monitor = worker[w].monitor /\ me.control = c
           /\ IF MustWait(c, h, t)
              THEN me.pc = "pace" /\ me.hitTime = h /\ me.wakeAt = WakeTime(c, h, t)
              ELSE me.pc = "reading"
  BY PaceMoves DEF TInv
<1>2. UNCHANGED <<options, now>> /\ worker[w].pc = "pace"
  BY DEF Pace, Running, At
<1>3. c \in Control /\ t \in Nat /\ h \in Nat /\ RateFits(c.mode, c.rate)
  BY Before DEF WorkerType
<1>4. /\ c.mode = o.mode /\ c.rate = o.rate /\ c.clockPrev <= t
      /\ Counts(worker[w].monitor, c, me.late) /\ InTime(worker[w], t, o) /\ me.late \in Nat
  BY <1>1, <1>2 DEF MeasureInv, Measured, BusyPcs, Paces, Starts
<1>5. c.clockPrev \in Nat /\ c.count \in Nat
  BY <1>3 DEF Control
<1>6. Asks(o) => /\ Within(me.monitor.list, Gap(o), me.late)
                 /\ InQuota(c.count, Len(me.monitor.list), Gap(o), me.late)
  BY <1>1, <1>4 DEF InTime
<1>7. /\ me.control = c
      /\ Starts(me, t, o) /\ Counts(me.monitor, me.control, me.late)
  BY <1>1, <1>4 DEF Starts
<1> HIDE DEF c, h, o, t
<1>8. InTime(me, t, o)
  <2> SUFFICES ASSUME Asks(o), me.pc # "pace" PROVE Gap(o) * c.count <= t - c.clockPrev
    BY <1>6, <1>7 DEF InTime
  <2>1. c.rate \in Nat \ {0} /\ c.mode # "HIT_BASED" /\ Gap(o) \in Nat \ {0}
    BY <1>4, GapFacts
  <2>2. ~MustWait(c, h, t)
    BY <1>1
  <2>3. ~(Missing(c, t) > 0)
    BY <2>1, <2>2 DEF MustWait
  <2>4. Interval(c) = Gap(o)
    BY <1>4 DEF Interval, Gap
  <2> DEFINE x == Gap(o) * c.count
  <2>5. x \in Nat
    BY <2>1, <1>5
  <2>6. Minus(t, c.clockPrev) = t - c.clockPrev /\ t - c.clockPrev \in Nat
    BY <1>3, <1>4, <1>5 DEF Minus
  <2>7. Missing(c, t) = Minus(x, t - c.clockPrev)
    BY <2>4, <2>6 DEF Missing
  <2> HIDE DEF x
  <2>8. x <= t - c.clockPrev
    BY <2>3, <2>5, <2>6, <2>7 DEF Minus
  <2> QED BY <2>8 DEF x
<1>9. Sleeps(me, t, o)
  <2> SUFFICES ASSUME me.pc = "pace", ~(me.wakeAt <= t)
               PROVE  IF o.mode = "HIT_BASED"
                      THEN me.wakeAt \in Nat \ {0} /\ VirtualTime(c, me.wakeAt - 1) <= me.hitTime
                      ELSE c.rate # 0 /\ me.wakeAt <= c.clockPrev + Interval(c) * c.count
    BY <1>7 DEF Sleeps
  <2>1. MustWait(c, h, t) /\ me.hitTime = h /\ me.wakeAt = WakeTime(c, h, t)
    BY <1>1
  <2>2. CASE o.mode = "HIT_BASED"
    <3>1. c.mode = "HIT_BASED" /\ c.rate \in ReplayRates
      BY <2>2, <1>3, <1>4 DEF RateFits
    <3>2. me.wakeAt \in Nat \ {0} /\ VirtualTime(c, me.wakeAt - 1) <= h
      BY <3>1, <2>1, <1>3, HitSleep
    <3> QED BY <2>1, <2>2, <3>2
  <2>3. CASE o.mode # "HIT_BASED"
    <3>1. c.mode # "HIT_BASED" /\ c.rate \in Nat
      BY <2>3, <1>3, <1>4 DEF RateFits
    <3>2. c.rate # 0 /\ me.wakeAt <= c.clockPrev + Interval(c) * c.count
      BY <3>1, <2>1, <1>3, <1>4, EventSleep
    <3> QED BY <2>3, <3>2
  <2> QED BY <2>2, <2>3
<1>10. Paces(me, t, o)
  BY <1>7, <1>8, <1>9 DEF Paces
<1>11. me.pc \in BusyPcs
  BY <1>1 DEF BusyPcs
<1>12. Measured(me, now, options)
  BY <1>4, <1>10, <1>11, BusyFits DEF t, o
<1> QED BY <1>1, <1>2, <1>12, MeasureMoves

LEMMA StopReadMeasures ==
  ASSUME TInv, MeasureInv, NEW w \in Pids, StopRead(w)
  PROVE  MeasureInv'
<1>1. PICK me \in WorkerType :
         /\ Moves(w, me) /\ me.pc = "next" /\ me.late = worker[w].late
         /\ me.monitor = worker[w].monitor /\ me.control = worker[w].control
  BY StopReadBounds, StopReadMoves DEF TInv
<1>2. UNCHANGED <<options, now>> /\ worker[w].pc = "reading"
  BY DEF StopRead, Running, At
<1>3. Paces(worker[w], now, options) /\ me.late \in Nat
  BY <1>1, <1>2 DEF MeasureInv, Measured, BusyPcs
<1>4. InTime(me, now, options)
  BY <1>1, <1>2, <1>3 DEF Paces, InTime
<1>5. Paces(me, now, options)
  BY <1>1, <1>3, <1>4 DEF Paces, Starts, Sleeps
<1>6. Measured(me, now, options)
  BY <1>1, <1>3, <1>5, BusyFits DEF BusyPcs
<1> QED BY <1>1, <1>2, <1>6, MeasureMoves

LEMMA ReportMeasures ==
  ASSUME TInv, MeasureInv, NEW w \in Pids, Report(w)
  PROVE  MeasureInv'
<1>1. NsPerSecond(worker[w].timer, now) \in Timer
  BY Before, AskedTimer
<1>2. PICK me \in WorkerType :
         /\ Moves(w, me) /\ me.pc = "reporting"
         /\ me.monitor = worker[w].monitor /\ me.late = worker[w].late
  BY <1>1, ReportMoves DEF TInv
<1>3. UNCHANGED <<options, now>> /\ worker[w].pc = "stopped"
  BY DEF Report, Running, At
<1>4. Measured(worker[w], now, options)
  BY DEF MeasureInv
<1>5. Measured(me, now, options)
  BY <1>2, <1>3, <1>4, ListKept DEF BusyPcs
<1> QED BY <1>2, <1>3, <1>5, MeasureMoves

LEMMA AddTimesMeasures ==
  ASSUME TInv, MeasureInv, NEW w \in Pids, AddTimes(w)
  PROVE  MeasureInv'
<1>1. Bounded(worker[w].timer, longest) /\ worker[w] \in WorkerType
      /\ worker[w].timer \in Timer /\ now \in Nat /\ longest \in Nat
  BY Before
<1>2. PICK me \in WorkerType :
        /\ Moves(w, me)
        /\ AddRound(w, me) \/ SkipRound(w, me) \/ LastRound(w, me)
  BY <1>1, AddTimesMoves DEF TInv
<1>3. UNCHANGED <<options, now>> /\ worker[w].pc = "reporting"
  BY DEF AddTimes, Running, At
<1>4. /\ me.monitor.list = worker[w].monitor.list /\ me.late = worker[w].late
      /\ me.pc \notin BusyPcs /\ me.pc # "starting"
  <2>1. CASE AddRound(w, me)
    BY <2>1 DEF AddRound, BusyPcs
  <2>2. CASE SkipRound(w, me)
    BY <2>2 DEF SkipRound, BusyPcs
  <2>3. CASE LastRound(w, me)
    <3>1. Asked(w) \in Timer
      BY <1>1, AskedTimer DEF Asked
    <3>2. me = Gone(worker[w], Asked(w))
      BY <2>3 DEF LastRound
    <3> QED BY <3>1, <3>2, <1>1, GoneFacts DEF BusyPcs
  <2> QED BY <1>2, <2>1, <2>2, <2>3
<1>5. Measured(worker[w], now, options)
  BY DEF MeasureInv
<1>6. Measured(me, now, options)
  BY <1>3, <1>4, <1>5, ListKept DEF BusyPcs
<1> QED BY <1>2, <1>3, <1>6, MeasureMoves

\* What has been measured remains so as time passes.
LEMMA TickMeasures ==
  ASSUME TInv, MeasureInv, Tick
  PROVE  MeasureInv'
<1>1. now' = now + 1 /\ UNCHANGED <<options, worker>> /\ now \in Nat
  BY DEF Tick, TInv, TypeInv
<1> SUFFICES ASSUME NEW w \in Pids PROVE Measured(worker[w], now + 1, options)
  BY <1>1 DEF MeasureInv, Pids
<1>2. Measured(worker[w], now, options) /\ worker[w] \in WorkerType /\ worker[w].control \in Control
  BY Before DEF MeasureInv
<1> DEFINE me == worker[w]
           o == options
           t == now
<1>3. me.control.clockPrev \in Nat /\ me.control.count \in Nat /\ me.wakeAt \in Nat
      /\ t \in Nat
  BY <1>1, <1>2 DEF WorkerType, Control
<1>4. Measured(me, t, o)
  BY <1>2
<1> HIDE DEF me, o, t
<1>5. ASSUME Paces(me, t, o) PROVE Paces(me, t + 1, o)
  <2>1. me.control.clockPrev <= t + 1
    BY <1>3, <1>5 DEF Paces, Starts
  <2>2. InTime(me, t + 1, o)
    <3>1. Asks(o) => /\ Within(me.monitor.list, Gap(o), me.late)
                     /\ InQuota(me.control.count, Len(me.monitor.list), Gap(o), me.late)
      BY <1>5 DEF Paces, InTime
    <3>2. ASSUME Asks(o), me.pc # "pace"
          PROVE  Gap(o) * me.control.count <= (t + 1) - me.control.clockPrev
      <4>1. Gap(o) * me.control.count <= t - me.control.clockPrev
        BY <1>5, <3>2 DEF Paces, InTime
      <4>2. Gap(o) \in Nat \ {0}
        BY <3>2, GapFacts
      <4> DEFINE x == Gap(o) * me.control.count
      <4>3. x \in Nat
        BY <4>2, <1>3
      <4> HIDE DEF x
      <4>4. x <= (t + 1) - me.control.clockPrev
        BY <4>1, <4>3, <1>3 DEF x
      <4> QED BY <4>4 DEF x
    <3>3. Asks(o) => (me.pc # "pace" => Gap(o) * me.control.count <= (t + 1) - me.control.clockPrev)
      BY <3>2
    <3> QED BY <3>1, <3>3 DEF InTime
  <2>3. Sleeps(me, t + 1, o)
    <3>1. ~(me.wakeAt <= t + 1) => ~(me.wakeAt <= t)
      BY <1>3
    <3>2. Sleeps(me, t, o)
      BY <1>5 DEF Paces
    <3> QED BY <3>1, <3>2 DEF Sleeps
  <2> QED BY <1>5, <2>1, <2>2, <2>3 DEF Paces, Starts
<1>6. Starts(me, t, o) => Starts(me, t + 1, o)
  BY <1>3 DEF Starts
<1>7. Measured(me, t + 1, o)
  BY <1>4, <1>5, <1>6 DEF Measured
<1> QED BY <1>7 DEF me, t, o

\* A worker that has not begun has listed nothing.
LEMMA ConfigureMeasures ==
  ASSUME MeasureInv, Sound, Configure
  PROVE  MeasureInv'
<1>1. TInv /\ main.pc = "configuring"
  BY DEF Sound, Configure
<1>2. Pids = {}
  BY <1>1, NobodyYet
<1>3. CASE UNCHANGED <<options, left, worker>>
  <2>1. Pids' = {}
    BY <1>2, <1>3 DEF Pids
  <2> QED BY <2>1 DEF MeasureInv
<1>4. CASE \E s \in Scenarios :
             /\ options' = [o \in DOMAIN NoOptions |-> s[o]]
             /\ left' = s.hits
             /\ worker' = [w \in 1..s.threads |-> Unborn]
  <2>1. PICK s \in Scenarios : /\ options' = [o \in DOMAIN NoOptions |-> s[o]]
                               /\ worker' = [w \in 1..s.threads |-> Unborn]
    BY <1>4
  <2>2. Pids' = 1..s.threads
    BY <2>1 DEF Pids, NoOptions
  <2>3. \A w \in Pids' : worker'[w] = Unborn
    BY <2>1, <2>2
  <2>4. Whole(Unborn) = <<>> /\ Unborn.pc = "none" /\ Unborn.late = 0 /\ Len(<<>>) = 0
    BY DEF Unborn, NewMonitor, Whole
  <2>5. Measured(Unborn, now', options')
    BY <2>4 DEF Measured, Fits, Within, BusyPcs
  <2> QED BY <2>3, <2>5 DEF MeasureInv
<1> QED BY <1>3, <1>4 DEF Configure

LEMMA CreateMeasures ==
  ASSUME MeasureInv, Sound, Create
  PROVE  MeasureInv'
<1>1. /\ TInv /\ main.created < options.threads /\ UNCHANGED <<options, now>>
  BY DEF Sound, Create
<1>2. CASE UNCHANGED worker
  BY <1>1, <1>2 DEF MeasureInv, Pids
<1>3. CASE worker' = [worker EXCEPT ![main.created + 1].pc = "start"]
  <2> DEFINE w == main.created + 1
             me == [worker[w] EXCEPT !.pc = "start"]
  <2>1. w \in Pids
    BY <1>1 DEF TInv, TypeInv, OptionsOK, Pids
  <2>2. worker' = [worker EXCEPT ![w] = me]
    BY <1>3
  <2>3. worker[w].pc = "none"
    <3>1. w > main.created
      BY <1>1 DEF TInv, TypeInv
    <3> HIDE DEF w
    <3> QED BY <3>1, <1>1, <2>1, Before
  <2> HIDE DEF w
  <2>4. worker[w] \in WorkerType
    BY <1>1, <2>1, Before
  <2>5. /\ me \in WorkerType /\ me.pc = "start"
        /\ me.monitor = worker[w].monitor /\ me.late = worker[w].late
    BY <2>4 DEF WorkerType, Pcs
  <2> HIDE DEF me
  <2>6. Measured(worker[w], now, options)
    BY <2>1 DEF MeasureInv
  <2>7. Measured(me, now, options)
    BY <2>3, <2>5, <2>6, ListKept DEF BusyPcs
  <2> QED BY <1>1, <2>1, <2>2, <2>5, <2>7, MeasureMoves DEF Moves
<1> QED BY <1>2, <1>3 DEF Create

LEMMA NextMeasures ==
  ASSUME Sound, MeasureInv, [Next]_vars
  PROVE  MeasureInv'
<1>0. TInv
  BY DEF Sound
<1>1. ASSUME NEW w \in Pids, Step(w) PROVE MeasureInv'
  BY <1>0, <1>1, BeginControlMeasures, BeginMonitorMeasures, NextHitMeasures,
     NoMoreHitsMeasures, PaceMeasures, StopReadMeasures, ReportMeasures, AddTimesMeasures DEF Step
<1>2. CASE Join
  BY <1>2 DEF Join, MeasureInv, Pids
<1>3. CASE UNCHANGED vars
  BY <1>3 DEF vars, MeasureInv, Pids
<1> QED BY <1>0, <1>1, <1>2, <1>3, ConfigureMeasures, CreateMeasures, TickMeasures DEF Next, Ended, GoOn

LEMMA AlwaysMeasured == Spec => [](Sound /\ MeasureInv)
<1>1. Init => MeasureInv
  BY DEF Init, NoOptions, Pids, MeasureInv
<1>2. Sound /\ MeasureInv /\ [Next]_vars => Sound' /\ MeasureInv'
  BY NextSound, NextMeasures
<1> QED BY <1>1, <1>2, InitSound, PTL DEF Spec

----------------------------------------------------------------------------

(* Until a worker stops counting, each of its hits is in one second of the *)
(* monitor's list or in the second under way, and the seconds of the list  *)
(* reach from where the monitor was started, later than the controller, to *)
(* the second under way without a gap.                                     *)
THEOREM EventsCounted == Spec => []NoEventUncounted
<1>1. Sound /\ MeasureInv => NoEventUncounted
  <2> SUFFICES ASSUME Sound, MeasureInv, NEW w \in Pids, Busy(w)
               PROVE  LET m == worker[w].monitor
                      IN /\ Total(m.list) + m.count = worker[w].control.count
                         /\ m.clockPrev = worker[w].control.clockPrev + worker[w].late
                                            + NANOSECOND * Len(m.list)
    BY DEF NoEventUncounted
  <2>1. Counts(worker[w].monitor, worker[w].control, worker[w].late)
    BY DEF MeasureInv, Measured, Paces, Busy, BusyPcs
  <2> QED BY <2>1 DEF Counts
<1> QED BY <1>1, AlwaysMeasured, PTL

LEMMA WholeIntervals ==
  ASSUME NEW a \in Nat \ {0}, NEW b \in Nat \ {0}
  PROVE  a % b = 0 => a = b * (a \div b)
OBVIOUS

LEMMA TwiceTheIntervals ==
  ASSUME NEW r \in Nat \ {0}, NEW g \in Nat \ {0}, NEW a \in Nat, a < r * g + r
  PROVE  a <= (2 * r) * g
<1>1. r * 1 <= r * g /\ r * 1 = r /\ (2 * r) * g = r * g + r * g /\ r * g \in Int
  BY Products
<1> QED BY <1>1

\* Whole intervals in some time are no more events than asked for in it, and
\* if the interval has lost a fraction not twice as many.
LEMMA QuotaAsked ==
  ASSUME NEW o, Asks(o), NEW x \in Nat, NEW e \in Nat, Gap(o) * e <= x
  PROVE  LET atMost == IF NANOSECOND % o.rate = 0 THEN o.rate ELSE 2 * o.rate
         IN NANOSECOND * e <= atMost * x
<1> DEFINE r == o.rate
           g == Gap(o)
           s == IF NANOSECOND % r = 0 THEN r ELSE 2 * r
<1>1. g \in Nat \ {0} /\ r \in Nat \ {0}
  BY GapFacts
<1>2. g = NANOSECOND \div r
  BY DEF Gap
<1> HIDE DEF r
<1>3. NANOSECOND % r = 0 => NANOSECOND = r * g
  BY <1>1, <1>2, WholeIntervals, Units
<1>4. NANOSECOND < r * g + r
  BY <1>1, <1>2, DivFacts, Units
<1> HIDE DEF g
<1>5. NANOSECOND <= s * g /\ s \in Nat /\ s * g \in Nat
  <2>1. CASE NANOSECOND % r = 0
    <3>1. s = r
      BY <2>1
    <3>2. r * g \in Nat
      BY <1>1
    <3> QED BY <3>1, <3>2, <2>1, <1>1, <1>3, Units
  <2>2. CASE NANOSECOND % r # 0
    <3>1. s = 2 * r /\ s \in Nat
      BY <2>2, <1>1
    <3>2. NANOSECOND <= (2 * r) * g
      BY <1>1, <1>4, TwiceTheIntervals, Units
    <3> HIDE DEF s
    <3>3. s * g \in Nat
      BY <3>1, <1>1
    <3> QED BY <3>1, <3>2, <3>3
  <2> QED BY <2>1, <2>2
<1> HIDE DEF s
<1>6. NANOSECOND * e <= (s * g) * e
  BY <1>5, Products, Units
<1>7. (s * g) * e = s * (g * e) /\ g * e \in Nat
  BY <1>1, <1>5
<1>8. s * (g * e) <= s * x
  <2>1. g * e <= x
    BY DEF g
  <2> QED BY <2>1, <1>5, <1>7, Products
<1>9. NANOSECOND * e \in Int /\ s * (g * e) \in Int /\ s * x \in Int
  BY <1>1, <1>5, <1>7, Units
<1>10. NANOSECOND * e <= s * x
  BY <1>6, <1>7, <1>8, <1>9
<1> QED BY <1>10 DEF s, r

(* No worker is faster than asked for, in any number of seconds of its     *)
(* list and the time its monitor was started late, however late it woke up *)
(* in between; and none sleeps past the moment from which it could have    *)
(* gone on.                                                                *)
THEOREM AsPaced == Spec => []PacedAsAsked
<1>1. Sound /\ MeasureInv => NoFasterThanAsked
  <2> SUFFICES ASSUME Sound, MeasureInv, Asks(options),
                      NEW w \in Pids, NEW n \in 1..Len(WholeSeconds(w))
               PROVE  LET atMost == IF NANOSECOND % options.rate = 0
                                    THEN options.rate ELSE 2 * options.rate
                      IN NANOSECOND * Total(SubSeq(WholeSeconds(w), 1, n))
                           <= NANOSECOND + atMost * (n * NANOSECOND + worker[w].late)
    BY DEF NoFasterThanAsked, Asks
  <2> DEFINE T == Total(SubSeq(WholeSeconds(w), 1, n))
             g == Gap(options)
             late == worker[w].late
             x == n * NANOSECOND + late
             s == IF NANOSECOND % options.rate = 0 THEN options.rate ELSE 2 * options.rate
  <2>1. WholeSeconds(w) = Whole(worker[w])
    BY DEF WholeSeconds, Whole, Busy, BusyPcs
  <2>2. Within(Whole(worker[w]), g, late) /\ late \in Nat
    BY DEF MeasureInv, Measured, Fits
  <2>3. T <= x \div g + 1
    BY <2>1, <2>2 DEF Within, Quota
  <2>4. n \in Nat /\ g \in Nat \ {0} /\ s \in Nat
    BY GapFacts
  <2>5. T \in Nat
    <3>1. Whole(worker[w]) \in Seq(Nat)
      BY WholeType DEF Sound
    <3> DEFINE l == Whole(worker[w])
    <3>2. n \in 1..Len(l) /\ T = Total(SubSeq(l, 1, n)) /\ l \in Seq(Nat)
      BY <3>1, <2>1
    <3> HIDE DEF l, T
    <3>3. n \in 0..Len(l)
      BY <3>2
    <3>4. SubSeq(l, 1, n) \in Seq(Nat)
      BY <3>2, <3>3, FirstEntries
    <3> QED BY <3>2, <3>4, TotalAppend
  <2>6. x \in Nat
    <3>1. n * NANOSECOND \in Nat
      BY <2>4, Units
    <3> QED BY <3>1, <2>2
  <2> HIDE DEF T, g, x, s, late
  <2> DEFINE e == x \div g
  <2>7. e \in Nat /\ g * e <= x
    BY <2>4, <2>6, DivFacts
  <2>8. T <= e + 1
    BY <2>3
  <2> HIDE DEF e
  <2>9. NANOSECOND * e <= s * x
    BY <2>6, <2>7, QuotaAsked DEF g, s
  <2>10. /\ NANOSECOND * T <= NANOSECOND * (e + 1)
         /\ NANOSECOND * (e + 1) = NANOSECOND + NANOSECOND * e
         /\ NANOSECOND * T \in Int /\ NANOSECOND * e \in Int /\ s * x \in Int
    <3>1. e + 1 \in Nat
      BY <2>7
    <3>2. NANOSECOND * T <= NANOSECOND * (e + 1)
      BY <2>5, <2>8, <3>1, Products, Units
    <3>3. /\ NANOSECOND * (e + 1) = NANOSECOND + NANOSECOND * e
          /\ NANOSECOND * T \in Int /\ NANOSECOND * e \in Int /\ s * x \in Int
      BY <2>4, <2>5, <2>6, <2>7, Units
    <3> QED BY <3>2, <3>3
  <2>11. NANOSECOND * T <= NANOSECOND + s * x
    BY <2>9, <2>10, Units
  <2> QED BY <2>11 DEF T, s, x, late
<1>2. Sound /\ MeasureInv =>
        \A w \in Pids : At(w, "pace") /\ now < worker[w].wakeAt =>
          IF options.mode = "HIT_BASED"
          THEN VirtualTime(worker[w].control, now) <= worker[w].hitTime
          ELSE MustWait(worker[w].control, worker[w].hitTime, now)
  <2> SUFFICES ASSUME Sound, MeasureInv, NEW w \in Pids, At(w, "pace"), now < worker[w].wakeAt
               PROVE  IF options.mode = "HIT_BASED"
                      THEN VirtualTime(worker[w].control, now) <= worker[w].hitTime
                      ELSE MustWait(worker[w].control, worker[w].hitTime, now)
    OBVIOUS
  <2> DEFINE me == worker[w]
             c == me.control
             o == options
             t == now
  <2>1. TInv /\ me.pc = "pace"
    BY DEF Sound, At
  <2>2. c \in Control /\ t \in Nat /\ me.hitTime \in Nat /\ me.wakeAt \in Nat
        /\ RateFits(c.mode, c.rate)
    BY <2>1, Before DEF WorkerType
  <2>3. c.mode = o.mode /\ c.clockPrev <= t /\ Sleeps(me, t, o)
    BY <2>1 DEF MeasureInv, Measured, Paces, Starts, BusyPcs
  <2>4. t < me.wakeAt
    OBVIOUS
  <2>5. c.clockPrev \in Nat /\ c.count \in Nat
    BY <2>2 DEF Control
  <2>6. IF o.mode = "HIT_BASED"
        THEN me.wakeAt \in Nat \ {0} /\ VirtualTime(c, me.wakeAt - 1) <= me.hitTime
        ELSE c.rate # 0 /\ me.wakeAt <= c.clockPrev + Interval(c) * c.count
    BY <2>1, <2>2, <2>3, <2>4 DEF Sleeps
  <2> DEFINE W == me.wakeAt
             h == me.hitTime
  <2> HIDE DEF me, c, o, t, W, h
  <2>7. CASE o.mode = "HIT_BASED"
    <3> DEFINE s == W - 1
    <3>1. s \in Nat /\ t <= s /\ VirtualTime(c, s) <= h
      BY <2>2, <2>4, <2>6, <2>7 DEF W, h
    <3> HIDE DEF s
    <3>2. c.rate \in ReplayRates
      BY <2>2, <2>3, <2>7 DEF RateFits
    <3>3. VirtualTime(c, t) <= VirtualTime(c, s) /\ VirtualTime(c, s) \in Int
      BY <3>1, <3>2, <2>2, LaterVirtualTime
    <3>4. VirtualTime(c, t) \in Int
      BY <3>2, <2>2, LaterVirtualTime
    <3>5. h \in Nat
      BY <2>2 DEF h
    <3>6. VirtualTime(c, t) <= h
      BY <3>1, <3>3, <3>4, <3>5
    <3> QED BY <3>6, <2>7 DEF me, c, o, t, h
  <2>8. CASE o.mode # "HIT_BASED"
    <3>1. c.rate \in Nat \ {0} /\ W <= c.clockPrev + Interval(c) * c.count
      BY <2>2, <2>3, <2>6, <2>8 DEF RateFits, W
    <3> DEFINE x == Interval(c) * c.count
    <3>2. x \in Nat
      <4>1. Interval(c) \in Nat
        BY <3>1, Units, DivFacts DEF Interval
      <4> QED BY <4>1, <2>5
    <3>3. Minus(t, c.clockPrev) = t - c.clockPrev
      BY <2>2, <2>3, <2>5 DEF Minus
    <3>4. Missing(c, t) = Minus(x, t - c.clockPrev)
      BY <3>3 DEF Missing
    <3> HIDE DEF x
    <3>5. W \in Nat /\ t < W /\ W <= c.clockPrev + x
      BY <3>1, <2>2, <2>4 DEF W, x
    <3>6. Missing(c, t) > 0
      BY <3>2, <3>4, <3>5, <2>2, <2>3, <2>5 DEF Minus
    <3>7. MustWait(c, h, t)
      BY <3>1, <3>6, <2>3, <2>8 DEF MustWait
    <3> QED BY <3>7, <2>8 DEF me, c, o, t, h
  <2> QED BY <2>7, <2>8
<1>3. Sound /\ MeasureInv => PacedAsAsked
  BY <1>1, <1>2 DEF PacedAsAsked
<1> QED BY <1>3, AlwaysMeasured, PTL


----------------------------------------------------------------------------
(* Sums over workers *)

LEMMA TotalZero ==
  ASSUME NEW a \in Seq(Nat), \A i \in 1..Len(a) : a[i] = 0
  PROVE  Total(a) = 0
<1>1. PICK P : PartialSums(a, P) /\ Total(a) = P[Len(a)]
  BY TotalIsSum
<1> DEFINE L == Len(a)
           S == {n \in 0..L : P[n] = 0}
<1>2. L \in Nat
  BY LenProperties
<1>3. 0 \in S
  BY <1>1, <1>2 DEF PartialSums
<1>4. ASSUME NEW n \in 1..L, n - 1 \in S PROVE n \in S
  BY <1>1, <1>2, <1>4 DEF PartialSums
<1>5. L \in S
  <2>1. 0..L \subseteq S
    <3> HIDE DEF S, L
    <3> QED BY <1>2, <1>3, <1>4, UpTo
  <2> QED BY <1>2, <2>1
<1> QED BY <1>1, <1>5

\* One entry changes.
LEMMA ChangeCarried ==
  ASSUME NEW p \in Nat, NEW q \in Nat, NEW d \in Nat, NEW e \in Nat, NEW c \in Nat, p + d = q + e
  PROVE  (p + c) + d = (q + c) + e
OBVIOUS

LEMMA TotalChanged ==
  ASSUME NEW a \in Seq(Nat), NEW b \in Seq(Nat), Len(a) = Len(b), NEW x \in 1..Len(a),
         \A y \in 1..Len(a) : y # x => a[y] = b[y]
  PROVE  Total(a) + b[x] = Total(b) + a[x]
<1>1. PICK P : PartialSums(a, P) /\ Total(a) = P[Len(a)]
  BY TotalIsSum
<1>2. PICK Q : PartialSums(b, Q) /\ Total(b) = Q[Len(b)]
  BY TotalIsSum
<1> DEFINE L == Len(a)
           S == {n \in 0..L : IF n < x THEN P[n] = Q[n] ELSE P[n] + b[x] = Q[n] + a[x]}
<1>3. L \in Nat /\ x \in 1..L /\ a[x] \in Nat /\ b[x] \in Nat
  BY LenProperties, ElementOfSeq
<1>4. /\ P \in [0..L -> Nat] /\ P[0] = 0 /\ \A n \in 1..L : P[n] = P[n - 1] + a[n]
      /\ Q \in [0..L -> Nat] /\ Q[0] = 0 /\ \A n \in 1..L : Q[n] = Q[n - 1] + b[n]
  BY <1>1, <1>2 DEF PartialSums
<1>5. \A n \in 1..L : a[n] \in Nat /\ b[n] \in Nat /\ (n # x => a[n] = b[n])
  BY ElementOfSeq
<1> HIDE DEF L
<1>6. 0 \in S
  BY <1>3, <1>4
<1>7. ASSUME NEW n \in 1..L, n - 1 \in S PROVE n \in S
  <2>1. n - 1 \in 0..L /\ n \in 0..L /\ n \in Nat /\ x \in Nat
    BY <1>3
  <2>2. P[n] = P[n - 1] + a[n] /\ Q[n] = Q[n - 1] + b[n] /\ P[n - 1] \in Nat /\ Q[n - 1] \in Nat
    BY <1>4, <2>1
  <2>3. CASE n < x
    <3>1. P[n - 1] = Q[n - 1] /\ a[n] = b[n]
      BY <1>5, <1>7, <2>1, <2>3
    <3> QED BY <2>1, <2>2, <2>3, <3>1
  <2>4. CASE n = x
    <3>1. P[n - 1] = Q[n - 1]
      BY <1>7, <2>1, <2>4
    <3> QED BY <2>1, <2>2, <2>4, <3>1, <1>3
  <2>5. CASE n > x
    <3>1. P[n - 1] + b[x] = Q[n - 1] + a[x] /\ a[n] = b[n] /\ a[n] \in Nat
      BY <1>5, <1>7, <2>1, <2>5
    <3>2. (P[n - 1] + a[n]) + b[x] = (Q[n - 1] + a[n]) + a[x]
      <4> DEFINE p == P[n - 1]
                 q == Q[n - 1]
                 c == a[n]
                 d == b[x]
                 e == a[x]
      <4>1. p \in Nat /\ q \in Nat /\ c \in Nat /\ d \in Nat /\ e \in Nat /\ p + d = q + e
        BY <2>2, <3>1, <1>3
      <4> HIDE DEF p, q, c, d, e
      <4>2. (p + c) + d = (q + c) + e
        BY <4>1, ChangeCarried
      <4> QED BY <4>2 DEF p, q, c, d, e
    <3>3. P[n] + b[x] = Q[n] + a[x]
      BY <2>2, <3>1, <3>2
    <3> QED BY <2>1, <2>5, <3>3
  <2> QED BY <2>1, <2>3, <2>4, <2>5
<1>8. L \in S
  <2>1. 0..L \subseteq S
    <3> HIDE DEF S
    <3> QED BY <1>3, <1>6, <1>7, UpTo
  <2> QED BY <1>3, <2>1
<1>9. P[L] + b[x] = Q[L] + a[x]
  BY <1>3, <1>8
<1> QED BY <1>1, <1>2, <1>9 DEF L

\* The entries of v at the indices in s, zeros elsewhere.
Mask(v, n, s) == [i \in 1..n |-> IF i \in s THEN v[i] ELSE 0]

LEMMA MaskFacts ==
  ASSUME NEW n \in Nat, NEW v \in [1..n -> Nat], NEW s
  PROVE  /\ Mask(v, n, s) \in Seq(Nat) /\ Len(Mask(v, n, s)) = n
         /\ Total(Mask(v, n, s)) \in Nat
         /\ \A i \in 1..n : Mask(v, n, s)[i] = IF i \in s THEN v[i] ELSE 0
<1> DEFINE m == Mask(v, n, s)
<1>1. m \in [1..n -> Nat] /\ \A i \in 1..n : m[i] = IF i \in s THEN v[i] ELSE 0
  BY DEF Mask
<1> HIDE DEF m
<1>2. m \in Seq(Nat)
  BY <1>1
<1>3. Len(m) = n
  BY <1>1, <1>2, LenProperties
<1>4. Total(m) \in Nat
  BY <1>2, TotalAppend
<1> QED BY <1>1, <1>2, <1>3, <1>4 DEF m

LEMMA MaskSteps ==
  ASSUME NEW n \in Nat, NEW v \in [1..n -> Nat], NEW s \in SUBSET (1..n)
  PROVE  /\ s = {} => Total(Mask(v, n, s)) = 0
         /\ \A x \in s : Total(Mask(v, n, s)) = v[x] + Total(Mask(v, n, s \ {x}))
<1> DEFINE a == Mask(v, n, s)
<1>1. /\ a \in Seq(Nat) /\ Len(a) = n /\ Total(a) \in Nat
      /\ \A i \in 1..n : a[i] = IF i \in s THEN v[i] ELSE 0
  BY MaskFacts
<1> HIDE DEF a
<1>2. ASSUME s = {} PROVE Total(a) = 0
  <2>1. \A i \in 1..Len(a) : a[i] = 0
    BY <1>1, <1>2
  <2> QED BY <1>1, <2>1, TotalZero
<1>3. ASSUME NEW x \in s PROVE Total(a) = v[x] + Total(Mask(v, n, s \ {x}))
  <2> DEFINE t == s \ {x}
             b == Mask(v, n, t)
  <2>1. /\ b \in Seq(Nat) /\ Len(b) = n /\ Total(b) \in Nat
        /\ \A i \in 1..n : b[i] = IF i \in t THEN v[i] ELSE 0
    BY MaskFacts
  <2> HIDE DEF b
  <2>2. x \in 1..n /\ v[x] \in Nat
    OBVIOUS
  <2>3. a[x] = v[x] /\ b[x] = 0 /\ \A y \in 1..n : y # x => a[y] = b[y]
    BY <1>1, <2>1, <2>2
  <2>4. Total(a) + b[x] = Total(b) + a[x]
    <3>1. Len(a) = Len(b) /\ x \in 1..Len(a) /\ \A y \in 1..Len(a) : y # x => a[y] = b[y]
      BY <1>1, <2>1, <2>2, <2>3
    <3>2. a \in Seq(Nat) /\ b \in Seq(Nat)
      BY <1>1, <2>1
    <3> HIDE DEF t
    <3> QED BY <3>1, <3>2, TotalChanged
  <2>5. Total(a) = v[x] + Total(b)
    BY <1>1, <2>1, <2>2, <2>3, <2>4
  <2> QED BY <2>5 DEF b
<1> QED BY <1>2, <1>3 DEF a

\* A function that sums over the subsets of S, one chosen element after the other.
Chosen(s) == CHOOSE x \in s : TRUE

SumsChosen(f, v, S) ==
  \A s \in SUBSET S : f[s] = IF s = {} THEN 0 ELSE v[Chosen(s)] + f[s \ {Chosen(s)}]

LEMMA ChosenSum ==
  ASSUME NEW n \in Nat, NEW v \in [1..n -> Nat], NEW S \in SUBSET (1..n), NEW f, SumsChosen(f, v, S)
  PROVE  f[S] = Total(Mask(v, n, S))
<1> DEFINE Good(s) == f[s] = Total(Mask(v, n, s))
           K == {k \in 0..n : \A s \in SUBSET S : Cardinality(s) = k => Good(s)}
<1>1. \A s \in SUBSET S : IsFiniteSet(s) /\ Cardinality(s) \in 0..n
  <2> SUFFICES ASSUME NEW s \in SUBSET S PROVE IsFiniteSet(s) /\ Cardinality(s) \in 0..n
    OBVIOUS
  <2> DEFINE D == 1..n
  <2>1. IsFiniteSet(D) /\ Cardinality(D) = n
    BY FS_Interval
  <2>2. s \in SUBSET D
    OBVIOUS
  <2> HIDE DEF D
  <2>3. IsFiniteSet(s) /\ Cardinality(s) <= n
    BY <2>1, <2>2, FS_Subset
  <2>4. Cardinality(s) \in Nat
    BY <2>3, FS_CardinalityType
  <2> QED BY <2>3, <2>4
<1>2. 0 \in K
  <2> SUFFICES ASSUME NEW s \in SUBSET S, Cardinality(s) = 0 PROVE Good(s)
    OBVIOUS
  <2>1. s = {}
    BY <1>1, FS_EmptySet
  <2>2. f[s] = 0
    BY <2>1 DEF SumsChosen
  <2>3. Total(Mask(v, n, s)) = 0
    BY <2>1, MaskSteps
  <2> QED BY <2>2, <2>3
<1>3. ASSUME NEW k \in 1..n, k - 1 \in K PROVE k \in K
  <2> SUFFICES ASSUME NEW s \in SUBSET S, Cardinality(s) = k PROVE Good(s)
    OBVIOUS
  <2> DEFINE x == Chosen(s)
             t == s \ {x}
  <2>1. s # {}
    BY FS_EmptySet
  <2>2. x \in s
    BY <2>1 DEF Chosen
  <2>3. t \in SUBSET S /\ s \in SUBSET (1..n)
    OBVIOUS
  <2>4. f[s] = v[x] + f[t]
    BY <2>1 DEF SumsChosen
  <2> HIDE DEF x
  <2>5. Cardinality(t) = k - 1
    BY <1>1, <2>2, FS_RemoveElement
  <2> HIDE DEF t
  <2>6. f[t] = Total(Mask(v, n, t))
    BY <1>3, <2>3, <2>5
  <2>7. Total(Mask(v, n, s)) = v[x] + Total(Mask(v, n, t))
    BY <2>2, <2>3, MaskSteps DEF t
  <2> QED BY <2>4, <2>6, <2>7
<1>4. 0..n \subseteq K
  <2> HIDE DEF K
  <2> QED BY <1>2, <1>3, UpTo
<1>5. Cardinality(S) \in K
  BY <1>1, <1>4
<1> QED BY <1>5

LEMMA MaskedSums ==
  ASSUME NEW n \in Nat, NEW v \in [1..n -> Nat], NEW S \in SUBSET (1..n)
  PROVE  SumsChosen([s \in SUBSET S |-> Total(Mask(v, n, s))], v, S)
<1> DEFINE h == [s \in SUBSET S |-> Total(Mask(v, n, s))]
<1> SUFFICES ASSUME NEW s \in SUBSET S
             PROVE  h[s] = IF s = {} THEN 0 ELSE v[Chosen(s)] + h[s \ {Chosen(s)}]
  BY DEF SumsChosen
<1>1. s \in SUBSET (1..n) /\ h[s] = Total(Mask(v, n, s))
  OBVIOUS
<1>2. CASE s = {}
  BY <1>1, <1>2, MaskSteps
<1>3. CASE s # {}
  <2> DEFINE x == Chosen(s)
  <2>1. x \in s
    BY <1>3 DEF Chosen
  <2> HIDE DEF x
  <2>2. h[s \ {x}] = Total(Mask(v, n, s \ {x}))
    OBVIOUS
  <2>3. Total(Mask(v, n, s)) = v[x] + Total(Mask(v, n, s \ {x}))
    BY <1>1, <2>1, MaskSteps
  <2> HIDE DEF h
  <2> QED BY <1>1, <1>3, <2>2, <2>3 DEF x
<1> QED BY <1>2, <1>3

----------------------------------------------------------------------------
(* The totals are the sums of what the workers have added so far *)

\* What a worker has added to second i of the rates, and of the times.
RateShare(me, i) == IF me.pc \in {"reporting", "done"} THEN EntryOf(me.monitor.list, i) ELSE 0

TimeShare(me, i) ==
  IF me.pc = "done" \/ (me.pc = "reporting" /\ i <= me.index)
  THEN EntryOf(me.monitor.list, i) * EntryOf(me.timer.list, i) ELSE 0

Rates(all, n, i) == [w \in 1..n |-> RateShare(all[w], i)]
Times(all, n, i) == [w \in 1..n |-> TimeShare(all[w], i)]

Sums ==
  main.pc # "returned" =>
    \A i \in Nat \ {0} :
      /\ EntryOf(total.rate, i) = Total(Rates(worker, options.threads, i))
      /\ EntryOf(total.read, i) = Total(Times(worker, options.threads, i))

\* Who reports has every rate in the totals, and a time for each round so far.
Entered ==
  \A w \in Pids :
    /\ worker[w].pc \in {"reporting", "done"} => Len(worker[w].monitor.list) <= Len(total.rate)
    /\ worker[w].pc = "reporting" => worker[w].index <= Len(worker[w].timer.list)

SumsInv == Sums /\ Entered

LEMMA Shares ==
  ASSUME NEW me \in WorkerType, NEW i \in Nat \ {0}
  PROVE  RateShare(me, i) \in Nat /\ TimeShare(me, i) \in Nat
<1> DEFINE a == EntryOf(me.monitor.list, i)
           b == EntryOf(me.timer.list, i)
<1>1. me.monitor.list \in Seq(Nat) /\ me.timer.list \in Seq(Nat)
  BY DEF WorkerType, Monitor, Timer
<1>2. a \in Nat
  BY <1>1, EntryFacts
<1>3. b \in Nat
  BY <1>1, EntryFacts
<1>4. RateShare(me, i) \in Nat
  BY <1>2 DEF RateShare
<1>5. TimeShare(me, i) = IF me.pc = "done" \/ (me.pc = "reporting" /\ i <= me.index) THEN a * b ELSE 0
  BY DEF TimeShare
<1> HIDE DEF a, b
<1>6. a * b \in Nat
  <2>1. ASSUME NEW x \in Nat, NEW y \in Nat PROVE x * y \in Nat
    OBVIOUS
  <2> QED BY <2>1, <1>2, <1>3
<1> QED BY <1>4, <1>5, <1>6

LEMMA SharesListed ==
  ASSUME NEW n \in Nat, NEW all \in [1..n -> WorkerType], NEW i \in Nat \ {0}
  PROVE  /\ Rates(all, n, i) \in [1..n -> Nat] /\ Rates(all, n, i) \in Seq(Nat)
         /\ Len(Rates(all, n, i)) = n /\ Total(Rates(all, n, i)) \in Nat
         /\ Times(all, n, i) \in [1..n -> Nat] /\ Times(all, n, i) \in Seq(Nat)
         /\ Len(Times(all, n, i)) = n /\ Total(Times(all, n, i)) \in Nat
         /\ \A w \in 1..n : /\ Rates(all, n, i)[w] = RateShare(all[w], i)
                            /\ Times(all, n, i)[w] = TimeShare(all[w], i)
<1> DEFINE r == Rates(all, n, i)
           t == Times(all, n, i)
<1>1. \A w \in 1..n : RateShare(all[w], i) \in Nat /\ TimeShare(all[w], i) \in Nat
  BY Shares
<1>2. /\ r \in [1..n -> Nat] /\ t \in [1..n -> Nat]
      /\ \A w \in 1..n : r[w] = RateShare(all[w], i) /\ t[w] = TimeShare(all[w], i)
  BY <1>1 DEF Rates, Times
<1> HIDE DEF r, t
<1>3. r \in Seq(Nat) /\ t \in Seq(Nat)
  BY <1>2
<1>4. Len(r) = n /\ Len(t) = n
  BY <1>2, <1>3, LenProperties
<1>5. Total(r) \in Nat /\ Total(t) \in Nat
  BY <1>3, TotalAppend
<1> QED BY <1>2, <1>3, <1>4, <1>5 DEF r, t

\* A worker adds to the totals what its share becomes more.
Adds(w, me) ==
  \A i \in Nat \ {0} :
    /\ EntryOf(total.rate', i) + RateShare(worker[w], i)
         = EntryOf(total.rate, i) + RateShare(me, i)
    /\ EntryOf(total.read', i) + TimeShare(worker[w], i)
         = EntryOf(total.read, i) + TimeShare(me, i)

LEMMA WorkerKeepsSums ==
  ASSUME TInv, Sums, NEW w \in Pids, NEW me \in WorkerType, Moves(w, me),
         UNCHANGED options, main.pc = "creating", TInv', Adds(w, me)
  PROVE  Sums'
<1>1. /\ worker'[w] = me /\ Pids' = Pids
      /\ \A v \in Pids : v # w => worker'[v] = worker[v]
  BY MovedWorker DEF TInv, Pids
<1> DEFINE n == options.threads
           next == worker'
<1>2. SUFFICES ASSUME NEW i \in Nat \ {0}
               PROVE  /\ EntryOf(total'.rate, i) = Total(Rates(next, n, i))
                      /\ EntryOf(total'.read, i) = Total(Times(next, n, i))
  BY DEF Sums
<1>3. n \in Nat /\ worker \in [1..n -> WorkerType] /\ next \in [1..n -> WorkerType] /\ Pids = 1..n
  BY <1>1 DEF TInv, TypeInv, OptionsOK, Pids
<1> DEFINE r == Rates(worker, n, i)
           s == Rates(next, n, i)
           t == Times(worker, n, i)
           u == Times(next, n, i)
<1>4. EntryOf(total.rate, i) = Total(r) /\ EntryOf(total.read, i) = Total(t)
  BY DEF Sums
<1>5. next[w] = me /\ \A v \in 1..n : v # w => next[v] = worker[v]
  BY <1>1, <1>3
<1> HIDE DEF next, n
<1>6. /\ r \in [1..n -> Nat] /\ r \in Seq(Nat) /\ Len(r) = n /\ Total(r) \in Nat
      /\ t \in [1..n -> Nat] /\ t \in Seq(Nat) /\ Len(t) = n /\ Total(t) \in Nat
      /\ \A v \in 1..n : r[v] = RateShare(worker[v], i) /\ t[v] = TimeShare(worker[v], i)
  BY <1>3, SharesListed
<1>7. /\ s \in [1..n -> Nat] /\ s \in Seq(Nat) /\ Len(s) = n /\ Total(s) \in Nat
      /\ u \in [1..n -> Nat] /\ u \in Seq(Nat) /\ Len(u) = n /\ Total(u) \in Nat
      /\ \A v \in 1..n : s[v] = RateShare(next[v], i) /\ u[v] = TimeShare(next[v], i)
  BY <1>3, SharesListed
<1> HIDE DEF r, s, t, u
<1>8. w \in 1..n /\ \A v \in 1..n : v # w => s[v] = r[v] /\ u[v] = t[v]
  BY <1>3, <1>5, <1>6, <1>7
<1>9. Total(s) + r[w] = Total(r) + s[w]
  <2>1. Len(s) = Len(r) /\ w \in 1..Len(s) /\ \A v \in 1..Len(s) : v # w => s[v] = r[v]
    BY <1>6, <1>7, <1>8
  <2> QED BY <2>1, <1>6, <1>7, TotalChanged
<1>10. Total(u) + t[w] = Total(t) + u[w]
  <2>1. Len(u) = Len(t) /\ w \in 1..Len(u) /\ \A v \in 1..Len(u) : v # w => u[v] = t[v]
    BY <1>6, <1>7, <1>8
  <2> QED BY <2>1, <1>6, <1>7, TotalChanged
<1>11. /\ EntryOf(total'.rate, i) + r[w] = EntryOf(total.rate, i) + s[w]
       /\ EntryOf(total'.read, i) + t[w] = EntryOf(total.read, i) + u[w]
  BY <1>5, <1>6, <1>7, <1>8 DEF Adds
<1>12. EntryOf(total'.rate, i) \in Nat /\ EntryOf(total'.read, i) \in Nat
  <2>1. total'.rate \in Seq(Nat) /\ total'.read \in Seq(Nat)
    BY DEF TInv, TypeInv
  <2> QED BY <2>1, EntryFacts
<1>13. r[w] \in Nat /\ s[w] \in Nat /\ t[w] \in Nat /\ u[w] \in Nat
  BY <1>6, <1>7, <1>8
<1> DEFINE x == EntryOf(total'.rate, i)
           y == EntryOf(total'.read, i)
           p == EntryOf(total.rate, i)
           q == EntryOf(total.read, i)
<1>14. /\ x \in Nat /\ y \in Nat /\ p = Total(r) /\ q = Total(t)
       /\ x + r[w] = p + s[w] /\ y + t[w] = q + u[w]
  BY <1>4, <1>11, <1>12
<1> HIDE DEF x, y, p, q
<1>15. p \in Nat /\ q \in Nat
  BY <1>6, <1>14
<1>16. x = Total(s)
  <2> DEFINE c == Total(s)
             d == Total(r)
             e == r[w]
             f == s[w]
  <2>1. c \in Nat /\ d \in Nat /\ e \in Nat /\ f \in Nat /\ x \in Nat /\ p \in Nat
    BY <1>6, <1>7, <1>13, <1>14, <1>15
  <2>2. p = d /\ x + e = p + f /\ c + e = d + f
    BY <1>14, <1>9
  <2> HIDE DEF c, d, e, f
  <2>3. x = c
    BY <2>1, <2>2
  <2> QED BY <2>3 DEF c
<1>17. y = Total(u)
  <2> DEFINE c == Total(u)
             d == Total(t)
             e == t[w]
             f == u[w]
  <2>1. c \in Nat /\ d \in Nat /\ e \in Nat /\ f \in Nat /\ y \in Nat /\ q \in Nat
    BY <1>6, <1>7, <1>13, <1>14, <1>15
  <2>2. q = d /\ y + e = q + f /\ c + e = d + f
    BY <1>14, <1>10
  <2> HIDE DEF c, d, e, f
  <2>3. y = c
    BY <2>1, <2>2
  <2> QED BY <2>3 DEF c
<1> QED BY <1>16, <1>17 DEF s, u, x, y

\* What a step keeps in order to leave every rate and time entered.
Enters(me) ==
  /\ Len(total.rate) <= Len(total.rate')
  /\ me.pc \in {"reporting", "done"} => Len(me.monitor.list) <= Len(total.rate')
  /\ me.pc = "reporting" => me.index <= Len(me.timer.list)

LEMMA WorkerKeepsEntered ==
  ASSUME TInv, Entered, NEW w \in Pids, NEW me \in WorkerType, Moves(w, me),
         UNCHANGED options, TInv', Enters(me)
  PROVE  Entered'
<1>1. /\ worker'[w] = me /\ Pids' = Pids
      /\ \A v \in Pids : v # w => worker'[v] = worker[v]
  BY MovedWorker DEF TInv, Pids
<1>2. SUFFICES ASSUME NEW v \in Pids
               PROVE  /\ worker'[v].pc \in {"reporting", "done"} =>
                           Len(worker'[v].monitor.list) <= Len(total'.rate)
                      /\ worker'[v].pc = "reporting" =>
                           worker'[v].index <= Len(worker'[v].timer.list)
  BY <1>1 DEF Entered
<1>3. CASE v = w
  BY <1>1, <1>3 DEF Enters
<1>4. CASE v # w
  <2>1. worker'[v] = worker[v]
    BY <1>1, <1>4
  <2>2. /\ Len(total.rate) \in Nat /\ Len(total'.rate) \in Nat
        /\ Len(worker[v].monitor.list) \in Nat
    <3>1. worker[v].monitor.list \in Seq(Nat)
      BY Before DEF Monitor
    <3>2. total.rate \in Seq(Nat) /\ total'.rate \in Seq(Nat)
      BY DEF TInv, TypeInv
    <3> QED BY <3>1, <3>2, LenProperties
  <2>3. /\ worker[v].pc \in {"reporting", "done"} =>
             Len(worker[v].monitor.list) <= Len(total.rate)
        /\ worker[v].pc = "reporting" => worker[v].index <= Len(worker[v].timer.list)
    BY DEF Entered
  <2> QED BY <2>1, <2>2, <2>3 DEF Enters
<1> QED BY <1>3, <1>4

LEMMA EntriesNat ==
  ASSUME TInv, NEW i \in Nat \ {0}
  PROVE  EntryOf(total.rate, i) \in Nat /\ EntryOf(total.read, i) \in Nat
<1>1. total.rate \in Seq(Nat) /\ total.read \in Seq(Nat)
  BY DEF TInv, TypeInv
<1> QED BY <1>1, EntryFacts

\* A step of a worker that has nothing to add before or after it.
LEMMA QuietKeepsSums ==
  ASSUME TInv, SumsInv, NEW w \in Pids, NEW me \in WorkerType, Moves(w, me),
         UNCHANGED <<options, total>>, main.pc = "creating", TInv',
         worker[w].pc \notin {"reporting", "done"}, me.pc \notin {"reporting", "done"}
  PROVE  SumsInv'
<1>1. Adds(w, me)
  BY EntriesNat DEF Adds, RateShare, TimeShare
<1>2. Enters(me)
  <2>1. Len(total.rate) \in Nat
    BY TotalsType
  <2> QED BY <2>1 DEF Enters
<1> QED BY <1>1, <1>2, WorkerKeepsSums, WorkerKeepsEntered DEF SumsInv

LEMMA ReportSums ==
  ASSUME TInv, SumsInv, NEW w \in Pids, Report(w), TInv'
  PROVE  SumsInv'
<1> DEFINE list == worker[w].monitor.list
           rate == Added(total.rate, list)
<1>1. NsPerSecond(worker[w].timer, now) \in Timer
  BY Before, AskedTimer
<1>2. PICK me \in WorkerType :
         /\ Moves(w, me) /\ me.pc = "reporting" /\ me.index = worker[w].index
         /\ me.monitor = worker[w].monitor
  BY <1>1, ReportMoves DEF TInv
<1>3. /\ worker[w].pc = "stopped" /\ total' = [total EXCEPT !.rate = rate]
      /\ UNCHANGED <<options, main>> /\ main.pc = "creating"
  BY DEF Report, Running, At
<1>4. me.index = 0
  BY <1>2, <1>3, Before
<1>5. list \in Seq(Nat) /\ total.rate \in Seq(Nat)
  BY Before, TotalsType DEF Monitor
<1>6. /\ rate \in Seq(Nat)
      /\ Len(rate) = IF Len(total.rate) > Len(list) THEN Len(total.rate) ELSE Len(list)
      /\ \A i \in 1..Len(rate) : rate[i] = EntryOf(total.rate, i) + EntryOf(list, i)
  BY <1>5, AddedFacts
<1>7. total'.rate = rate /\ total'.read = total.read
  BY <1>3 DEF TInv, TypeInv
<1>8. Len(list) \in Nat /\ Len(total.rate) \in Nat
  BY <1>5, LenProperties
<1> HIDE DEF rate
<1>9. \A i \in Nat \ {0} : EntryOf(rate, i) = EntryOf(total.rate, i) + EntryOf(list, i)
  <2> SUFFICES ASSUME NEW i \in Nat \ {0}
               PROVE  EntryOf(rate, i) = EntryOf(total.rate, i) + EntryOf(list, i)
    OBVIOUS
  <2>1. CASE i <= Len(rate)
    BY <2>1, <1>6, <1>8 DEF EntryOf
  <2>2. CASE ~(i <= Len(rate))
    <3>1. ~(i <= Len(total.rate)) /\ ~(i <= Len(list))
      BY <2>2, <1>6, <1>8
    <3> QED BY <2>2, <3>1 DEF EntryOf
  <2> QED BY <2>1, <2>2
<1>10. Adds(w, me)
  <2> SUFFICES ASSUME NEW i \in Nat \ {0}
               PROVE  /\ EntryOf(rate, i) + RateShare(worker[w], i)
                           = EntryOf(total.rate, i) + RateShare(me, i)
                      /\ EntryOf(total.read, i) + TimeShare(worker[w], i)
                           = EntryOf(total.read, i) + TimeShare(me, i)
    BY <1>7 DEF Adds
  <2>1. RateShare(worker[w], i) = 0 /\ RateShare(me, i) = EntryOf(list, i)
    BY <1>2, <1>3 DEF RateShare
  <2>2. TimeShare(worker[w], i) = 0 /\ TimeShare(me, i) = 0
    BY <1>2, <1>3, <1>4 DEF TimeShare
  <2>3. EntryOf(list, i) \in Nat /\ EntryOf(total.rate, i) \in Nat
    BY <1>5, EntryFacts
  <2> QED BY <1>9, <2>1, <2>2, <2>3
<1>11. Enters(me)
  <2>1. Len(me.timer.list) \in Nat
    <3>1. me.timer.list \in Seq(Nat)
      BY DEF WorkerType, Timer
    <3> QED BY <3>1, LenProperties
  <2>2. Len(total.rate) <= Len(rate) /\ Len(list) <= Len(rate)
    BY <1>6, <1>8
  <2> QED BY <2>1, <2>2, <1>2, <1>4, <1>7 DEF Enters
<1> QED BY <1>2, <1>3, <1>10, <1>11, WorkerKeepsSums, WorkerKeepsEntered DEF SumsInv

\* What a round leaves of the entries that were multiplied before it.
LEMMA SharesOfRounds ==
  ASSUME NEW old \in WorkerType, NEW me \in WorkerType, NEW k \in Nat \ {0},
         old.pc = "reporting", me.pc = "reporting", old.index + 1 = k, me.index = k,
         me.monitor = old.monitor, old.index <= Len(old.timer.list),
         \A i \in 1..Len(old.timer.list) : me.timer.list[i] = old.timer.list[i],
         Len(old.timer.list) <= Len(me.timer.list),
         NEW i \in Nat \ {0}
  PROVE  /\ RateShare(me, i) = RateShare(old, i)
         /\ i # k => TimeShare(me, i) = TimeShare(old, i)
         /\ TimeShare(old, k) = 0
         /\ TimeShare(me, k) = EntryOf(old.monitor.list, k) * EntryOf(me.timer.list, k)
<1> DEFINE l == old.monitor.list
           t == old.timer.list
           u == me.timer.list
           j == old.index
<1>1. j \in Nat /\ k = j + 1 /\ Len(t) \in Nat /\ Len(u) \in Nat /\ Len(t) <= Len(u) /\ j <= Len(t)
  <2>1. t \in Seq(Nat) /\ u \in Seq(Nat) /\ j \in Nat
    BY DEF WorkerType, Timer
  <2> QED BY <2>1, LenProperties
<1>2. RateShare(me, i) = RateShare(old, i)
  BY DEF RateShare
<1>3. \A x \in Nat \ {0} :
        /\ TimeShare(old, x) = IF x <= j THEN EntryOf(l, x) * EntryOf(t, x) ELSE 0
        /\ TimeShare(me, x) = IF x <= k THEN EntryOf(l, x) * EntryOf(u, x) ELSE 0
  BY DEF TimeShare
<1>4. \A x \in 1..Len(t) : u[x] = t[x]
  OBVIOUS
<1> HIDE DEF l, t, u, j
<1>5. TimeShare(old, k) = 0 /\ TimeShare(me, k) = EntryOf(l, k) * EntryOf(u, k)
  BY <1>1, <1>3
<1>6. ASSUME i # k PROVE TimeShare(me, i) = TimeShare(old, i)
  <2>1. CASE i <= j
    <3>1. i \in 1..Len(t) /\ i <= Len(u) /\ i <= k
      BY <2>1, <1>1
    <3>2. EntryOf(u, i) = EntryOf(t, i)
      BY <3>1, <1>4 DEF EntryOf
    <3> QED BY <2>1, <3>1, <3>2, <1>3
  <2>2. CASE ~(i <= j)
    <3>1. ~(i <= k)
      BY <2>2, <1>1, <1>6
    <3> QED BY <2>2, <3>1, <1>3
  <2> QED BY <2>1, <2>2
<1> QED BY <1>2, <1>5, <1>6 DEF l, u

LEMMA GoneShares ==
  ASSUME NEW old \in WorkerType, NEW t \in Timer, old.pc = "reporting",
         Len(t.list) <= old.index, old.index <= Len(old.timer.list),
         \A i \in 1..Len(old.timer.list) : t.list[i] = old.timer.list[i],
         Len(old.timer.list) <= Len(t.list),
         NEW i \in Nat \ {0}
  PROVE  /\ RateShare(Gone(old, t), i) = RateShare(old, i)
         /\ TimeShare(Gone(old, t), i) = TimeShare(old, i)
<1> DEFINE me == Gone(old, t)
           l == old.monitor.list
           a == old.timer.list
           b == t.list
           j == old.index
<1>1. me \in WorkerType /\ me.pc = "done" /\ me.monitor.list = l
  BY GoneFacts
<1>2. me.timer.list = b
  <2>1. me.timer = [NewTimer(0) EXCEPT !.list = t.list]
    BY GoneFacts
  <2>2. NewTimer(0) \in Timer
    BY NewRecords
  <2> QED BY <2>1, <2>2 DEF Timer
<1>3. j \in Nat /\ Len(a) \in Nat /\ Len(b) = Len(a) /\ j = Len(a) /\ l \in Seq(Nat)
  <2>1. a \in Seq(Nat) /\ b \in Seq(Nat) /\ j \in Nat /\ l \in Seq(Nat)
    BY DEF WorkerType, Timer, Monitor
  <2>2. Len(b) <= j /\ j <= Len(a) /\ Len(a) <= Len(b)
    OBVIOUS
  <2> QED BY <2>1, <2>2, LenProperties
<1>4. \A x \in 1..Len(a) : b[x] = a[x]
  OBVIOUS
<1> HIDE DEF me
<1>5. RateShare(me, i) = RateShare(old, i)
  BY <1>1 DEF RateShare
<1>6. /\ TimeShare(old, i) = IF i <= j THEN EntryOf(l, i) * EntryOf(a, i) ELSE 0
      /\ TimeShare(me, i) = EntryOf(l, i) * EntryOf(b, i)
  <2>1. TimeShare(old, i) = IF i <= j THEN EntryOf(l, i) * EntryOf(a, i) ELSE 0
    BY DEF TimeShare
  <2>2. TimeShare(me, i) = EntryOf(me.monitor.list, i) * EntryOf(me.timer.list, i)
    <3>1. me.pc = "done"
      BY <1>1
    <3> QED BY <3>1 DEF TimeShare
  <2> QED BY <1>1, <1>2, <2>1, <2>2
<1> HIDE DEF l, a, b, j
<1>7. CASE i <= j
  <2>1. EntryOf(b, i) = EntryOf(a, i)
    BY <1>3, <1>4, <1>7 DEF EntryOf
  <2> QED BY <1>5, <1>6, <1>7, <2>1 DEF me
<1>8. CASE ~(i <= j)
  <2>1. EntryOf(b, i) = 0
    BY <1>3, <1>8 DEF EntryOf
  <2>2. EntryOf(l, i) * 0 = 0
    <3>1. EntryOf(l, i) \in Nat
      BY <1>3, EntryFacts
    <3> QED BY <3>1
  <2> QED BY <1>5, <1>6, <1>8, <2>1, <2>2 DEF me
<1> QED BY <1>7, <1>8

LEMMA AddTimesSums ==
  ASSUME Sound, SumsInv, NEW w \in Pids, AddTimes(w), TInv'
  PROVE  SumsInv'
<1>0. TInv
  BY DEF Sound
<1>1. Bounded(worker[w].timer, longest) /\ worker[w].timer \in Timer /\ now \in Nat /\ longest \in Nat
  BY <1>0, Before
<1>2. PICK me \in WorkerType :
        /\ Moves(w, me)
        /\ AddRound(w, me) \/ SkipRound(w, me) \/ LastRound(w, me)
  BY <1>0, <1>1, AddTimesMoves DEF TInv
<1>3. /\ worker[w].pc = "reporting" /\ UNCHANGED <<options, main>> /\ main.pc = "creating"
  BY DEF AddTimes, Running, At
<1> DEFINE old == worker[w]
           l == worker[w].monitor.list
           t == worker[w].timer.list
           j == worker[w].index
           k == worker[w].index + 1
<1>4. /\ console = w /\ w # 0 /\ old \in WorkerType /\ j \in Nat /\ k \in Nat \ {0}
      /\ l \in Seq(Nat) /\ t \in Seq(Nat) /\ Len(t) \in Nat /\ Len(l) \in Nat
  <2>1. console = w /\ w # 0 /\ old \in WorkerType /\ j \in Nat /\ k \in Nat \ {0}
    BY <1>0, <1>3, Before
  <2>2. l \in Seq(Nat) /\ t \in Seq(Nat)
    BY <1>0, Before DEF Monitor, Timer
  <2> QED BY <2>1, <2>2, LenProperties
<1>5. Len(l) <= Len(total.rate) /\ j <= Len(t)
  BY <1>3 DEF SumsInv, Entered
<1>6. Asked(w) \in Timer /\ Bounded(Asked(w), longest) /\ Len(Asked(w).list) \in Nat
      /\ Len(t) <= Len(Asked(w).list) /\ \A i \in 1..Len(t) : Asked(w).list[i] = t[i]
  <2>1. Asked(w) \in Timer /\ Bounded(Asked(w), longest)
    BY <1>1, AskedTimer DEF Asked
  <2>2. Asked(w).list \in Seq(Nat)
    BY <2>1 DEF Timer
  <2>3. Len(t) <= Len(Asked(w).list) /\ \A i \in 1..Len(t) : Asked(w).list[i] = t[i]
    BY <1>1, AskedKeepsEntries DEF Asked
  <2> QED BY <2>1, <2>2, <2>3, LenProperties
<1>7. Again(w) \in Timer /\ Len(Again(w).list) \in Nat /\ Again(w).list \in Seq(Nat)
      /\ Len(Asked(w).list) <= Len(Again(w).list)
      /\ \A i \in 1..Len(Asked(w).list) : Again(w).list[i] = Asked(w).list[i]
  <2>1. Again(w) \in Timer
    BY <1>1, <1>6, AskedTimer DEF Again
  <2>2. Again(w).list \in Seq(Nat)
    BY <2>1 DEF Timer
  <2>3. Len(Asked(w).list) <= Len(Again(w).list)
        /\ \A i \in 1..Len(Asked(w).list) : Again(w).list[i] = Asked(w).list[i]
    BY <1>1, <1>6, AskedKeepsEntries DEF Again
  <2> QED BY <2>1, <2>2, <2>3, LenProperties
<1>8. Len(t) <= Len(Again(w).list) /\ \A i \in 1..Len(t) : Again(w).list[i] = t[i]
  <2> DEFINE a == Asked(w).list
             b == Again(w).list
  <2>1. /\ Len(t) \in Nat /\ Len(a) \in Nat /\ Len(b) \in Nat /\ Len(t) <= Len(a) /\ Len(a) <= Len(b)
        /\ \A i \in 1..Len(t) : a[i] = t[i]
        /\ \A i \in 1..Len(a) : b[i] = a[i]
    BY <1>4, <1>6, <1>7
  <2> HIDE DEF a, b, t
  <2>2. Len(t) <= Len(b) /\ \A i \in 1..Len(t) : b[i] = t[i]
    BY <2>1
  <2> QED BY <2>2 DEF b
<1>9. /\ total.rate \in Seq(Nat) /\ total.read \in Seq(Nat)
      /\ Len(total.rate) \in Nat /\ Len(total.read) \in Nat
      /\ Len(total.rate) <= Len(total.rate)
  BY <1>0, TotalsType
<1>10. /\ \A i \in 1..j : i <= Len(l) => i <= Len(total.read)
  BY <1>4 DEF Sound, TotalsInv, Lengths
<1>11. \A i \in Nat \ {0} : EntryOf(total.rate, i) \in Nat /\ EntryOf(total.read, i) \in Nat
  BY <1>0, EntriesNat
<1>12. ASSUME UNCHANGED total, Enters(me),
              \A i \in Nat \ {0} : /\ RateShare(me, i) = RateShare(old, i)
                                   /\ TimeShare(me, i) = TimeShare(old, i)
       PROVE  SumsInv'
  <2>1. Adds(w, me)
    BY <1>12 DEF Adds
  <2> QED BY <1>0, <1>2, <1>3, <1>12, <2>1, WorkerKeepsSums, WorkerKeepsEntered DEF SumsInv
<1>13. CASE AddRound(w, me)
  <2> DEFINE u == Again(w).list
             product == l[k] * u[k]
             new == AddedAt(total.read, k, product)
  <2>1. /\ k <= Len(Asked(w).list) /\ k <= Len(l)
        /\ me.pc = "reporting" /\ me.index = k /\ me.monitor = old.monitor /\ me.timer = Again(w)
        /\ total' = [total EXCEPT !.read = new]
    BY <1>13 DEF AddRound
  <2>2. total'.rate = total.rate /\ total'.read = new
    BY <2>1, <1>0 DEF TInv, TypeInv
  <2>3. \A i \in Nat \ {0} :
          /\ RateShare(me, i) = RateShare(old, i)
          /\ i # k => TimeShare(me, i) = TimeShare(old, i)
          /\ TimeShare(old, k) = 0
          /\ TimeShare(me, k) = EntryOf(l, k) * EntryOf(u, k)
    <3>1. /\ old.index <= Len(old.timer.list) /\ Len(old.timer.list) <= Len(me.timer.list)
          /\ \A i \in 1..Len(old.timer.list) : me.timer.list[i] = old.timer.list[i]
      BY <1>5, <1>8, <2>1
    <3>2. /\ old \in WorkerType /\ k \in Nat \ {0} /\ old.pc = "reporting" /\ me.pc = "reporting"
          /\ old.index + 1 = k /\ me.index = k /\ me.monitor = old.monitor
      BY <1>3, <1>4, <2>1
    <3>3. u = me.timer.list
      BY <2>1
    <3> HIDE DEF old, k, u
    <3> TAKE i \in Nat \ {0}
    <3>4. /\ RateShare(me, i) = RateShare(old, i)
          /\ i # k => TimeShare(me, i) = TimeShare(old, i)
          /\ TimeShare(old, k) = 0
          /\ TimeShare(me, k) = EntryOf(old.monitor.list, k) * EntryOf(me.timer.list, k)
      BY <3>1, <3>2, SharesOfRounds
    <3> QED BY <3>3, <3>4 DEF old
  <2> HIDE DEF l, t, j, k, u, old
  <2>4. k \in 1..Len(l) /\ k \in 1..Len(u) /\ l[k] \in Nat /\ u[k] \in Nat
    <3>1. k \in 1..Len(l) /\ k \in 1..Len(u)
      BY <1>4, <1>6, <1>7, <2>1 DEF u
    <3> QED BY <3>1, <1>4, <1>7, ElementOfSeq DEF u
  <2>5. EntryOf(l, k) * EntryOf(u, k) = product
    BY <2>4 DEF EntryOf
  <2>6. product \in Nat
    <3>1. ASSUME NEW x \in Nat, NEW y \in Nat PROVE x * y \in Nat
      OBVIOUS
    <3> QED BY <3>1, <2>4
  <2> HIDE DEF product
  <2>7. k <= Len(total.read) + 1
    <3>1. k = j + 1
      BY DEF k, j
    <3>2. j >= 1 => j <= Len(total.read)
      BY SMTT(40), <1>4, <1>10, <2>1, <3>1
    <3> QED BY <1>4, <1>9, <3>1, <3>2
  <2>8. IsAddedAt(new, total.read, k, product)
    BY <1>4, <1>9, <2>6, <2>7, AddedAtFacts
  <2> HIDE DEF new
  <2>9. \A i \in Nat \ {0} :
          EntryOf(new, i) = EntryOf(total.read, i) + IF i = k THEN product ELSE 0
    <3> SUFFICES ASSUME NEW i \in Nat \ {0}
                 PROVE  EntryOf(new, i) = EntryOf(total.read, i) + IF i = k THEN product ELSE 0
      OBVIOUS
    <3>1. /\ Len(new) = IF k <= Len(total.read) THEN Len(total.read) ELSE Len(total.read) + 1
          /\ \A x \in 1..Len(new) : new[x] = EntryOf(total.read, x) + IF x = k THEN product ELSE 0
      BY <2>8 DEF IsAddedAt
    <3>2. CASE i <= Len(new)
      <4>1. i \in 1..Len(new)
        BY <3>1, <3>2, <1>9
      <4> QED BY <3>1, <3>2, <4>1 DEF EntryOf
    <3>3. CASE ~(i <= Len(new))
      <4>1. ~(i <= Len(total.read)) /\ i # k
        BY <3>1, <3>3, <1>4, <1>9, <2>7
      <4> QED BY <3>3, <4>1 DEF EntryOf
    <3> QED BY <3>2, <3>3
  <2>10. Adds(w, me)
    <3> SUFFICES ASSUME NEW i \in Nat \ {0}
                 PROVE  /\ EntryOf(total.rate, i) + RateShare(old, i)
                             = EntryOf(total.rate, i) + RateShare(me, i)
                        /\ EntryOf(new, i) + TimeShare(old, i)
                             = EntryOf(total.read, i) + TimeShare(me, i)
      BY <2>2 DEF Adds, old
    <3>1. RateShare(me, i) = RateShare(old, i)
      BY <2>3
    <3>2. CASE i = k
      <4>1. TimeShare(old, i) = 0 /\ TimeShare(me, i) = product
        BY <2>3, <2>5, <3>2, <1>4
      <4>2. EntryOf(new, i) = EntryOf(total.read, i) + product
        BY <2>9, <3>2
      <4> QED BY <3>1, <4>1, <4>2, <2>6, <1>11
    <3>3. CASE i # k
      <4>1. TimeShare(old, i) = TimeShare(me, i)
        BY <2>3, <3>3
      <4>2. EntryOf(new, i) = EntryOf(total.read, i) + 0
        BY <2>9, <3>3
      <4> QED BY <3>1, <4>1, <4>2, <1>11
    <3> QED BY <3>2, <3>3
  <2>11. Enters(me)
    <3>1. me.monitor.list = l /\ me.timer.list = u
      BY <2>1 DEF l, u, old
    <3>2. k <= Len(u)
      BY <2>4
    <3> QED BY <3>1, <3>2, <1>5, <1>9, <2>1, <2>2 DEF Enters
  <2> QED BY <1>0, <1>2, <1>3, <2>10, <2>11, WorkerKeepsSums, WorkerKeepsEntered DEF SumsInv
<1>14. CASE SkipRound(w, me)
  <2>1. /\ k <= Len(Asked(w).list) /\ k > Len(l)
        /\ me.pc = "reporting" /\ me.index = k /\ me.monitor = old.monitor /\ me.timer = Asked(w)
        /\ UNCHANGED total
    BY <1>14 DEF SkipRound
  <2> DEFINE u == Asked(w).list
  <2>2. \A i \in Nat \ {0} :
          /\ RateShare(me, i) = RateShare(old, i)
          /\ i # k => TimeShare(me, i) = TimeShare(old, i)
          /\ TimeShare(old, k) = 0
          /\ TimeShare(me, k) = EntryOf(l, k) * EntryOf(u, k)
    <3>1. /\ old.index <= Len(old.timer.list) /\ Len(old.timer.list) <= Len(me.timer.list)
          /\ \A i \in 1..Len(old.timer.list) : me.timer.list[i] = old.timer.list[i]
      BY <1>5, <1>6, <2>1
    <3>2. /\ old \in WorkerType /\ k \in Nat \ {0} /\ old.pc = "reporting" /\ me.pc = "reporting"
          /\ old.index + 1 = k /\ me.index = k /\ me.monitor = old.monitor
      BY <1>3, <1>4, <2>1
    <3>3. u = me.timer.list
      BY <2>1
    <3> HIDE DEF old, k, u
    <3> TAKE i \in Nat \ {0}
    <3>4. /\ RateShare(me, i) = RateShare(old, i)
          /\ i # k => TimeShare(me, i) = TimeShare(old, i)
          /\ TimeShare(old, k) = 0
          /\ TimeShare(me, k) = EntryOf(old.monitor.list, k) * EntryOf(me.timer.list, k)
      BY <3>1, <3>2, SharesOfRounds
    <3> QED BY <3>3, <3>4 DEF old
  <2>3. EntryOf(u, k) \in Nat
    <3>1. u \in Seq(Nat)
      BY <1>6 DEF Timer
    <3> HIDE DEF u, k
    <3> QED BY <3>1, <1>4, EntryFacts
  <2>4. Enters(me)
    BY <1>5, <1>9, <2>1 DEF Enters
  <2> HIDE DEF l, t, j, k, u, old
  <2>5. EntryOf(l, k) * EntryOf(u, k) = 0
    <3>1. EntryOf(l, k) = 0
      BY <1>4, <2>1 DEF EntryOf
    <3> QED BY <2>3, <3>1
  <2>6. \A i \in Nat \ {0} : /\ RateShare(me, i) = RateShare(old, i)
                             /\ TimeShare(me, i) = TimeShare(old, i)
    BY <2>2, <2>5, <1>4
  <2> QED BY <1>12, <2>1, <2>4, <2>6
<1>15. CASE LastRound(w, me)
  <2>1. /\ Len(Asked(w).list) <= j /\ me = Gone(old, Asked(w)) /\ UNCHANGED total
    BY <1>15, <1>4, <1>6 DEF LastRound
  <2>2. \A i \in Nat \ {0} : /\ RateShare(me, i) = RateShare(old, i)
                             /\ TimeShare(me, i) = TimeShare(old, i)
    <3> DEFINE q == Asked(w)
    <3>1. /\ old \in WorkerType /\ q \in Timer /\ old.pc = "reporting"
          /\ Len(q.list) <= old.index /\ old.index <= Len(old.timer.list)
          /\ \A i \in 1..Len(old.timer.list) : q.list[i] = old.timer.list[i]
          /\ Len(old.timer.list) <= Len(q.list)
      BY <1>3, <1>4, <1>5, <1>6, <2>1
    <3>2. me = Gone(old, q)
      BY <2>1
    <3> HIDE DEF old, q
    <3> TAKE i \in Nat \ {0}
    <3>3. /\ RateShare(Gone(old, q), i) = RateShare(old, i)
          /\ TimeShare(Gone(old, q), i) = TimeShare(old, i)
      BY <3>1, GoneShares
    <3> QED BY <3>2, <3>3
  <2>3. Enters(me)
    <3>1. me.pc = "done" /\ me.monitor.list = l
      BY <1>4, <1>6, <2>1, GoneFacts
    <3> QED BY <3>1, <1>5, <1>9, <2>1 DEF Enters
  <2> QED BY <1>12, <2>1, <2>2, <2>3
<1> QED BY <1>2, <1>13, <1>14, <1>15

LEMMA StepSums ==
  ASSUME Sound, SumsInv, NEW w \in Pids, Step(w), TInv'
  PROVE  SumsInv'
<1>0. TInv
  BY DEF Sound
<1>1. ASSUME NEW me \in WorkerType, Moves(w, me), UNCHANGED <<options, total>>, main.pc = "creating",
             worker[w].pc \notin {"reporting", "done"}, me.pc \notin {"reporting", "done"}
      PROVE  SumsInv'
  BY <1>0, <1>1, QuietKeepsSums
<1>2. CASE BeginControl(w) \/ BeginMonitor(w)
  <2>1. PICK me \in WorkerType : Moves(w, me) /\ me.pc \in {"starting", "next"}
    BY <1>0, <1>2, BeginControlMoves, BeginMonitorMoves DEF TInv
  <2>2. /\ UNCHANGED <<options, total>> /\ main.pc = "creating"
        /\ worker[w].pc \in {"start", "starting"}
    BY <1>2 DEF BeginControl, BeginMonitor, Running, At
  <2> QED BY <1>1, <2>1, <2>2
<1>3. CASE NextHit(w)
  <2>1. PICK me \in WorkerType : Moves(w, me) /\ me.pc = "pace"
    BY <1>0, <1>3, NextHitMoves DEF TInv
  <2>2. /\ UNCHANGED <<options, total>> /\ main.pc = "creating"
        /\ worker[w].pc = "next"
    BY <1>3 DEF NextHit, Running, At
  <2> QED BY <1>1, <2>1, <2>2
<1>4. CASE NoMoreHits(w)
  <2>1. PICK me \in WorkerType : Moves(w, me) /\ me.pc = "stopped"
    BY <1>0, <1>4, NoMoreHitsMoves DEF TInv
  <2>2. /\ UNCHANGED <<options, total>> /\ main.pc = "creating"
        /\ worker[w].pc = "next"
    BY <1>4 DEF NoMoreHits, Running, At
  <2> QED BY <1>1, <2>1, <2>2
<1>5. CASE Pace(w)
  <2>1. PICK me \in WorkerType : Moves(w, me) /\ me.pc \in {"pace", "reading"}
    BY <1>0, <1>5, PaceMoves DEF TInv
  <2>2. /\ UNCHANGED <<options, total>> /\ main.pc = "creating"
        /\ worker[w].pc = "pace"
    BY <1>5 DEF Pace, Running, At
  <2> QED BY <1>1, <2>1, <2>2
<1>6. CASE StopRead(w)
  <2>0. TimerStop(worker[w].timer, now) \in Timer
    BY <1>0, <1>6, StopReadBounds
  <2>1. PICK me \in WorkerType : Moves(w, me) /\ me.pc = "next"
    BY <1>0, <1>6, <2>0, StopReadMoves DEF TInv
  <2>2. /\ UNCHANGED <<options, total>> /\ main.pc = "creating"
        /\ worker[w].pc = "reading"
    BY <1>6 DEF StopRead, Running, At
  <2> QED BY <1>1, <2>1, <2>2
<1> QED BY <1>0, <1>2, <1>3, <1>4, <1>5, <1>6, ReportSums, AddTimesSums DEF Step

\* Workers that have not been created add nothing.
LEMMA UnbornShares ==
  ASSUME NEW n \in Nat, NEW all \in [1..n -> WorkerType], \A w \in 1..n : all[w].pc = "none",
         NEW i \in Nat \ {0}
  PROVE  Total(Rates(all, n, i)) = 0 /\ Total(Times(all, n, i)) = 0
<1> DEFINE r == Rates(all, n, i)
           t == Times(all, n, i)
<1>1. /\ r \in Seq(Nat) /\ Len(r) = n /\ t \in Seq(Nat) /\ Len(t) = n
      /\ \A w \in 1..n : r[w] = RateShare(all[w], i) /\ t[w] = TimeShare(all[w], i)
  BY SharesListed
<1>2. \A w \in 1..n : RateShare(all[w], i) = 0 /\ TimeShare(all[w], i) = 0
  BY DEF RateShare, TimeShare
<1> HIDE DEF r, t
<1>3. \A w \in 1..Len(r) : r[w] = 0
  BY <1>1, <1>2
<1>4. \A w \in 1..Len(t) : t[w] = 0
  BY <1>1, <1>2
<1>5. Total(r) = 0 /\ Total(t) = 0
  BY <1>1, <1>3, <1>4, TotalZero
<1> QED BY <1>5 DEF r, t

LEMMA InitSums ==
  ASSUME Init
  PROVE  SumsInv
<1>1. worker = <<>> /\ options.threads = 0 /\ total.rate = <<>> /\ total.read = <<>> /\ Pids = {}
  BY DEF Init, NoOptions, Pids
<1>2. Sums
  <2> SUFFICES ASSUME NEW i \in Nat \ {0}
               PROVE  /\ EntryOf(<<>>, i) = Total(Rates(worker, 0, i))
                      /\ EntryOf(<<>>, i) = Total(Times(worker, 0, i))
    BY <1>1 DEF Sums
  <2>1. worker \in [1..0 -> WorkerType] /\ \A w \in 1..0 : worker[w].pc = "none"
    BY <1>1
  <2>2. Total(Rates(worker, 0, i)) = 0 /\ Total(Times(worker, 0, i)) = 0
    BY <2>1, UnbornShares
  <2>3. EntryOf(<<>>, i) = 0
    BY DEF EntryOf
  <2> QED BY <2>2, <2>3
<1>3. Entered
  BY <1>1 DEF Entered
<1> QED BY <1>2, <1>3 DEF SumsInv

LEMMA ConfigureSums ==
  ASSUME Sound, SumsInv, Configure, TInv'
  PROVE  SumsInv'
<1>1. TInv /\ main.pc = "configuring" /\ UNCHANGED total
  BY DEF Sound, Configure
<1>2. Pids = {} /\ main.created = 0 /\ options.threads = 0 /\ main'.created = main.created
  BY <1>1, NobodyYet DEF TInv, TypeInv, NoOptions, Configure
<1>3. ASSUME NEW w \in Pids' PROVE worker'[w].pc = "none"
  <2>1. w > main'.created
    BY <1>2 DEF TInv, TypeInv, OptionsOK, Pids
  <2> QED BY <2>1 DEF TInv, PcInv
<1>4. Entered'
  BY <1>3 DEF Entered
<1>5. Sums'
  <2> SUFFICES ASSUME NEW i \in Nat \ {0}
               PROVE  /\ EntryOf(total.rate, i) = Total(Rates(worker', options'.threads, i))
                      /\ EntryOf(total.read, i) = Total(Times(worker', options'.threads, i))
    BY <1>1 DEF Sums
  <2> DEFINE next == worker'
             n == options'.threads
  <2>1. n \in Nat /\ next \in [1..n -> WorkerType] /\ \A w \in 1..n : next[w].pc = "none"
    BY <1>3 DEF TInv, TypeInv, OptionsOK, Pids
  <2> HIDE DEF next, n
  <2>2. Total(Rates(next, n, i)) = 0 /\ Total(Times(next, n, i)) = 0
    BY <2>1, UnbornShares
  <2>3. Total(Rates(worker, 0, i)) = 0 /\ Total(Times(worker, 0, i)) = 0
    <3>1. worker \in [1..0 -> WorkerType] /\ \A w \in 1..0 : worker[w].pc = "none"
      BY <1>1, <1>2 DEF TInv, TypeInv, Pids
    <3> QED BY <3>1, UnbornShares
  <2>4. EntryOf(total.rate, i) = 0 /\ EntryOf(total.read, i) = 0
    BY <2>3, <1>1, <1>2 DEF SumsInv, Sums
  <2> QED BY <2>2, <2>4 DEF next, n
<1> QED BY <1>4, <1>5 DEF SumsInv

LEMMA CreateSums ==
  ASSUME Sound, SumsInv, Create, TInv'
  PROVE  SumsInv'
<1>1. /\ TInv /\ main.created < options.threads /\ main.pc = "creating" /\ UNCHANGED <<options, total>>
  BY DEF Sound, Create
<1>2. CASE UNCHANGED worker
  BY <1>1, <1>2 DEF SumsInv, Sums, Entered, Pids
<1>3. CASE worker' = [worker EXCEPT ![main.created + 1].pc = "start"]
  <2> DEFINE w == main.created + 1
             me == [worker[w] EXCEPT !.pc = "start"]
  <2>1. w \in Pids
    BY <1>1 DEF TInv, TypeInv, OptionsOK, Pids
  <2>2. worker' = [worker EXCEPT ![w] = me]
    BY <1>3
  <2>3. worker[w].pc = "none"
    <3>1. w > main.created
      BY <1>1 DEF TInv, TypeInv
    <3> HIDE DEF w
    <3> QED BY <3>1, <1>1, <2>1, Before
  <2> HIDE DEF w
  <2>4. worker[w] \in WorkerType
    BY <1>1, <2>1, Before
  <2>5. me \in WorkerType /\ me.pc = "start"
    BY <2>4 DEF WorkerType, Pcs
  <2> HIDE DEF me
  <2> QED BY <1>1, <2>1, <2>2, <2>3, <2>5, QuietKeepsSums DEF Moves
<1> QED BY <1>2, <1>3 DEF Create

LEMMA NextSums ==
  ASSUME Sound, SumsInv, [Next]_vars
  PROVE  SumsInv'
<1>1. Sound' /\ TInv'
  BY NextSound DEF Sound
<1>2. ASSUME NEW w \in Pids, Step(w) PROVE SumsInv'
  BY <1>1, <1>2, StepSums
<1>3. CASE Join
  <2>1. /\ main'.pc = "returned" /\ total'.rate = total.rate
        /\ UNCHANGED <<options, worker>>
    BY <1>3, AveragesFacts DEF Join, Sound, TInv, TypeInv
  <2> QED BY <2>1 DEF SumsInv, Sums, Entered, Pids
<1>4. CASE Tick
  BY <1>4 DEF Tick, SumsInv, Sums, Entered, Pids
<1>5. CASE UNCHANGED vars
  BY <1>5 DEF vars, SumsInv, Sums, Entered, Pids
<1> QED BY <1>1, <1>2, <1>3, <1>4, <1>5, ConfigureSums, CreateSums DEF Next, Ended, GoOn

LEMMA AlwaysSummed == Spec => [](Sound /\ SumsInv)
BY InitSound, NextSound, InitSums, NextSums, PTL DEF Spec

\* What TotalsAreSums sums over the workers that are done.
SumOfRates(all, i, S) == MapThenSumSet(LAMBDA w : EntryOf(all[w].monitor.list, i), S)
SumOfTimes(all, i, S) ==
  MapThenSumSet(LAMBDA w : EntryOf(all[w].monitor.list, i) * EntryOf(all[w].timer.list, i), S)

LEMMA RatesOfDone ==
  ASSUME NEW n \in Nat, NEW all \in [1..n -> WorkerType], NEW i \in Nat \ {0},
         NEW S \in SUBSET (1..n), \A w \in S : all[w].pc = "done"
  PROVE  SumOfRates(all, i, S) = Total(Mask(Rates(all, n, i), n, S))
<1> DEFINE v == Rates(all, n, i)
           val(w) == EntryOf(all[w].monitor.list, i)
           Fold(f) == [s \in SUBSET S |->
                         IF s = {} THEN 0 ELSE val(Chosen(s)) + f[s \ {Chosen(s)}]]
           h == CHOOSE f : f = Fold(f)
           g == [s \in SUBSET S |-> Total(Mask(v, n, s))]
<1>1. SumOfRates(all, i, S) = h[S]
  BY Zenon DEF SumOfRates, MapThenSumSet, MapThenFoldSet, Chosen
<1>2. v \in [1..n -> Nat] /\ \A w \in S : v[w] = val(w)
  BY ZenonT(40), SharesListed DEF RateShare
<1>3. \A s \in SUBSET S : s # {} => v[Chosen(s)] = val(Chosen(s)) /\ s \ {Chosen(s)} \in SUBSET S
  <2>1. \A s \in SUBSET S : s # {} => Chosen(s) \in S
    BY DEF Chosen
  <2> HIDE DEF v, val
  <2> QED BY <1>2, <2>1
<1>4. SumsChosen(g, v, S)
  <2> HIDE DEF v
  <2> QED BY <1>2, MaskedSums
<1>5. DOMAIN g = SUBSET S /\ g = [s \in SUBSET S |-> g[s]]
  OBVIOUS
<1> HIDE DEF g, v, val
<1>6. g = Fold(g)
  <2>1. \A s \in SUBSET S : g[s] = IF s = {} THEN 0 ELSE val(Chosen(s)) + g[s \ {Chosen(s)}]
    BY <1>3, <1>4 DEF SumsChosen
  <2> QED BY <1>5, <2>1
<1>7. h = Fold(h)
  <2>1. \E f : f = Fold(f)
    BY <1>6
  <2> HIDE DEF Fold
  <2> QED BY <2>1
<1> HIDE DEF h
<1>8. SumsChosen(h, v, S)
  <2>1. \A s \in SUBSET S : h[s] = IF s = {} THEN 0 ELSE val(Chosen(s)) + h[s \ {Chosen(s)}]
    BY <1>7
  <2> QED BY <1>3, <2>1 DEF SumsChosen
<1> HIDE DEF Fold
<1>9. h[S] = Total(Mask(v, n, S))
  BY <1>2, <1>8, ChosenSum
<1> QED BY <1>1, <1>9 DEF v

LEMMA TimesOfDone ==
  ASSUME NEW n \in Nat, NEW all \in [1..n -> WorkerType], NEW i \in Nat \ {0},
         NEW S \in SUBSET (1..n), \A w \in S : all[w].pc = "done"
  PROVE  SumOfTimes(all, i, S) = Total(Mask(Times(all, n, i), n, S))
<1> DEFINE v == Times(all, n, i)
           val(w) == EntryOf(all[w].monitor.list, i) * EntryOf(all[w].timer.list, i)
           Fold(f) == [s \in SUBSET S |->
                         IF s = {} THEN 0 ELSE val(Chosen(s)) + f[s \ {Chosen(s)}]]
           h == CHOOSE f : f = Fold(f)
           g == [s \in SUBSET S |-> Total(Mask(v, n, s))]
<1>1. SumOfTimes(all, i, S) = h[S]
  BY Zenon DEF SumOfTimes, MapThenSumSet, MapThenFoldSet, Chosen
<1>2. v \in [1..n -> Nat] /\ \A w \in S : v[w] = val(w)
  BY ZenonT(40), SharesListed DEF TimeShare
<1>3. \A s \in SUBSET S : s # {} => v[Chosen(s)] = val(Chosen(s)) /\ s \ {Chosen(s)} \in SUBSET S
  <2>1. \A s \in SUBSET S : s # {} => Chosen(s) \in S
    BY DEF Chosen
  <2> HIDE DEF v, val
  <2> QED BY <1>2, <2>1
<1>4. SumsChosen(g, v, S)
  <2> HIDE DEF v
  <2> QED BY <1>2, MaskedSums
<1>5. DOMAIN g = SUBSET S /\ g = [s \in SUBSET S |-> g[s]]
  OBVIOUS
<1> HIDE DEF g, v, val
<1>6. g = Fold(g)
  <2>1. \A s \in SUBSET S : g[s] = IF s = {} THEN 0 ELSE val(Chosen(s)) + g[s \ {Chosen(s)}]
    BY <1>3, <1>4 DEF SumsChosen
  <2> QED BY <1>5, <2>1
<1>7. h = Fold(h)
  <2>1. \E f : f = Fold(f)
    BY <1>6
  <2> HIDE DEF Fold
  <2> QED BY <2>1
<1> HIDE DEF h
<1>8. SumsChosen(h, v, S)
  <2>1. \A s \in SUBSET S : h[s] = IF s = {} THEN 0 ELSE val(Chosen(s)) + h[s \ {Chosen(s)}]
    BY <1>7
  <2> QED BY <1>3, <2>1 DEF SumsChosen
<1> HIDE DEF Fold
<1>9. h[S] = Total(Mask(v, n, S))
  BY <1>2, <1>8, ChosenSum
<1> QED BY <1>1, <1>9 DEF v

\* When nobody reports, the shares of the others are zeros.
LEMMA OnlyDoneShare ==
  ASSUME NEW n \in Nat, NEW all \in [1..n -> WorkerType], NEW i \in Nat \ {0},
         \A w \in 1..n : all[w].pc # "reporting"
  PROVE  LET S == {w \in 1..n : all[w].pc = "done"}
         IN /\ Total(Rates(all, n, i)) = SumOfRates(all, i, S)
            /\ Total(Times(all, n, i)) = SumOfTimes(all, i, S)
<1> DEFINE S == {w \in 1..n : all[w].pc = "done"}
           r == Rates(all, n, i)
           t == Times(all, n, i)
<1>1. /\ r \in [1..n -> Nat] /\ t \in [1..n -> Nat]
      /\ \A w \in 1..n : r[w] = RateShare(all[w], i) /\ t[w] = TimeShare(all[w], i)
  BY SharesListed
<1>2. \A w \in 1..n : w \notin S => r[w] = 0 /\ t[w] = 0
  BY <1>1 DEF RateShare, TimeShare
<1>3. S \in SUBSET (1..n) /\ \A w \in S : all[w].pc = "done"
  OBVIOUS
<1>4. SumOfRates(all, i, S) = Total(Mask(r, n, S)) /\ SumOfTimes(all, i, S) = Total(Mask(t, n, S))
  <2> HIDE DEF S
  <2> QED BY <1>3, RatesOfDone, TimesOfDone
<1> HIDE DEF r, t, S
<1>5. Mask(r, n, S) = r /\ Mask(t, n, S) = t
  BY <1>1, <1>2 DEF Mask
<1> QED BY <1>4, <1>5 DEF r, t, S

----------------------------------------------------------------------------

(* When nobody holds the mutex, each second of the rates is the sum of that *)
(* second over the workers that are done, and each second of the times the *)
(* sum of rate times average; and the times are never more than the rates  *)
(* that main indexes with their positions.                                 *)
THEOREM TotalsSummed == Spec => []TotalsAreSums
<1>1. Sound /\ SumsInv /\ TypeOK => TotalsAreSums
  <2> SUFFICES ASSUME Sound, SumsInv, TypeOK PROVE TotalsAreSums
    OBVIOUS
  <2>1. Len(total.read) <= Len(total.rate)
    BY DEF Sound, TotalsInv, Lengths
  <2>2. ASSUME console = 0, main.pc = "creating"
        PROVE  LET done == {w \in Pids : At(w, "done")}
               IN /\ \A i \in DOMAIN total.rate : total.rate[i] = SumOfRates(worker, i, done)
                  /\ \A i \in DOMAIN total.read : total.read[i] = SumOfTimes(worker, i, done)
                  /\ \A w \in done : Len(total.rate) >= Len(worker[w].monitor.list)
    <3> DEFINE done == {w \in Pids : worker[w].pc = "done"}
               n == options.threads
               all == worker
    <3>1. done = {w \in Pids : At(w, "done")}
      BY DEF At
    <3>2. n \in Nat /\ all \in [1..n -> WorkerType] /\ Pids = 1..n
      BY DEF Sound, TInv, TypeInv, OptionsOK, Pids
    <3>3. \A w \in 1..n : all[w].pc # "reporting"
      <4>1. \A w \in 1..n : w # 0
        BY <3>2
      <4> QED BY <4>1, <3>2, <2>2 DEF Sound, TInv, PcInv
    <3>4. done = {w \in 1..n : all[w].pc = "done"}
      BY <3>2
    <3>5. /\ DOMAIN total.rate \subseteq Nat \ {0} /\ DOMAIN total.read \subseteq Nat \ {0}
          /\ \A i \in DOMAIN total.rate : EntryOf(total.rate, i) = total.rate[i]
          /\ \A i \in DOMAIN total.read : EntryOf(total.read, i) = total.read[i]
      <4>1. total.rate \in Seq(Nat) /\ total.read \in Seq(Nat)
        BY DEF Sound, TInv, TypeInv
      <4> QED BY <4>1, LenProperties DEF EntryOf
    <3>6. \A i \in Nat \ {0} : /\ EntryOf(total.rate, i) = Total(Rates(all, n, i))
                               /\ EntryOf(total.read, i) = Total(Times(all, n, i))
      BY <2>2 DEF SumsInv, Sums
    <3>7. \A w \in done : Len(total.rate) >= Len(worker[w].monitor.list)
      <4> SUFFICES ASSUME NEW w \in done
                   PROVE  Len(total.rate) >= Len(worker[w].monitor.list)
        OBVIOUS
      <4>1. Len(worker[w].monitor.list) <= Len(total.rate)
        BY DEF SumsInv, Entered
      <4>2. worker[w].monitor.list \in Seq(Nat) /\ total.rate \in Seq(Nat)
        BY Before DEF Sound, TInv, TypeInv, Monitor
      <4> QED BY <4>1, <4>2, LenProperties
    <3> HIDE DEF done, n, all
    <3>8. \A i \in Nat \ {0} : /\ Total(Rates(all, n, i)) = SumOfRates(all, i, done)
                               /\ Total(Times(all, n, i)) = SumOfTimes(all, i, done)
      BY <3>2, <3>3, <3>4, OnlyDoneShare
    <3>9. /\ \A i \in DOMAIN total.rate : total.rate[i] = SumOfRates(all, i, done)
          /\ \A i \in DOMAIN total.read : total.read[i] = SumOfTimes(all, i, done)
      BY <3>5, <3>6, <3>8
    <3> QED BY <3>1, <3>7, <3>9 DEF all
  <2> QED BY <2>1, <2>2, Zenon DEF TotalsAreSums, SumOfRates, SumOfTimes
<1> QED BY <1>1, AlwaysSummed, TypeCorrect, PTL
=============================================================================
