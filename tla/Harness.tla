------------------------------- MODULE Harness -------------------------------
(***************************************************************************)
(* A run of the test harness as its measurements see it: main starts the   *)
(* workers, each worker paces its hits, times its reads and adds what it   *)
(* measured to the totals, main waits for all of them and turns the totals *)
(* into averages (src/testharness.cpp 759-1019).                           *)
(*                                                                         *)
(* What a worker does with a cookie is in ProfileUpdate, how the hits are  *)
(* read in HitSource; here NextHit takes the time of the next hit from the *)
(* shared sequence left, and one of the two timers, which are used alike,  *)
(* stands for both.                                                        *)
(***************************************************************************)
EXTENDS Clocks, SequencesExt, FiniteSetsExt

CONSTANTS Scenarios,   \* the options and hits a run may have, what its stacks may
                       \* hold where clockPrev of a timer is, and its bound idle:
                       \* later time passes only if a worker waits for it
          StartTime,   \* the clock when main begins
          MaxList,     \* bound: entries of a timer before the clock moves on
          Horizon      \* bound: nobody waits for a later time to come

\* The clock is past the first second of 1970; the memory of a timer may hold
\* any time, one still to come as well.
ASSUME ClockIsSet ==
  /\ StartTime \in Nat /\ StartTime >= NANOSECOND
  /\ Horizon \in Nat
  /\ \A s \in Scenarios : s.memory \subseteq Nat

\* A replay rate is positive; one of 0 means that a request rate counts.
ASSUME ScenariosAssumption ==
  \A s \in Scenarios :
    /\ s.threads \in Nat /\ s.requests \in Nat /\ s.idle \in Nat /\ s.hits \in Seq(Nat)
    /\ \/ s.mode = "EVENT_BASED" /\ s.rate \in Nat
       \/ s.mode = "HIT_BASED" /\ s.rate \in (Nat \ {0}) \X (Nat \ {0})

VARIABLES options,   \* [threads, requests, mode, rate, memory, idle]
          left,      \* the times of the hits that NextHit will still give
          now,       \* CLOCK_REALTIME
          main,      \* [pc, created]
          worker,    \* the locals of each WorkerThread
          console,   \* holder of consoleMutex, 0 for none
          total,     \* [rate, read]: aggregateRate, aggregateReadTimer
          longest    \* the longest time a read has taken (history)

vars == <<options, left, now, main, worker, console, total, longest>>

MaxThreads == Max({s.threads : s \in Scenarios})
Pids == 1..options.threads
At(w, pc) == worker[w].pc = pc
Total(list) == FoldLeft(+, 0, list)

Unborn == [pc |-> "none", i |-> 0, hitTime |-> 0, wakeAt |-> 0, index |-> 0,
           control |-> NewControl("EVENT_BASED", 0, 0), monitor |-> NewMonitor(0),
           late |-> 0,   \* how much later the monitor was started (history)
           timer |-> NewTimer(0)]

\* The static options before Configure: zeros.
NoOptions == [threads |-> 0, requests |-> 0, mode |-> "EVENT_BASED", rate |-> 0,
              memory |-> {0}, idle |-> 0]

Init ==
  /\ options = NoOptions /\ left = <<>>
  /\ now = StartTime
  /\ main = [pc |-> "configuring", created |-> 0]
  /\ worker = <<>>
  /\ console = 0
  /\ total = [rate |-> <<>>, read |-> <<>>]
  /\ longest = 0

----------------------------------------------------------------------------
(* main *)

\* --help and --version end the process.  An error in what is read ends
\* Configure before the options of the file are stored; main does not look
\* at its answer and goes on, with no threads.
Configure ==
  /\ main.pc = "configuring"
  /\ \/ /\ \E s \in Scenarios :
             /\ options' = [o \in DOMAIN NoOptions |-> s[o]]
             /\ left' = s.hits
             /\ worker' = [w \in 1..s.threads |-> Unborn]
        /\ main' = [main EXCEPT !.pc = "creating"]
     \/ main' = [main EXCEPT !.pc = "creating"] /\ UNCHANGED <<options, left, worker>>
     \/ main' = [main EXCEPT !.pc = "exited"] /\ UNCHANGED <<options, left, worker>>
  /\ UNCHANGED <<now, console, total, longest>>

\* The message is printed under the mutex; pthread_create may fail, and then
\* the whole process exits, whatever its workers are doing.
Create ==
  /\ main.pc = "creating" /\ main.created < options.threads /\ console = 0
  /\ \/ /\ main' = [main EXCEPT !.created = @ + 1]
        /\ worker' = [worker EXCEPT ![main.created + 1].pc = "start"]
     \/ main' = [main EXCEPT !.pc = "exited"] /\ UNCHANGED worker
  /\ UNCHANGED <<options, left, now, console, total, longest>>

\* pthread_join of every worker, then the averages.
Averages(t) ==
  [t EXCEPT !.read = [i \in DOMAIN @ |-> IF t.rate[i] > 0 THEN @[i] \div t.rate[i] ELSE 0]]

Join ==
  /\ main.pc = "creating" /\ main.created = options.threads
  /\ \A w \in Pids : At(w, "done")
  /\ main' = [main EXCEPT !.pc = "returned"]
  /\ total' = Averages(total)
  /\ UNCHANGED <<options, left, now, worker, console, longest>>

----------------------------------------------------------------------------
(* WorkerThread *)

Running(w, pc) == main.pc = "creating" /\ At(w, pc)

\* The controller and the monitor read the clock one after the other.
BeginControl(w) ==
  /\ Running(w, "start") /\ console = 0
  /\ \E memory \in options.memory :
       worker' = [worker EXCEPT ![w] =
         [@ EXCEPT !.pc = "starting", !.timer = NewTimer(memory),
                   !.control = NewControl(options.mode, options.rate, now)]]
  /\ UNCHANGED <<options, left, now, main, console, total, longest>>

BeginMonitor(w) ==
  /\ Running(w, "starting")
  /\ worker' = [worker EXCEPT ![w] =
       [@ EXCEPT !.pc = "next", !.monitor = NewMonitor(now), !.late = now - worker[w].control.clockPrev]]
  /\ UNCHANGED <<options, left, now, main, console, total, longest>>

\* Without replay files there is no hit source, and the loop over the
\* requests does as little as with one that has no hits.
NextHit(w) ==
  /\ Running(w, "next") /\ worker[w].i < options.requests /\ left # <<>>
  /\ left' = Tail(left)
  /\ LET me == worker[w]
     IN worker' = [worker EXCEPT ![w] =
          [me EXCEPT !.pc = "pace", !.i = @ + 1, !.hitTime = Head(left), !.wakeAt = now,
                     !.monitor = Increment(@, now), !.control = Counted(@, Head(left), now)]]
  /\ UNCHANGED <<options, now, main, console, total, longest>>

NoMoreHits(w) ==
  /\ Running(w, "next") /\ (worker[w].i = options.requests \/ left = <<>>)
  /\ worker' = [worker EXCEPT ![w].pc = "stopped", ![w].monitor = MonitorStop(@, now)]
  /\ UNCHANGED <<options, left, now, main, console, total, longest>>

\* A round of the waiting loop, once usleep or pthread_yield returned, or its
\* end and the start of the read.
Pace(w) ==
  /\ Running(w, "pace") /\ now >= worker[w].wakeAt
  /\ LET me == worker[w]
     IN worker' = [worker EXCEPT ![w] =
          IF MustWait(me.control, me.hitTime, now)
          THEN [me EXCEPT !.wakeAt = WakeTime(me.control, me.hitTime, now)]
          ELSE [me EXCEPT !.pc = "reading", !.timer = TimerStart(@, now)]]
  /\ UNCHANGED <<options, left, now, main, console, total, longest>>

StopRead(w) ==
  /\ Running(w, "reading")
  /\ worker' = [worker EXCEPT ![w].pc = "next", ![w].timer = TimerStop(@, now)]
  /\ longest' = LET spent == now - worker[w].timer.clockStart
                IN IF spent > longest THEN spent ELSE longest
  /\ UNCHANGED <<options, left, now, main, console, total>>

\* Seeded bug: a later worker's rates replace those of an earlier one.
Added_Replaces(sum, list) == list \o SubSeq(sum, Len(list) + 1, Len(sum))

\* The loops of += and push_back.
Added(sum, list) ==
  [i \in 1..(IF Len(sum) > Len(list) THEN Len(sum) ELSE Len(list)) |->
     (IF i <= Len(sum) THEN sum[i] ELSE 0) + (IF i <= Len(list) THEN list[i] ELSE 0)]

\* Takes consoleMutex, prints the lists and adds the rates.
Report(w) ==
  /\ Running(w, "stopped") /\ console = 0
  /\ console' = w
  /\ total' = [total EXCEPT !.rate = Added(@, worker[w].monitor.list)]
  /\ worker' = [worker EXCEPT ![w].pc = "reporting", ![w].timer = NsPerSecond(@, now)]
  /\ UNCHANGED <<options, left, now, main, longest>>

\* A worker that is done has no locals; the lists it printed stay in the model.
Gone(me, timer) ==
  [Unborn EXCEPT !.pc = "done", !.i = me.i, !.late = me.late,
                 !.monitor.list = me.monitor.list, !.timer.list = timer.list]

\* Seeded bug: when the list has grown, its entries are all added again.
AddTimes_Restarts(w) ==
  LET me == worker[w]
      asked == NsPerSecond(me.timer, now)
  IN /\ Running(w, "reporting") /\ (asked.count = 0 \/ Len(me.timer.list) < MaxList)
     /\ IF me.index < Len(asked.list)
        THEN /\ worker' = [worker EXCEPT ![w].index = @ + 1, ![w].timer = asked]
             /\ UNCHANGED console
        ELSE IF Len(asked.list) > 1
        THEN /\ worker' = [worker EXCEPT ![w].index = 0, ![w].timer = asked]
             /\ UNCHANGED console
        ELSE /\ worker' = [worker EXCEPT ![w] = Gone(me, asked)]
             /\ console' = 0
     /\ UNCHANGED <<options, left, now, main, total, longest>>

\* += or push_back for one entry.
AddedAt(sum, k, entry) ==
  IF k <= Len(sum) THEN [sum EXCEPT ![k] = @ + entry] ELSE Append(sum, entry)

\* One round of the loop over the timer: NsPerSecond is called for the
\* condition, and again for the entry, and adds to its list each time.  After
\* the last round the mutex is given back.
AddTimes(w) ==
  LET me == worker[w]
      k == me.index + 1
      asked == NsPerSecond(me.timer, now)
      again == NsPerSecond(asked, now)
      product == me.monitor.list[k] * again.list[k]
  IN /\ Running(w, "reporting") /\ (asked.count = 0 \/ Len(me.timer.list) < MaxList)
     /\ \/ /\ me.index < Len(asked.list)
           /\ k <= Len(me.monitor.list)
           /\ worker' = [worker EXCEPT ![w].index = k, ![w].timer = again]
           /\ total' = [total EXCEPT !.read = AddedAt(@, k, product)]
           /\ UNCHANGED console
        \/ /\ me.index < Len(asked.list)
           /\ k > Len(me.monitor.list)
           /\ worker' = [worker EXCEPT ![w].index = k, ![w].timer = asked]
           /\ UNCHANGED <<total, console>>
        \/ /\ me.index >= Len(asked.list)
           /\ worker' = [worker EXCEPT ![w] = Gone(me, asked)]
           /\ console' = 0
           /\ UNCHANGED total
     /\ UNCHANGED <<options, left, now, main, longest>>

----------------------------------------------------------------------------
(* Time *)

\* The list of the timer grows with each round, as long as the second in its
\* memory is under way or to come.
Grows(w) == At(w, "reporting") /\ NsPerSecond(worker[w].timer, now).count > 0

\* A worker is asleep, has to wait, or lists the second under way.
NeedsTime(w) ==
  \/ At(w, "pace") /\ MustWait(worker[w].control, worker[w].hitTime, now)
  \/ At(w, "pace") /\ now < worker[w].wakeAt
  \/ Grows(w) /\ Len(worker[w].timer.list) >= MaxList /\ worker[w].timer.clockPrev <= Horizon

Tick ==
  /\ main.pc = "creating"
  /\ now < StartTime + options.idle \/ \E w \in Pids : NeedsTime(w)
  /\ now' = now + 1
  /\ UNCHANGED <<options, left, main, worker, console, total, longest>>

HasEnded == main.pc \in {"exited", "returned"}

Ended == HasEnded /\ UNCHANGED vars

\* The second in the memory of the timer is too far ahead: the loop goes round
\* with the mutex held.
Hangs(w) == Grows(w) /\ worker[w].timer.clockPrev > Horizon

\* Its further rounds, past the bound of the list.
GoOn == (\E w \in Pids : Hangs(w) /\ Len(worker[w].timer.list) >= MaxList) /\ UNCHANGED vars

Step(w) == \/ BeginControl(w) \/ BeginMonitor(w) \/ NextHit(w) \/ NoMoreHits(w) \/ Pace(w) \/ StopRead(w)
           \/ Report(w) \/ AddTimes(w)

Next == Configure \/ Create \/ Join \/ (\E w \in Pids : Step(w)) \/ Tick \/ Ended \/ GoOn

\* Threads are scheduled and the clock moves.
Fairness ==
  /\ WF_vars(Configure) /\ WF_vars(Create) /\ WF_vars(Join) /\ WF_vars(Tick)
  /\ \A w \in 1..MaxThreads : WF_vars(w \in Pids /\ Step(w))

Spec == Init /\ [][Next]_vars /\ Fairness

----------------------------------------------------------------------------
(* Properties *)

\* Every variable has its type; who reports holds the mutex.
TypeOK ==
  /\ main.pc \in {"configuring", "creating", "exited", "returned"} /\ main.created \in 0..options.threads
  /\ now >= StartTime /\ console \in Pids \cup {0}
  /\ \A w \in Pids :
       /\ worker[w].pc \in {"none", "start", "starting", "next", "pace", "reading",
                           "stopped", "reporting", "done"}
       /\ worker[w].i \in 0..options.requests
       /\ At(w, "none") <=> w > main.created
       /\ At(w, "reporting") <=> console = w

Busy(w) == worker[w].pc \in {"next", "pace", "reading"}

(* Until the monitor stops, every hit is in exactly one second of its      *)
(* list or in the second under way, however long the worker slept, so an   *)
(* empty second is an entry too (rateMonitor, 260-285).  The seconds begin *)
(* where the monitor was started, not with the controller's.               *)
NoEventUncounted ==
  \A w \in Pids : Busy(w) =>
    LET m == worker[w].monitor
    IN /\ Total(m.list) + m.count = worker[w].control.count
       /\ m.clockPrev = worker[w].control.clockPrev + worker[w].late + NANOSECOND * Len(m.list)

\* The list without the last entry, which Stop may have scaled up.
WholeSeconds(w) == LET list == worker[w].monitor.list
                   IN IF Busy(w) \/ list = <<>> THEN list ELSE Front(list)

(* "requests per second (per thread)" (675): the first n seconds list the  *)
(* first event and no more than the asked rate allows from the start of    *)
(* the controller to their end; a worker that was late may catch up within *)
(* them.  The interval loses its fraction, so at a rate that does not      *)
(* divide the second more events pass, but never twice as many.  At a rate *)
(* above a billion there is no limit.                                      *)
NoFasterThanAsked ==
  options.mode = "EVENT_BASED" /\ options.rate \in 1..NANOSECOND =>
    LET atMost == IF NANOSECOND % options.rate = 0 THEN options.rate ELSE 2 * options.rate
    IN \A w \in Pids : \A n \in 1..Len(WholeSeconds(w)) :
         NANOSECOND * Total(SubSeq(WholeSeconds(w), 1, n))
           <= NANOSECOND + atMost * (n * NANOSECOND + worker[w].late)

(* A worker is neither let go early nor asleep too long.  It lists no more *)
(* events than asked for; and it is not asleep any more once the interval  *)
(* of its events has gone by, or the clock, run at the replay rate since   *)
(* the first hit of the worker, is past the time of its hit: it sleeps     *)
(* less than it might and yields for the rest (159-203).                   *)
PacedAsAsked ==
  /\ NoFasterThanAsked
  /\ \A w \in Pids :
       LET me == worker[w]
       IN At(w, "pace") /\ now < me.wakeAt =>
            IF options.mode = "HIT_BASED" THEN VirtualTime(me.control, now) <= me.hitTime
            ELSE MustWait(me.control, me.hitTime, now)

EntryOf(list, i) == IF i <= Len(list) THEN list[i] ELSE 0

(* Whenever nobody holds the mutex the totals are the sums over the        *)
(* workers that are done, second by second: the rates, and the rates times *)
(* the averages of the same entries (857-899).  "Assume that the timer is  *)
(* no longer than the rate because of how they were updated by the child   *)
(* processes" (994): main indexes the rates with positions of the times.   *)
TotalsAreSums ==
  /\ TypeOK
  /\ Len(total.read) <= Len(total.rate)
  /\ console = 0 /\ main.pc = "creating" =>
       LET done == {w \in Pids : At(w, "done")}
       IN /\ \A i \in DOMAIN total.rate :
               total.rate[i] = MapThenSumSet(LAMBDA w : EntryOf(worker[w].monitor.list, i), done)
          /\ \A i \in DOMAIN total.read :
               total.read[i] = MapThenSumSet(LAMBDA w : EntryOf(worker[w].monitor.list, i)
                                                          * EntryOf(worker[w].timer.list, i), done)
          /\ \A w \in done : Len(total.rate) >= Len(worker[w].monitor.list)

(* No average, of a worker or of all, exceeds the longest time any read    *)
(* has taken, though seconds are closed late, averages are listed more     *)
(* than once, and the rates they are weighted with are of other seconds.   *)
NoAverageAboveLongest ==
  /\ \A w \in Pids : \A i \in DOMAIN worker[w].timer.list : worker[w].timer.list[i] <= longest
  /\ main.pc = "returned" => \A i \in DOMAIN total.read : total.read[i] <= longest

(* main returns, or exits because a thread could not be created: waiting   *)
(* workers wake up, the mutex goes round, and the loops over a timer end,  *)
(* although each call they make to learn its length makes it longer.  The  *)
(* exception: a timer was made where the stack held a time still far to    *)
(* come (339-358 leave clockPrev as it is), and something was timed with   *)
(* it; then the loop of 874 goes on for good, consoleMutex held, and main  *)
(* waits.                                                                  *)
MainEnds == <>HasEnded \/ <>[](\E w \in Pids : console = w /\ Hangs(w))
=============================================================================
