------------------------------ MODULE MCHarness ------------------------------
(* One or two workers and up to four hits.  A second has four ticks, so a   *)
(* rate of 3 is rounded to an interval of 1, and 8 to no interval at all.   *)
EXTENDS Harness

\* A time soon to come, and one the clock does not get near.
Soon == StartTime + 3
FarAhead == Horizon + 1

Run(threads, requests, mode, rate, hits, idle, memory) ==
  [threads |-> threads, requests |-> requests, mode |-> mode, rate |-> rate,
   hits |-> hits, idle |-> idle, memory |-> memory]

Events(n) == [i \in 1..n |-> 1]

\* No hits, two workers, more hits than requests; replayed hits in
\* one second, some seconds apart, out of order, and at time 0.
MCScenarios ==
  {Run(1, 2, "EVENT_BASED", 2, <<>>, 7, {0, FarAhead}),
   Run(2, 1, "EVENT_BASED", 0, Events(2), 2, {0}),
   Run(2, 1, "EVENT_BASED", 0, Events(2), 0, {0, FarAhead})}
  \cup {Run(1, 3, "EVENT_BASED", r, Events(4), 6, {0, NANOSECOND, Soon}) : r \in {1, 2, 3}}
  \cup {Run(1, 3, "EVENT_BASED", r, Events(4), 5, {0, Soon, FarAhead}) : r \in {0, 8}}
  \cup {Run(1, 3, "HIT_BASED", r, h, 2, {0, NANOSECOND, FarAhead})
          : r \in {<<1, 1>>, <<2, 1>>, <<1, 2>>},
            h \in {<<5, 8, 8>>, <<7, 6, 9>>, <<0, 3, 5>>}}
=============================================================================
