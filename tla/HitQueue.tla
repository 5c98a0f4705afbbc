------------------------------ MODULE HitQueue ------------------------------
(***************************************************************************)
(* What a hitSource promises the worker threads that share it              *)
(* (src/testharness.cpp: class hitSource and its use in WorkerThread):     *)
(* the recorded hits form one queue, ordered by file and by line; NextHit  *)
(* hands the oldest remaining hit to exactly one caller.                   *)
(* HitSource.tla is shown to implement this module.                        *)
(***************************************************************************)
EXTENDS Naturals

CONSTANT Threads      \* the worker threads of one process

VARIABLES hits,       \* the hits of the replay, as <<file, line>> positions
          got         \* got[t]: the hits thread t has been handed

qvars == <<hits, got>>

\* The order of the recording: by file, then by line.
Before(a, b) == \/ a[1] < b[1]
                \/ a[1] = b[1] /\ a[2] < b[2]

Taken == UNION {got[t] : t \in Threads}

Init == /\ hits \subseteq Nat \X Nat
        /\ got = [t \in Threads |-> {}]

\* NextHit returns true to thread t.
Take(t) == \E h \in hits \ Taken :
             /\ \A k \in hits \ Taken : k = h \/ Before(h, k)
             /\ got' = [got EXCEPT ![t] = @ \cup {h}]
             /\ UNCHANGED hits

Next == \E t \in Threads : Take(t)

Spec == Init /\ [][Next]_qvars
=============================================================================
