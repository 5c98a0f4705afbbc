----------------------------- MODULE FctRun_proofs -----------------------------
(***************************************************************************)
(* What a run of the tests does and says, for every test program: any      *)
(* suites, tests, blocks, arguments and numbers of expected failures.      *)
(*                                                                         *)
(*   BlocksInPlace    each block is executed where it belongs              *)
(*   TestsRunOnce     an undisturbed suite runs its tests once, in order   *)
(*   NoFailureHidden  status and summary agree with the failed checks      *)
(*                                                                         *)
(* IInv carries them: the types (TypeInv), lists and failures that are     *)
(* those of tests that were made (TestsInv), where the walk over the text  *)
(* is and what its mode says of it (WalkInv), and which block was last     *)
(* (PlaceInv).  FlagsInv adds that nothing sets a flag but what is         *)
(* skipped, OnceInv which rounds are complete in each mode, ListsInv that  *)
(* each test is in one list, and EndInv what the end has said.  A block is *)
(* a fold over its checks: IsRun is what the first of them have done.      *)
(***************************************************************************)
EXTENDS FctRun, FoldLemmas

TestType == [passed : Nat, failed : Nat]
Modes == {"cnt", "setup", "test", "teardown", "ending", "end", "abort"}
SuiteType == [mode : Modes, curr : Nat, total : Nat, list : Seq(Nat)]
SpaceType == [testSkip : BOOLEAN, suiteSkip : BOOLEAN, testNum : Nat, currTest : Nat]
BlockNames == {"setup", "test", "teardown"}
EntryType == [suite : Nat, block : BlockNames, test : Nat]

\* The macros within the text of a suite.
Inside == {"top", "setup", "teardown", "test", "suiteEnd"}

\* Every variable has its type.
TypeInv ==
  /\ program \in Programs
  /\ pc \in Inside \cup {"suite", "ended"}
  /\ s \in 1..(Len(program.suites) + 1)
  /\ pc \in Inside => s <= Len(program.suites)
  /\ ts \in SuiteType /\ ns \in SpaceType
  /\ tests \in Seq(TestType)
  /\ ns.currTest <= Len(tests)
  /\ kern = [parsed |-> kern.parsed, filters |-> kern.filters, logger |-> kern.logger,
             tsList |-> kern.tsList]
  /\ kern.logger \in {"none", "standard", "minimal", "junit"}
  /\ kern.tsList \in Seq(Seq(Nat))
  /\ told = [failures |-> told.failures, verdicts |-> told.verdicts, summary |-> told.summary]
  /\ told.failures \in Nat
  /\ log \in Seq(EntryType)
  /\ status \in 0..(StatusLimit - 1)

\* n is the sum of the failures of the tests.
IsFailures(n, made) ==
  \E P \in [0..Len(made) -> Nat] :
    /\ P[0] = 0 /\ P[Len(made)] = n
    /\ \A t \in 1..Len(made) : P[t] = P[t - 1] + made[t].failed

\* Lists name tests that were made, and each failure the logger was told of is
\* one of a test.
TestsInv ==
  /\ \A i \in 1..Len(ts.list) : ts.list[i] \in 1..Len(tests)
  /\ \A l \in 1..Len(kern.tsList) : \A i \in 1..Len(kern.tsList[l]) :
       kern.tsList[l][i] \in 1..Len(tests)
  /\ IsFailures(told.failures, tests)

\* What a mode says of the walk: while tests are counted none was begun; a
\* test to come is counted, and the walk has not passed it.
WalkInv ==
  /\ ts.mode \in {"setup", "test"} => ts.curr < ts.total
  /\ pc \in {"setup", "teardown"} => ns.testNum = 0
  /\ pc = "test" => ns.testNum <= Len(Suite.tests)
  /\ pc = "test" /\ ts.mode = "test" => ns.testNum <= ts.curr
  /\ pc \in Inside /\ ts.mode = "cnt" => /\ ts.curr = 0 /\ pc # "suiteEnd"
                                        /\ ts.total = IF pc = "test" THEN ns.testNum ELSE 0
  /\ pc \in Inside /\ ts.mode # "cnt" => ts.total = Len(Suite.tests)
  /\ pc \in Inside /\ ts.mode = "ending" => ts.curr >= ts.total
  /\ pc = "suiteEnd" => ts.mode \in {"end", "abort"}
  /\ pc \in Inside => kern.parsed
  /\ ~kern.parsed => s = 1

\* The block that was executed before the n-th of l, and the last one, if the
\* same suite did.
Before(l, n) == IF n > 1 /\ l[n - 1].suite = l[n].suite THEN l[n - 1].block ELSE "none"
LastOf(l, i) == IF l # <<>> /\ l[Len(l)].suite = i THEN l[Len(l)].block ELSE "none"

\* A block is where it belongs, and the mode tells which block was last.
BlockBefore(n) == Before(log, n)
LastBlock == LastOf(log, s)
Placed(n) ==
  /\ log[n].block = "test" => /\ BlockBefore(n) = "setup"
                              /\ ~AbortedBy(program.suites[log[n].suite].setup)
                              /\ ~Disabled(log[n].suite, log[n].test)
  /\ log[n].block = "teardown" => BlockBefore(n) \in {"setup", "test"}
  /\ log[n].block = "setup" => BlockBefore(n) \in {"none", "teardown"}

PlaceInv ==
  /\ \A n \in 1..Len(log) : Placed(n)
  /\ \A n \in 1..Len(log) : log[n].suite <= s /\ (pc = "suite" => log[n].suite < s)
  /\ pc \in Inside =>
       /\ ts.mode = "cnt" => LastBlock = "none"
       /\ ts.mode = "setup" => LastBlock \in {"none", "teardown"}
       /\ ts.mode = "test" => LastBlock = "setup" /\ ~AbortedBy(Suite.setup)
       /\ ts.mode = "teardown" => LastBlock \in {"setup", "test"}
       /\ Suite.cond = "no" => ns.suiteSkip

IInv == TypeInv /\ TestsInv /\ WalkInv /\ PlaceInv

\* Nothing of the suites up to i is skipped.
NoSkips(i) == \A j \in 1..i : ~SkipsIn(j)

\* The flags are only set by what is skipped.
FlagsInv ==
  /\ pc \in Inside /\ NoSkips(s) => ~ns.testSkip /\ ~ns.suiteSkip
  /\ pc = "suite" /\ NoSkips(s - 1) => ~ns.testSkip /\ ~ns.suiteSkip

\* Neither skips nor a fixture of suite i keep it from running its tests.
Undisturbed(i) == /\ NoSkips(i)
                  /\ ~AbortedBy(program.suites[i].setup)
                  /\ ~AbortedBy(program.suites[i].teardown)

RoundsUpTo(i, n) == FlattenSeq([k \in 1..n |-> Round(i, k)])

\* What a mode says of the blocks that the suite has executed: the rounds that
\* are complete, and what is done of the next.
Says(t, blocks) ==
  /\ t.mode # "abort"
  /\ t.mode = "cnt" => blocks = <<>>
  /\ t.mode = "setup" => blocks = RoundsUpTo(s, t.curr)
  /\ t.mode = "test" => blocks = RoundsUpTo(s, t.curr) \o <<Executed(s, "setup", 0)>>
  /\ t.mode = "teardown" => /\ t.curr \in 1..t.total
                            /\ blocks \o <<Executed(s, "teardown", 0)>> = RoundsUpTo(s, t.curr)
  /\ t.mode \in {"ending", "end"} => blocks = Rounds(s)

OnceInv ==
  /\ pc \in Inside \cup {"suite"} =>
       \A i \in 1..(s - 1) : Undisturbed(i) => BlocksOf(i) = Rounds(i)
  /\ pc \in Inside /\ Undisturbed(s) => Says(ts, BlocksOf(s))

\* No test is skipped, and no fixture makes tests of its own.
Plain == (\A i \in Suites : ~SkipsIn(i)) /\ (\A b \in Fixtures : ~RequiresIn(b))

\* In plain programs each test gets into one list, in the order in which they
\* are made.
Listed == IF pc \in Inside THEN FlattenSeq(kern.tsList) \o ts.list ELSE FlattenSeq(kern.tsList)

ListsInv ==
  Plain /\ (pc # "ended" \/ CompletelyRun) => Listed = [t \in 1..Len(tests) |-> t]

\* What the status and the summary of a run say that came to its end.
Ends ==
  /\ status # 0 => told.failures > 0
  /\ status = 0 => \/ NumFailed(kern.tsList) % StatusLimit = 0
                   \/ NumFailed(kern.tsList) = program.expected
  /\ told.summary = "PASSED" => status = 0

EndInv == (pc = "ended" \/ told.summary = "") /\ (CompletelyRun => Ends)

----------------------------------------------------------------------------
(* Sums of failures *)

LEMMA NoFailures == IsFailures(0, <<>>)
<1> DEFINE P == [n \in 0..0 |-> 0]
<1>1. P \in [0..0 -> Nat] /\ P[0] = 0
  OBVIOUS
<1>2. /\ P \in [0..Len(<<>>) -> Nat] /\ P[0] = 0 /\ P[Len(<<>>)] = 0
      /\ \A t \in 1..Len(<<>>) : FALSE
  BY <1>1
<1> HIDE DEF P
<1> QED BY <1>2 DEF IsFailures

\* A test that is made has no failures yet.
LEMMA FailuresAppend ==
  ASSUME NEW made \in Seq(TestType), NEW n, IsFailures(n, made)
  PROVE  IsFailures(n, Append(made, NewTest))
<1> DEFINE more == Append(made, NewTest)
           L == Len(made)
<1>1. /\ L \in Nat /\ Len(more) = L + 1 /\ more[L + 1].failed = 0
      /\ \A t \in 1..L : more[t] = made[t]
  BY DEF NewTest
<1>2. PICK P \in [0..L -> Nat] : /\ P[0] = 0 /\ P[L] = n
                                 /\ \A t \in 1..L : P[t] = P[t - 1] + made[t].failed
  BY DEF IsFailures
<1> HIDE DEF more, L
<1> DEFINE Q == [t \in 0..(L + 1) |-> IF t = L + 1 THEN n ELSE P[t]]
<1>3. n \in Nat
  BY <1>1, <1>2
<1>4. Q \in [0..(L + 1) -> Nat] /\ Q[0] = 0 /\ Q[L + 1] = n
  BY <1>1, <1>2, <1>3
<1>5. ASSUME NEW t \in 1..(L + 1) PROVE Q[t] = Q[t - 1] + more[t].failed
  <2>1. CASE t = L + 1
    <3>1. Q[t] = n /\ Q[t - 1] = P[L] /\ more[t].failed = 0
      BY <1>1, <2>1
    <3> QED BY <3>1, <1>2, <1>3
  <2>2. CASE t # L + 1
    <3>1. t \in 1..L /\ t - 1 \in 0..L
      BY <1>1, <2>2
    <3>2. Q[t] = P[t] /\ Q[t - 1] = P[t - 1] /\ more[t] = made[t]
      BY <1>1, <3>1
    <3> QED BY <3>1, <3>2, <1>2
  <2> QED BY <2>1, <2>2
<1> HIDE DEF Q
<1>6. IsFailures(n, more)
  BY <1>1, <1>4, <1>5 DEF IsFailures
<1> QED BY <1>6 DEF more

\* One test has d failures more.
LEMMA FailuresMore ==
  ASSUME NEW made \in Seq(TestType), NEW other \in Seq(TestType), Len(other) = Len(made),
         NEW n, IsFailures(n, made), NEW t \in 1..Len(made), NEW d \in Nat,
         other[t].failed = made[t].failed + d,
         \A u \in 1..Len(made) : u # t => other[u].failed = made[u].failed
  PROVE  n \in Nat /\ IsFailures(n + d, other)
<1> DEFINE L == Len(made)
<1>1. L \in Nat /\ Len(other) = L /\ t \in 1..L
  OBVIOUS
<1>2. \A u \in 1..L : made[u].failed \in Nat
  <2>1. \A u \in 1..L : made[u] \in TestType
    BY ElementOfSeq
  <2> QED BY <2>1 DEF TestType
<1>3. PICK P \in [0..L -> Nat] : /\ P[0] = 0 /\ P[L] = n
                                 /\ \A u \in 1..L : P[u] = P[u - 1] + made[u].failed
  BY DEF IsFailures
<1>4. \A u \in 1..L : u # t => other[u].failed = made[u].failed
  OBVIOUS
<1> HIDE DEF L
<1> DEFINE Q == [u \in 0..L |-> IF u >= t THEN P[u] + d ELSE P[u]]
<1>5. n \in Nat
  BY <1>1, <1>3
<1>6. Q \in [0..L -> Nat] /\ Q[0] = 0 /\ Q[L] = n + d
  BY <1>1, <1>3
<1>7. ASSUME NEW u \in 1..L PROVE Q[u] = Q[u - 1] + other[u].failed
  <2>1. u - 1 \in 0..L /\ u \in 0..L /\ P[u] \in Nat /\ P[u - 1] \in Nat
    BY <1>1, <1>3
  <2>2. P[u] = P[u - 1] + made[u].failed /\ made[u].failed \in Nat
    BY <1>2, <1>3
  <2>3. Q[u] = (IF u >= t THEN P[u] + d ELSE P[u])
        /\ Q[u - 1] = IF u - 1 >= t THEN P[u - 1] + d ELSE P[u - 1]
    BY <2>1
  <2> HIDE DEF Q
  <2>4. CASE u = t
    <3>1. Q[u] = P[u] + d /\ Q[u - 1] = P[u - 1] /\ other[u].failed = made[u].failed + d
      BY <1>1, <2>3, <2>4
    <3> QED BY <3>1, <2>1, <2>2
  <2>5. CASE u # t
    <3>1. u >= t <=> u - 1 >= t
      BY <1>1, <2>5
    <3>2. other[u].failed = made[u].failed
      BY <1>4, <2>5
    <3> QED BY <3>1, <3>2, <2>1, <2>2, <2>3
  <2> QED BY <2>4, <2>5
<1> HIDE DEF Q
<1> QED BY <1>1, <1>5, <1>6, <1>7 DEF IsFailures

----------------------------------------------------------------------------
(* Checks *)

BlockState == [mode : Modes, list : Seq(Nat), tests : Seq(TestType), currTest : Nat,
               failures : Nat, left : BOOLEAN, broken : BOOLEAN]

\* The state of a block, with indices that name tests.
IsBlockState(b) == /\ b \in BlockState /\ b.currTest <= Len(b.tests)
                   /\ \A i \in 1..Len(b.list) : b.list[i] \in 1..Len(b.tests)
                   /\ IsFailures(b.failures, b.tests)

LEMMA CheckFacts ==
  ASSUME NEW b, IsBlockState(b), NEW ok \in BOOLEAN, NEW r, r = Check(b, ok)
  PROVE  /\ IsBlockState(r)
         /\ r.mode = b.mode /\ r.list = b.list /\ r.currTest = b.currTest /\ r.left = b.left
         /\ Len(r.tests) = Len(b.tests)
         /\ r.broken = (b.broken \/ b.currTest = 0)
<1>1. b \in BlockState /\ b.tests \in Seq(TestType) /\ Len(b.tests) \in Nat /\ b.currTest \in Nat
  BY DEF IsBlockState, BlockState
<1>2. CASE b.currTest = 0
  <2>1. r = [b EXCEPT !.broken = TRUE]
    BY <1>2 DEF Check
  <2> QED BY <2>1, <1>1, <1>2 DEF IsBlockState, BlockState
<1>3. CASE b.currTest # 0
  <2> DEFINE t == b.currTest
             d == IF ok THEN 0 ELSE 1
             now == [b.tests EXCEPT ![t] = Counted(@, ok)]
             failures == IF ok THEN b.failures ELSE b.failures + 1
  <2>1. t \in 1..Len(b.tests) /\ b.tests[t] \in TestType
    BY <1>1, <1>3, ElementOfSeq DEF IsBlockState
  <2>2. r = [b EXCEPT !.tests = now, !.failures = failures]
    BY <1>3 DEF Check
  <2>3. Counted(b.tests[t], ok) \in TestType /\ Counted(b.tests[t], ok).failed = b.tests[t].failed + d
    BY <2>1 DEF TestType, Counted
  <2>4. /\ now \in Seq(TestType) /\ Len(now) = Len(b.tests)
        /\ now[t].failed = b.tests[t].failed + d
        /\ \A u \in 1..Len(b.tests) : u # t => now[u].failed = b.tests[u].failed
    <3> HIDE DEF d
    <3> QED BY <2>1, <2>3, <1>1
  <2> HIDE DEF now
  <2>5. b.failures \in Nat /\ failures = b.failures + d /\ d \in Nat
    BY <1>1 DEF BlockState
  <2>6. IsFailures(b.failures + d, now)
    <3> HIDE DEF d
    <3>1. IsFailures(b.failures, b.tests)
      BY DEF IsBlockState
    <3> QED BY <3>1, <2>1, <2>4, <2>5, <1>1, FailuresMore
  <2> HIDE DEF d, failures
  <2>7. /\ r.mode = b.mode /\ r.list = b.list /\ r.currTest = b.currTest /\ r.left = b.left
        /\ r.tests = now /\ r.broken = b.broken /\ r.failures = failures /\ r \in BlockState
    <3>1. failures \in Nat
      BY <2>5
    <3> QED BY <2>2, <2>4, <3>1, <1>1 DEF BlockState
  <2>8. IsFailures(r.failures, r.tests)
    BY <2>5, <2>6, <2>7
  <2>9. \A i \in 1..Len(b.list) : b.list[i] \in 1..Len(b.tests)
    BY DEF IsBlockState
  <2>10. IsBlockState(r)
    BY <2>1, <2>4, <2>7, <2>8, <2>9 DEF IsBlockState
  <2>11. r.broken = (b.broken \/ b.currTest = 0)
    BY <2>7, <1>1, <1>3 DEF BlockState
  <2> QED BY <2>4, <2>7, <2>10, <2>11
<1> QED BY <1>2, <1>3

\* A failed fct_req.
RequiredAndFailed(c) == c.kind = "req" /\ ~c.ok

\* What a check makes of the state of a block that goes on.
IsChecked(b, c, r) ==
  /\ IsBlockState(r) /\ Len(r.tests) >= Len(b.tests)
  /\ c.kind = "chk" \/ b.mode \notin {"setup", "teardown"} =>
       /\ r.mode = b.mode /\ r.list = b.list /\ r.currTest = b.currTest
       /\ Len(r.tests) = Len(b.tests)
       /\ r.broken <=> b.currTest = 0
       /\ r.left <=> RequiredAndFailed(c)
  /\ c.kind = "req" /\ b.mode \in {"setup", "teardown"} =>
       /\ ~r.broken /\ ~r.left
       /\ r.mode = IF c.ok THEN b.mode ELSE "abort"

LEMMA RunCheckFacts ==
  ASSUME NEW b, IsBlockState(b), ~b.left, ~b.broken, NEW c \in CheckType,
         NEW r, r = RunCheck(b, c)
  PROVE  IsChecked(b, c, r)
<1> DEFINE L == Len(b.tests)
<1>1. /\ b \in BlockState /\ L \in Nat /\ b.left = FALSE /\ b.broken = FALSE
      /\ b.tests \in Seq(TestType) /\ b.list \in Seq(Nat) /\ b.currTest \in Nat
  BY DEF IsBlockState, BlockState
<1>2. c.ok \in BOOLEAN /\ c.kind \in {"chk", "req"}
  BY DEF CheckType
<1>3. CASE c.kind = "chk"
  <2>1. r = Check(b, c.ok)
    BY <1>3, <1>1 DEF RunCheck
  <2>2. /\ IsBlockState(r) /\ r.mode = b.mode /\ r.list = b.list /\ r.currTest = b.currTest
        /\ r.left = b.left /\ Len(r.tests) = L /\ r.broken = (b.broken \/ b.currTest = 0)
    BY <2>1, <1>2, CheckFacts
  <2>3. r.broken <=> b.currTest = 0
    BY <2>2, Zenon
  <2>4. ~r.left /\ ~RequiredAndFailed(c)
    BY <2>2, <1>3 DEF RequiredAndFailed
  <2>5. Len(r.tests) >= Len(b.tests)
    BY <2>2, <1>1
  <2> QED BY <2>2, <2>3, <2>4, <2>5, <1>3 DEF IsChecked
<1>4. CASE c.kind = "req" /\ b.mode \notin {"setup", "teardown"}
  <2> DEFINE q == Check(b, c.ok)
  <2>1. r = [q EXCEPT !.left = ~c.ok]
    BY <1>4, <1>1 DEF RunCheck, Require
  <2>2. /\ IsBlockState(q) /\ q.mode = b.mode /\ q.list = b.list /\ q.currTest = b.currTest
        /\ Len(q.tests) = L /\ q.broken = (b.broken \/ b.currTest = 0)
    BY <1>2, CheckFacts
  <2> HIDE DEF q
  <2>3. /\ r \in BlockState /\ r.mode = q.mode /\ r.list = q.list /\ r.currTest = q.currTest
        /\ r.tests = q.tests /\ r.failures = q.failures /\ r.broken = q.broken /\ r.left = ~c.ok
    BY <2>1, <2>2, <1>2 DEF IsBlockState, BlockState
  <2>4. IsBlockState(r)
    BY <2>2, <2>3 DEF IsBlockState
  <2>5. r.broken <=> b.currTest = 0
    BY <2>2, <2>3, Zenon
  <2>6. r.left <=> RequiredAndFailed(c)
    BY <2>3, <1>4 DEF RequiredAndFailed
  <2>7. Len(r.tests) >= Len(b.tests)
    BY <2>2, <2>3, <1>1
  <2> QED BY <2>2, <2>3, <2>4, <2>5, <2>6, <2>7, <1>4 DEF IsChecked
<1>5. CASE c.kind = "req" /\ b.mode \in {"setup", "teardown"}
  <2> DEFINE mock == [b EXCEPT !.tests = Append(b.tests, NewTest), !.currTest = L + 1]
             q == Check(mock, c.ok)
  <2>1. /\ c.ok => r = q
        /\ ~c.ok => r = [q EXCEPT !.mode = "abort", !.list = Append(@, mock.currTest)]
    BY <1>5, <1>1, <1>2 DEF RunCheck, Require
  <2>2. /\ Append(b.tests, NewTest) \in Seq(TestType) /\ Len(Append(b.tests, NewTest)) = L + 1
        /\ IsFailures(b.failures, Append(b.tests, NewTest))
    <3>1. NewTest \in TestType
      BY DEF NewTest, TestType
    <3>2. IsFailures(b.failures, b.tests)
      BY DEF IsBlockState
    <3> QED BY <3>1, <3>2, <1>1, FailuresAppend
  <2>3. /\ mock \in BlockState /\ mock.mode = b.mode /\ mock.list = b.list /\ mock.currTest = L + 1
        /\ mock.failures = b.failures /\ mock.tests = Append(b.tests, NewTest)
        /\ mock.left = FALSE /\ mock.broken = FALSE
    <3>1. L + 1 \in Nat
      BY <1>1
    <3> HIDE DEF L
    <3> QED BY <2>2, <3>1, <1>1 DEF BlockState
  <2> HIDE DEF mock, q
  <2>4. IsBlockState(mock)
    <3>1. \A i \in 1..Len(b.list) : b.list[i] \in 1..L
      BY DEF IsBlockState
    <3>2. \A i \in 1..Len(mock.list) : mock.list[i] \in 1..Len(mock.tests)
      BY <2>2, <2>3, <3>1, <1>1
    <3> QED BY <2>2, <2>3, <3>2, <1>1 DEF IsBlockState
  <2>5. /\ IsBlockState(q) /\ q.mode = b.mode /\ q.list = b.list /\ q.currTest = L + 1 /\ ~q.left
        /\ Len(q.tests) = L + 1 /\ q.broken = FALSE
    <3>1. mock.currTest # 0
      BY <2>3, <1>1
    <3>2. /\ IsBlockState(q) /\ q.mode = mock.mode /\ q.list = mock.list
          /\ q.currTest = mock.currTest /\ q.left = mock.left /\ Len(q.tests) = Len(mock.tests)
          /\ q.broken = (mock.broken \/ mock.currTest = 0)
      BY <2>4, <1>2, CheckFacts DEF q
    <3> QED BY <3>1, <3>2, <2>2, <2>3
  <2>6. CASE c.ok
    BY <2>1, <2>5, <2>6, <1>1, <1>5 DEF IsChecked
  <2>7. CASE ~c.ok
    <3>1. /\ r.mode = "abort" /\ r.list = Append(q.list, L + 1) /\ r.currTest = q.currTest
          /\ r.tests = q.tests /\ r.failures = q.failures /\ r.broken = q.broken /\ r.left = q.left
          /\ r \in BlockState
      <4>1. q \in BlockState /\ q.list \in Seq(Nat) /\ L + 1 \in Nat /\ "abort" \in Modes
        BY <2>5, <1>1 DEF IsBlockState, BlockState, Modes
      <4>2. r = [q EXCEPT !.mode = "abort", !.list = Append(q.list, L + 1)]
        BY <2>1, <2>3, <2>7, <4>1 DEF BlockState
      <4> HIDE DEF L
      <4>3. Append(q.list, L + 1) \in Seq(Nat)
        BY <4>1
      <4> QED BY <4>1, <4>2, <4>3 DEF BlockState
    <3>2. \A i \in 1..Len(q.list) : q.list[i] \in 1..(L + 1)
      BY <2>5 DEF IsBlockState
    <3>3. q.list \in Seq(Nat) /\ L + 1 \in Nat
      BY <2>5, <1>1 DEF IsBlockState, BlockState
    <3>4. \A i \in 1..Len(r.list) : r.list[i] \in 1..(L + 1)
      <4> DEFINE n == L + 1
                 more == Append(q.list, n)
      <4>1. /\ Len(more) = Len(q.list) + 1 /\ more[Len(q.list) + 1] = n
            /\ \A i \in 1..Len(q.list) : more[i] = q.list[i]
        BY <3>3, AppendProperties
      <4>2. Len(q.list) \in Nat /\ n \in 1..n
        BY <3>3, <1>1
      <4> HIDE DEF more, n
      <4>3. \A i \in 1..Len(more) : more[i] \in 1..n
        BY <4>1, <4>2, <3>2 DEF n
      <4> QED BY <4>3, <3>1 DEF more, n
    <3>5. IsBlockState(r)
      BY <3>1, <3>4, <2>5 DEF IsBlockState
    <3> QED BY <3>1, <3>5, <2>5, <2>7, <1>1, <1>5 DEF IsChecked
  <2> QED BY <2>6, <2>7
<1> QED BY <1>2, <1>3, <1>4, <1>5

----------------------------------------------------------------------------
(* Blocks *)

\* What the first n checks of a block make of a.
IsRun(a, block, n, r) ==
  /\ IsBlockState(r) /\ Len(r.tests) >= Len(a.tests)
  /\ a.mode \notin {"setup", "teardown"} =>
       /\ r.mode = a.mode /\ r.list = a.list /\ r.currTest = a.currTest
       /\ Len(r.tests) = Len(a.tests)
       /\ a.currTest # 0 => ~r.broken
  /\ a.mode \in {"setup", "teardown"} =>
       /\ r.mode \in {a.mode, "abort"}
       /\ r.left => r.mode = "abort"
       /\ ~r.broken => (r.mode = "abort" <=> \E m \in 1..n : RequiredAndFailed(block[m]))
  /\ (\A m \in 1..n : block[m].kind # "req") =>
       /\ r.mode = a.mode /\ r.list = a.list /\ r.currTest = a.currTest
       /\ Len(r.tests) = Len(a.tests) /\ ~r.left

\* A block that has not begun.
IsStart(a) == IsBlockState(a) /\ ~a.left /\ ~a.broken

LEMMA NothingRun ==
  ASSUME NEW a, IsStart(a), NEW block
  PROVE  IsRun(a, block, 0, a)
<1>1. a.mode = "abort" => a.mode \notin {"setup", "teardown"}
  OBVIOUS
<1>2. Len(a.tests) >= Len(a.tests) /\ \A m \in 1..0 : FALSE
  BY DEF IsStart, IsBlockState, BlockState
<1> QED BY <1>1, <1>2 DEF IsStart, IsRun

\* One more check.
LEMMA OneMoreCheck ==
  ASSUME NEW a, IsStart(a), NEW block \in Seq(CheckType), NEW n \in 1..Len(block),
         NEW b, IsRun(a, block, n - 1, b), NEW r, r = RunCheck(b, block[n])
  PROVE  IsRun(a, block, n, r)
<1> DEFINE c == block[n]
<1>1. /\ c \in CheckType /\ c.kind \in {"chk", "req"} /\ n - 1 \in Nat
      /\ Len(a.tests) \in Nat /\ Len(b.tests) \in Nat /\ IsBlockState(b)
  <2>1. c \in CheckType /\ n - 1 \in Nat
    OBVIOUS
  <2> QED BY <2>1 DEF IsStart, IsRun, IsBlockState, BlockState, CheckType
<1>2. \A m \in 1..n : m \in 1..(n - 1) \/ m = n
  OBVIOUS
<1>3. \A m \in 1..(n - 1) : m \in 1..n
  OBVIOUS
<1>4. /\ (\E m \in 1..n : RequiredAndFailed(block[m]))
           <=> RequiredAndFailed(c) \/ \E m \in 1..(n - 1) : RequiredAndFailed(block[m])
      /\ (\A m \in 1..n : block[m].kind # "req")
           <=> c.kind # "req" /\ \A m \in 1..(n - 1) : block[m].kind # "req"
  BY <1>2, <1>3
<1> DEFINE someNow == \E m \in 1..n : RequiredAndFailed(block[m])
           some == \E m \in 1..(n - 1) : RequiredAndFailed(block[m])
           noneNow == \A m \in 1..n : block[m].kind # "req"
           none == \A m \in 1..(n - 1) : block[m].kind # "req"
<1>5. /\ someNow <=> RequiredAndFailed(c) \/ some
      /\ noneNow <=> c.kind # "req" /\ none
  BY <1>4
<1>6. /\ Len(b.tests) >= Len(a.tests)
      /\ a.mode \notin {"setup", "teardown"} =>
           /\ b.mode = a.mode /\ b.list = a.list /\ b.currTest = a.currTest
           /\ Len(b.tests) = Len(a.tests) /\ (a.currTest # 0 => ~b.broken)
      /\ a.mode \in {"setup", "teardown"} =>
           /\ b.mode \in {a.mode, "abort"} /\ (b.left => b.mode = "abort")
           /\ ~b.broken => (b.mode = "abort" <=> some)
      /\ none => /\ b.mode = a.mode /\ b.list = a.list /\ b.currTest = a.currTest
                 /\ Len(b.tests) = Len(a.tests) /\ ~b.left
  BY DEF IsRun
<1> HIDE DEF some, someNow, none, noneNow, c
<1> SUFFICES
      /\ IsBlockState(r) /\ Len(r.tests) >= Len(a.tests)
      /\ a.mode \notin {"setup", "teardown"} =>
           /\ r.mode = a.mode /\ r.list = a.list /\ r.currTest = a.currTest
           /\ Len(r.tests) = Len(a.tests) /\ (a.currTest # 0 => ~r.broken)
      /\ a.mode \in {"setup", "teardown"} =>
           /\ r.mode \in {a.mode, "abort"} /\ (r.left => r.mode = "abort")
           /\ ~r.broken => (r.mode = "abort" <=> someNow)
      /\ noneNow => /\ r.mode = a.mode /\ r.list = a.list /\ r.currTest = a.currTest
                    /\ Len(r.tests) = Len(a.tests) /\ ~r.left
  BY DEF IsRun, someNow, noneNow
<1>7. CASE b.left \/ b.broken
  <2>1. r = b
    BY <1>7 DEF RunCheck
  <2>2. a.mode \in {"setup", "teardown"} =>
          (~r.broken => (r.mode = "abort" <=> someNow))
    BY <2>1, <1>5, <1>6, <1>7
  <2> QED BY <2>1, <2>2, <1>1, <1>5, <1>6
<1>8. CASE ~b.left /\ ~b.broken
  <2>1. IsChecked(b, c, r)
    BY <1>1, <1>8, RunCheckFacts DEF c
  <2>2. /\ IsBlockState(r) /\ Len(r.tests) >= Len(b.tests) /\ Len(r.tests) \in Nat
        /\ c.kind = "chk" \/ b.mode \notin {"setup", "teardown"} =>
             /\ r.mode = b.mode /\ r.list = b.list /\ r.currTest = b.currTest
             /\ Len(r.tests) = Len(b.tests)
             /\ (r.broken <=> b.currTest = 0) /\ (r.left <=> RequiredAndFailed(c))
        /\ c.kind = "req" /\ b.mode \in {"setup", "teardown"} =>
             /\ ~r.broken /\ ~r.left /\ r.mode = IF c.ok THEN b.mode ELSE "abort"
    BY <2>1 DEF IsChecked, IsBlockState, BlockState
  <2>3. RequiredAndFailed(c) <=> c.kind = "req" /\ ~c.ok
    BY DEF RequiredAndFailed
  <2>4. Len(r.tests) >= Len(a.tests)
    BY <1>1, <1>6, <2>2
  <2>5. CASE a.mode \notin {"setup", "teardown"}
    BY <1>1, <1>5, <1>6, <2>2, <2>3, <2>4, <2>5
  <2>6. CASE a.mode \in {"setup", "teardown"}
    <3>1. r.mode \in {a.mode, "abort"} /\ (r.left => r.mode = "abort")
      BY <1>1, <1>6, <2>2, <2>3, <2>6
    <3>2. ~r.broken => (r.mode = "abort" <=> someNow)
      BY <1>1, <1>5, <1>6, <1>8, <2>2, <2>3, <2>6
    <3>3. noneNow => /\ r.mode = a.mode /\ r.list = a.list /\ r.currTest = a.currTest
                     /\ Len(r.tests) = Len(a.tests) /\ ~r.left
      BY <1>1, <1>5, <1>6, <2>2, <2>3
    <3> QED BY <2>2, <2>4, <2>6, <3>1, <3>2, <3>3
  <2> QED BY <2>5, <2>6
<1> QED BY <1>7, <1>8

\* A block runs its checks one after the other.
LEMMA BlockRun ==
  ASSUME NEW a, IsStart(a), NEW block \in Seq(CheckType)
  PROVE  IsRun(a, block, Len(block), FoldLeft(RunCheck, a, block))
<1> DEFINE L == Len(block)
           V == {b \in BlockState : IsBlockState(b)}
           step == [x \in V \X (1..L) |-> RunCheck(x[1], block[x[2]])]
           Fold(f) == [s_ \in SUBSET (1..L) |->
                         IF s_ = {} THEN a
                         ELSE RunCheck(f[s_ \ {Max(s_)}], block[Max(s_)])]
<1>0. /\ L \in Nat /\ DOMAIN block = 1..L /\ \A n \in 1..L : block[n] \in CheckType
      /\ a \in V
  BY LenProperties, ElementOfSeq DEF IsStart, IsBlockState
<1>1. /\ step \in [V \X (1..L) -> V]
      /\ \A b \in V, n \in 1..L : step[<<b, n>>] = RunCheck(b, block[n])
  <2>1. ASSUME NEW b \in V, NEW n \in 1..L PROVE RunCheck(b, block[n]) \in V
    <3>1. CASE b.left \/ b.broken
      <4>1. RunCheck(b, block[n]) = b
        BY <3>1 DEF RunCheck
      <4> QED BY <4>1
    <3>2. CASE ~b.left /\ ~b.broken
      <4>1. IsChecked(b, block[n], RunCheck(b, block[n]))
        BY <3>2, <1>0, RunCheckFacts
      <4> QED BY <4>1 DEF IsChecked, IsBlockState
    <3> QED BY <3>1, <3>2
  <2> HIDE DEF V, L
  <2> QED BY <2>1
<1> HIDE DEF step, V
<1>2. PICK g \in [SUBSET (1..L) -> V] : IsFold(g, a, L, step)
  <2> HIDE DEF L, Fold
  <2> QED BY <1>0, <1>1, FoldExists
<1>3. g = Fold(g)
  <2> SUFFICES ASSUME NEW s_ \in SUBSET (1..L), s_ # {}
               PROVE  step[<<g[s_ \ {Max(s_)}], Max(s_)>>] = RunCheck(g[s_ \ {Max(s_)}], block[Max(s_)])
    BY <1>2 DEF IsFold
  <2>1. Max(s_) \in 1..L /\ s_ \ {Max(s_)} \in SUBSET (1..L)
    BY <1>0, MaxFacts
  <2> QED BY <2>1, <1>1, <1>2
<1> DEFINE h == CHOOSE f : f = Fold(f)
<1>4. h = Fold(h)
  <2>1. \E f : f = Fold(f)
    BY <1>3
  <2> HIDE DEF Fold
  <2> QED BY <2>1
<1>5. FoldLeft(RunCheck, a, block) = h[1..L]
  <2>1. FoldLeft(RunCheck, a, block) =
          (CHOOSE f : f = [s_ \in SUBSET DOMAIN block |->
                             IF s_ = {} THEN a
                             ELSE RunCheck(f[s_ \ {Max(s_)}], block[Max(s_)])])[DOMAIN block]
    BY Zenon DEF FoldLeft, MapThenFoldSet
  <2> QED BY <1>0, <2>1
<1> HIDE DEF h
<1>6. IsStepwise(h, V, a, L, step)
  <2>1. h[{}] = a
    BY <1>4
  <2>2. ASSUME NEW s_ \in SUBSET (1..L), s_ # {}, h[s_ \ {Max(s_)}] \in V
        PROVE  h[s_] = step[<<h[s_ \ {Max(s_)}], Max(s_)>>]
    <3>1. Max(s_) \in 1..L
      BY <1>0, <2>2, MaxFacts
    <3>2. h[s_] = RunCheck(h[s_ \ {Max(s_)}], block[Max(s_)])
      BY <1>4, <2>2
    <3> QED BY <3>1, <3>2, <2>2, <1>1
  <2> HIDE DEF L, Fold
  <2>3. IsFoldIn(h, V, a, L, step)
    BY <2>1, <2>2 DEF IsFoldIn
  <2> QED BY <2>3, <1>0, <1>1, FoldSteps
<1> DEFINE S == {n \in 0..L : IsRun(a, block, n, h[1..n])}
<1>7. 0 \in S
  <2>1. h[1..0] = a /\ 0 \in 0..L
    BY <1>0, <1>6 DEF IsStepwise
  <2> QED BY <2>1, NothingRun
<1>8. ASSUME NEW n \in 1..L, n - 1 \in S PROVE n \in S
  <2>1. h[1..n] = step[<<h[1..(n - 1)], n>>] /\ h[1..(n - 1)] \in V
    <3>1. n - 1 \in 0..L
      BY <1>0
    <3> QED BY <3>1, <1>6 DEF IsStepwise
  <2>2. h[1..n] = RunCheck(h[1..(n - 1)], block[n])
    BY <2>1, <1>1
  <2>3. IsRun(a, block, n, h[1..n])
    BY <1>8, <2>2, OneMoreCheck
  <2> QED BY <2>3
<1>9. 0..L \subseteq S
  <2> HIDE DEF S
  <2> QED BY <1>0, <1>7, <1>8, UpTo
<1>10. L \in 0..L
  BY <1>0
<1> QED BY <1>5, <1>9, <1>10

----------------------------------------------------------------------------
(* The program, and frames *)

LEMMA ProgramFacts ==
  ASSUME TypeInv
  PROVE  /\ Len(program.suites) \in Nat /\ DOMAIN program.suites = 1..Len(program.suites)
         /\ program.expected \in Nat
         /\ \A i \in 1..Len(program.suites) :
              /\ program.suites[i].setup \in Seq(CheckType) \cup {NoBlock}
              /\ program.suites[i].teardown \in Seq(CheckType) \cup {NoBlock}
              /\ Len(program.suites[i].tests) \in Nat
              /\ DOMAIN program.suites[i].tests = 1..Len(program.suites[i].tests)
              /\ \A k \in 1..Len(program.suites[i].tests) :
                   program.suites[i].tests[k].body \in Seq(CheckType)
<1>1. program \in Programs
  BY DEF TypeInv
<1>2. program.suites \in Seq(Range(program.suites)) /\ program.expected \in Nat
  BY <1>1, ProgramsAssumption
<1>3. /\ Len(program.suites) \in Nat /\ DOMAIN program.suites = 1..Len(program.suites)
      /\ \A i \in 1..Len(program.suites) : program.suites[i] \in Range(program.suites)
  BY <1>2, LenProperties, ElementOfSeq
<1>4. ASSUME NEW suite \in Range(program.suites)
      PROVE  /\ suite.setup \in Seq(CheckType) \cup {NoBlock}
             /\ suite.teardown \in Seq(CheckType) \cup {NoBlock}
             /\ Len(suite.tests) \in Nat /\ DOMAIN suite.tests = 1..Len(suite.tests)
             /\ \A k \in 1..Len(suite.tests) : suite.tests[k].body \in Seq(CheckType)
  <2>1. /\ {suite.setup, suite.teardown} \subseteq Seq(CheckType) \cup {NoBlock}
        /\ suite.tests \in Seq(Range(suite.tests))
        /\ \A test \in Range(suite.tests) : test.body \in Seq(CheckType)
    BY <1>1, ProgramsAssumption
  <2>2. /\ Len(suite.tests) \in Nat /\ DOMAIN suite.tests = 1..Len(suite.tests)
        /\ \A k \in 1..Len(suite.tests) : suite.tests[k] \in Range(suite.tests)
    BY <2>1, LenProperties, ElementOfSeq
  <2> QED BY <2>1, <2>2
<1> QED BY <1>2, <1>3, <1>4

\* The suite the walk is in.
LEMMA SuiteFacts ==
  ASSUME TypeInv, pc \in Inside
  PROVE  /\ s \in 1..Len(program.suites) /\ s \in Nat
         /\ Suite.setup \in Seq(CheckType) \cup {NoBlock}
         /\ Suite.teardown \in Seq(CheckType) \cup {NoBlock}
         /\ Len(Suite.tests) \in Nat
         /\ \A k \in 1..Len(Suite.tests) : Suite.tests[k].body \in Seq(CheckType)
<1>1. s \in 1..Len(program.suites)
  BY ProgramFacts DEF TypeInv
<1> QED BY <1>1, ProgramFacts DEF Suite

\* Blocks stay where they are.
LEMMA PlacesKept ==
  ASSUME UNCHANGED <<program, log>>
  PROVE  /\ \A n \in 1..Len(log) : Placed(n)' <=> Placed(n)
         /\ s' = s => LastBlock' = LastBlock
BY Zenon DEF Placed, BlockBefore, LastBlock, Disabled, AbortedBy

\* The components of a record that stay when others change.
LEMMA TsFacts ==
  ASSUME TypeInv
  PROVE  /\ ts.mode \in Modes /\ ts.curr \in Nat /\ ts.total \in Nat /\ ts.list \in Seq(Nat)
         /\ ns.testSkip \in BOOLEAN /\ ns.suiteSkip \in BOOLEAN
         /\ ns.testNum \in Nat /\ ns.currTest \in Nat
         /\ Len(tests) \in Nat /\ Len(log) \in Nat
         /\ \A n \in 1..Len(log) : log[n] \in EntryType /\ log[n].suite \in Nat
<1>1. \A n \in 1..Len(log) : log[n] \in EntryType
  BY ElementOfSeq DEF TypeInv
<1>2. \A n \in 1..Len(log) : log[n].suite \in Nat
  BY <1>1 DEF EntryType
<1>3. Len(log) \in Nat /\ Len(tests) \in Nat
  BY LenProperties DEF TypeInv
<1> QED BY <1>1, <1>2, <1>3 DEF TypeInv, SuiteType, SpaceType

----------------------------------------------------------------------------
(* Each macro *)

LEMMA InitIInv == Init => IInv
<1> SUFFICES ASSUME Init PROVE IInv
  OBVIOUS
<1>1. /\ program \in Programs /\ pc = "suite" /\ s = 1 /\ tests = <<>> /\ log = <<>> /\ status = 0
      /\ ts = [mode |-> "cnt", curr |-> 0, total |-> 0, list |-> <<>>]
      /\ ns = [testSkip |-> FALSE, suiteSkip |-> FALSE, testNum |-> 0, currTest |-> 0]
      /\ told = [failures |-> 0, verdicts |-> <<>>, summary |-> ""]
      /\ kern = [parsed |-> FALSE, filters |-> <<>>, logger |-> "none", tsList |-> <<>>]
  BY DEF Init, NewSuite
<1>e. tests = <<>> /\ log = <<>> /\ Len(<<>>) = 0
  BY <1>1
<1>f. \A S : <<>> \in Seq(S)
  OBVIOUS
<1>2. TypeInv
  <2>2. 1 \in 1..(Len(program.suites) + 1)
    <3>1. program.suites \in Seq(Range(program.suites))
      BY <1>1, ProgramsAssumption
    <3> QED BY <3>1, LenProperties
  <2>3. ts \in SuiteType
    BY <1>1, <1>f DEF SuiteType, Modes
  <2>4. ns \in SpaceType /\ ns.currTest = 0
    BY <1>1 DEF SpaceType
  <2>5. 0 \in 0..(StatusLimit - 1)
    BY StatusAssumption
  <2>6. tests \in Seq(TestType) /\ log \in Seq(EntryType) /\ Len(tests) = 0
    BY <1>e, <1>f
  <2>7. /\ kern = [parsed |-> kern.parsed, filters |-> kern.filters, logger |-> kern.logger,
                   tsList |-> kern.tsList]
        /\ kern.logger = "none" /\ kern.tsList = <<>>
        /\ told = [failures |-> told.failures, verdicts |-> told.verdicts, summary |-> told.summary]
        /\ told.failures = 0
    BY <1>1
  <2>8. kern.tsList \in Seq(Seq(Nat))
    BY <2>7, <1>f
  <2>9. /\ program \in Programs /\ pc = "suite" /\ s = 1 /\ status = 0
    BY <1>1
  <2>10. ns.currTest <= Len(tests) /\ told.failures \in Nat
    BY <2>4, <2>6, <2>7
  <2>11. /\ kern = [parsed |-> kern.parsed, filters |-> kern.filters, logger |-> kern.logger,
                   tsList |-> kern.tsList]
         /\ kern.logger \in {"none", "standard", "minimal", "junit"}
         /\ told = [failures |-> told.failures, verdicts |-> told.verdicts, summary |-> told.summary]
    BY <2>7
  <2> QED BY <2>2, <2>3, <2>4, <2>5, <2>6, <2>8, <2>9, <2>10, <2>11 DEF TypeInv, Inside
<1>3. TestsInv
  <2>1. told.failures = 0 /\ tests = <<>> /\ ts.list = <<>> /\ kern.tsList = <<>>
    BY <1>1
  <2> QED BY <2>1, NoFailures DEF TestsInv
<1>4. WalkInv
  <2>1. ts.mode = "cnt"
    BY <1>1
  <2> QED BY <2>1, <1>1 DEF WalkInv, Inside
<1>5. PlaceInv
  <2>1. \A n \in 1..Len(log) : FALSE
    BY <1>e
  <2> QED BY <2>1, <1>1 DEF PlaceInv, Inside
<1> QED BY <1>2, <1>3, <1>4, <1>5 DEF IInv

LEMMA SuiteBeginIInv == ASSUME IInv, SuiteBegin PROVE IInv'
<1>1. TypeInv /\ TestsInv /\ WalkInv /\ PlaceInv /\ pc = "suite"
  BY DEF IInv, SuiteBegin
<1>2. /\ program' = program /\ s' = s /\ tests' = tests /\ told' = told /\ log' = log
      /\ s <= Len(program.suites)
      /\ ts' = [mode |-> "cnt", curr |-> 0, total |-> 0, list |-> <<>>]
      /\ ns' = [ns EXCEPT !.suiteSkip = IF Suite.cond = "none" THEN @ ELSE Suite.cond = "no"]
  BY DEF SuiteBegin, NewSuite
<1>3. /\ ns' \in SpaceType /\ ns'.currTest = ns.currTest
      /\ Suite.cond = "no" => ns'.suiteSkip
  <2>1. ns \in SpaceType
    BY <1>1 DEF TypeInv
  <2> QED BY <1>2, <2>1 DEF SpaceType
<1>4. /\ pc' \in {"top", "ended"}
      /\ status' \in 0..(StatusLimit - 1)
      /\ kern' = [parsed |-> kern'.parsed, filters |-> kern'.filters, logger |-> kern'.logger,
                  tsList |-> kern'.tsList]
      /\ kern'.tsList = kern.tsList
      /\ kern'.logger \in {"none", "standard", "minimal", "junit"}
      /\ pc' = "top" => kern'.parsed
      /\ ~kern'.parsed => s = 1
  <2> DEFINE p == Parse(program.args)
             ends == CommandLineStatus(p)
  <2>1. status \in 0..(StatusLimit - 1) /\ EXIT_FAILURE \in 0..(StatusLimit - 1)
    BY <1>1, StatusAssumption DEF TypeInv, EXIT_FAILURE
  <2>2. ~kern.parsed => s = 1
    BY <1>1 DEF WalkInv
  <2>3. /\ kern = [parsed |-> kern.parsed, filters |-> kern.filters, logger |-> kern.logger,
                   tsList |-> kern.tsList]
        /\ kern.logger \in {"none", "standard", "minimal", "junit"}
    BY <1>1 DEF TypeInv
  <2>4. CASE kern.parsed \/ ends = "go"
    <3>1. pc' = "top" /\ status' = status
      BY <2>4 DEF SuiteBegin
    <3>2. CASE kern.parsed
      <4>1. kern' = kern
        BY <3>2, <2>4 DEF SuiteBegin
      <4> QED BY <3>1, <3>2, <4>1, <2>1, <2>2, <2>3
    <3>3. CASE ~kern.parsed
      <4>1. kern' = [kern EXCEPT !.parsed = TRUE, !.filters = p.params,
                                 !.logger = LoggerTypes[p.logger]]
        BY <3>3, <2>4 DEF SuiteBegin
      <4>2. p.logger \in DOMAIN LoggerTypes
        <5>1. ends = "go"
          BY <2>4, <3>3
        <5> HIDE DEF p
        <5> QED BY <5>1 DEF CommandLineStatus, SelectsLogger
      <4>3. LoggerTypes[p.logger] \in {"standard", "minimal", "junit"}
        BY <4>2, LoggersAssumption
      <4> HIDE DEF p
      <4>4. /\ kern' = [parsed |-> TRUE, filters |-> p.params, logger |-> LoggerTypes[p.logger],
                        tsList |-> kern.tsList]
        BY <4>1, <2>3
      <4> QED BY <3>1, <4>3, <4>4, <2>1
    <3> QED BY <3>2, <3>3
  <2>5. CASE ~(kern.parsed \/ ends = "go")
    <3>1. pc' = "ended" /\ kern' = kern /\ status' \in {0, EXIT_FAILURE}
      BY <2>5 DEF SuiteBegin
    <3>2. 0 \in 0..(StatusLimit - 1)
      BY StatusAssumption
    <3> QED BY <3>1, <3>2, <2>1, <2>2, <2>3
  <2> QED BY <2>4, <2>5
<1>5. TypeInv'
  <2>1. ts' \in SuiteType
    BY <1>2 DEF SuiteType, Modes
  <2>2. kern'.tsList \in Seq(Seq(Nat))
    BY <1>1, <1>4 DEF TypeInv
  <2> QED BY <1>1, <1>2, <1>3, <1>4, <2>1, <2>2 DEF TypeInv, Inside
<1>6. TestsInv'
  <2>1. ts'.list = <<>>
    BY <1>2
  <2> QED BY <1>1, <1>2, <1>4, <2>1 DEF TestsInv
<1>7. WalkInv'
  BY <1>2, <1>4 DEF WalkInv, Inside
<1>8. PlaceInv'
  <2>1. LastBlock' = "none"
    <3>1. ASSUME log # <<>> PROVE log[Len(log)].suite < s /\ log[Len(log)].suite \in Nat
      <4>1. Len(log) \in 1..Len(log)
        BY <3>1, <1>1, TsFacts, EmptySeq DEF TypeInv
      <4> QED BY <4>1, <1>1, TsFacts DEF PlaceInv
    <3> QED BY <3>1, <1>1, <1>2 DEF LastBlock, LastOf, TypeInv
  <2>2. \A n \in 1..Len(log) : Placed(n)'
    BY <1>1, <1>2, PlacesKept DEF PlaceInv
  <2>3. \A n \in 1..Len(log) : log[n].suite <= s
    BY <1>1 DEF PlaceInv
  <2>4. Suite' = Suite
    BY <1>2 DEF Suite
  <2> QED BY <1>2, <1>3, <1>4, <2>1, <2>2, <2>3, <2>4 DEF PlaceInv
<1> QED BY <1>5, <1>6, <1>7, <1>8 DEF IInv

\* A step within the text of a suite that executes no block.
IsQuiet == /\ pc \in Inside /\ pc' \in Inside
           /\ UNCHANGED <<program, s, kern, log, status>>
           /\ told' = [failures |-> told.failures, verdicts |-> told'.verdicts,
                       summary |-> told.summary]
           /\ ts' = [mode |-> ts'.mode, curr |-> ts'.curr, total |-> ts'.total, list |-> ts.list]
           /\ ts'.mode \in Modes /\ ts'.curr \in Nat /\ ts'.total \in Nat
           /\ ns' = [testSkip |-> ns'.testSkip, suiteSkip |-> ns.suiteSkip,
                     testNum |-> ns'.testNum, currTest |-> ns'.currTest]
           /\ ns'.testSkip \in BOOLEAN /\ ns'.testNum \in Nat
           /\ \/ tests' = tests /\ ns'.currTest = ns.currTest
              \/ tests' = Append(tests, NewTest) /\ ns'.currTest = Len(tests) + 1

LEMMA QuietStep ==
  ASSUME IInv, IsQuiet
  PROVE  /\ TypeInv' /\ TestsInv' /\ ns'.suiteSkip = ns.suiteSkip /\ ts'.list = ts.list
         /\ LastBlock' = LastBlock /\ Suite' = Suite
         /\ \A n \in 1..Len(log) : Placed(n)' /\ log'[n].suite <= s' /\ (pc' # "suite")
<1>1. TypeInv /\ TestsInv /\ PlaceInv
  BY DEF IInv
<1>2. ts \in SuiteType /\ ns \in SpaceType /\ tests \in Seq(TestType) /\ Len(tests) \in Nat
  BY <1>1, TsFacts DEF TypeInv
<1>3. ts' \in SuiteType /\ ts'.list = ts.list
  <2>1. ts' = [mode |-> ts'.mode, curr |-> ts'.curr, total |-> ts'.total, list |-> ts.list]
        /\ ts'.mode \in Modes /\ ts'.curr \in Nat /\ ts'.total \in Nat
    BY DEF IsQuiet
  <2> DEFINE m == ts'.mode
             cu == ts'.curr
             to == ts'.total
  <2>2. ts' = [mode |-> m, curr |-> cu, total |-> to, list |-> ts.list]
        /\ m \in Modes /\ cu \in Nat /\ to \in Nat
    BY <2>1
  <2> HIDE DEF m, cu, to
  <2> QED BY <2>2, <1>2 DEF SuiteType
<1>4. /\ tests' \in Seq(TestType) /\ Len(tests') \in Nat /\ Len(tests') >= Len(tests)
      /\ IsFailures(told.failures, tests')
      /\ ns'.currTest \in Nat /\ ns'.currTest <= Len(tests')
  <2>1. IsFailures(told.failures, tests) /\ ns.currTest <= Len(tests) /\ ns.currTest \in Nat
    BY <1>1, TsFacts DEF TestsInv, TypeInv
  <2>2. CASE tests' = tests /\ ns'.currTest = ns.currTest
    BY <1>2, <2>1, <2>2
  <2>3. CASE tests' = Append(tests, NewTest) /\ ns'.currTest = Len(tests) + 1
    <3>1. NewTest \in TestType
      BY DEF NewTest, TestType
    <3>2. Append(tests, NewTest) \in Seq(TestType) /\ Len(Append(tests, NewTest)) = Len(tests) + 1
      BY <1>2, <3>1
    <3>3. IsFailures(told.failures, Append(tests, NewTest))
      BY <1>2, <2>1, FailuresAppend
    <3> QED BY <1>2, <2>3, <3>2, <3>3
  <2> QED BY <2>2, <2>3 DEF IsQuiet
<1>5. ns' \in SpaceType /\ ns'.suiteSkip = ns.suiteSkip
  <2>1. /\ ns'.testSkip \in BOOLEAN /\ ns'.testNum \in Nat /\ ns.suiteSkip \in BOOLEAN
        /\ ns' = [testSkip |-> ns'.testSkip, suiteSkip |-> ns.suiteSkip,
                  testNum |-> ns'.testNum, currTest |-> ns'.currTest]
    BY <1>1, TsFacts DEF IsQuiet
  <2> DEFINE ta == ns'.testSkip
             tb == ns'.testNum
             tc == ns'.currTest
  <2>2. /\ ta \in BOOLEAN /\ tb \in Nat /\ tc \in Nat /\ ns.suiteSkip \in BOOLEAN
        /\ ns' = [testSkip |-> ta, suiteSkip |-> ns.suiteSkip, testNum |-> tb, currTest |-> tc]
    BY <1>4, <2>1
  <2> HIDE DEF ta, tb, tc
  <2> QED BY <2>2 DEF SpaceType
<1>6. told'.failures = told.failures /\ told.failures \in Nat
      /\ told' = [failures |-> told'.failures, verdicts |-> told'.verdicts, summary |-> told'.summary]
  <2>1. told' = [failures |-> told.failures, verdicts |-> told'.verdicts, summary |-> told.summary]
    BY DEF IsQuiet
  <2>2. told.failures \in Nat
    BY <1>1 DEF TypeInv
  <2> DEFINE v == told'.verdicts
  <2>3. told' = [failures |-> told.failures, verdicts |-> v, summary |-> told.summary]
    BY <2>1
  <2> HIDE DEF v
  <2> QED BY <2>2, <2>3
<1>7. /\ UNCHANGED <<program, s, kern, log, status>> /\ pc' \in Inside /\ pc \in Inside
  BY DEF IsQuiet
<1>8. TypeInv'
  BY <1>1, <1>3, <1>4, <1>5, <1>6, <1>7 DEF TypeInv
<1>9. TestsInv'
  <2>1. \A i \in 1..Len(tests) : i \in 1..Len(tests')
    BY <1>2, <1>4
  <2> QED BY <1>1, <1>3, <1>4, <1>6, <1>7, <2>1 DEF TestsInv
<1>10. LastBlock' = LastBlock /\ \A n \in 1..Len(log) : Placed(n)'
  BY <1>1, <1>7, PlacesKept DEF PlaceInv
<1>11. Suite' = Suite /\ pc' # "suite" /\ \A n \in 1..Len(log) : log'[n].suite <= s'
  BY <1>1, <1>7 DEF Suite, Inside, PlaceInv
<1> QED BY <1>3, <1>5, <1>8, <1>9, <1>10, <1>11

\* What remains for such a step is what its mode says.
LEMMA QuietIInv ==
  ASSUME IInv, IsQuiet, WalkInv',
         ts'.mode = ts.mode \/ /\ ts'.mode = "teardown" => LastBlock \in {"setup", "test"}
                               /\ ts'.mode = "setup" => LastBlock \in {"none", "teardown"}
                               /\ ts'.mode \notin {"cnt", "test"}
  PROVE  IInv'
<1>1. /\ TypeInv' /\ TestsInv' /\ ns'.suiteSkip = ns.suiteSkip
      /\ LastBlock' = LastBlock /\ Suite' = Suite /\ log' = log /\ pc \in Inside
      /\ \A n \in 1..Len(log) : Placed(n)' /\ log'[n].suite <= s' /\ (pc' # "suite")
  BY QuietStep DEF IsQuiet
<1>2. /\ ts.mode = "cnt" => LastBlock = "none"
      /\ ts.mode = "setup" => LastBlock \in {"none", "teardown"}
      /\ ts.mode = "test" => LastBlock = "setup" /\ ~AbortedBy(Suite.setup)
      /\ ts.mode = "teardown" => LastBlock \in {"setup", "test"}
      /\ Suite.cond = "no" => ns.suiteSkip
  BY <1>1 DEF IInv, PlaceInv
<1>3. PlaceInv'
  <2>1. /\ ts'.mode = "cnt" => LastBlock = "none"
        /\ ts'.mode = "setup" => LastBlock \in {"none", "teardown"}
        /\ ts'.mode = "test" => LastBlock = "setup" /\ ~AbortedBy(Suite.setup)
        /\ ts'.mode = "teardown" => LastBlock \in {"setup", "test"}
    BY <1>2
  <2> QED BY <1>1, <1>2, <2>1 DEF PlaceInv
<1> QED BY <1>1, <1>3 DEF IInv

\* Records by their components.
LEMMA Records ==
  ASSUME TypeInv
  PROVE  /\ ts = [mode |-> ts.mode, curr |-> ts.curr, total |-> ts.total, list |-> ts.list]
         /\ ns = [testSkip |-> ns.testSkip, suiteSkip |-> ns.suiteSkip,
                  testNum |-> ns.testNum, currTest |-> ns.currTest]
         /\ told = [failures |-> told.failures, verdicts |-> told.verdicts, summary |-> told.summary]
BY DEF TypeInv, SuiteType, SpaceType

LEMMA TopIInv == ASSUME IInv, Top PROVE IInv'
<1>1. /\ TypeInv /\ WalkInv /\ PlaceInv /\ pc = "top" /\ pc \in Inside
      /\ UNCHANGED <<program, s, tests, kern, told, log, status>>
      /\ ns' = [ns EXCEPT !.testNum = 0]
  BY DEF IInv, Top, Inside
<1>2. /\ ts.mode \in {"ending", "abort"} => ts' = [ts EXCEPT !.mode = "end"] /\ pc' = "suiteEnd"
      /\ ts.mode \notin {"ending", "abort"} => ts' = ts /\ pc' = "setup"
  BY DEF Top
<1>3. /\ ts' = [mode |-> ts'.mode, curr |-> ts.curr, total |-> ts.total, list |-> ts.list]
      /\ ts'.mode = IF ts.mode \in {"ending", "abort"} THEN "end" ELSE ts.mode
      /\ ns' = [testSkip |-> ns.testSkip, suiteSkip |-> ns.suiteSkip, testNum |-> 0,
                currTest |-> ns.currTest]
  BY <1>1, <1>2, Records
<1>4. /\ pc' = IF ts.mode \in {"ending", "abort"} THEN "suiteEnd" ELSE "setup"
      /\ Suite' = Suite
  BY <1>1, <1>2 DEF Suite
<1>5. IsQuiet
  <2>1. /\ ts'.curr = ts.curr /\ ts'.total = ts.total /\ ns'.testNum = 0
        /\ ns'.testSkip = ns.testSkip /\ ns'.currTest = ns.currTest
    BY <1>3
  <2>2. pc' \in Inside /\ ts'.mode \in Modes
    BY <1>1, <1>3, <1>4, TsFacts DEF Inside, Modes
  <2>3. told' = [failures |-> told.failures, verdicts |-> told'.verdicts, summary |-> told.summary]
    BY <1>1, Records
  <2>4. /\ ts' = [mode |-> ts'.mode, curr |-> ts'.curr, total |-> ts'.total, list |-> ts.list]
        /\ ns' = [testSkip |-> ns'.testSkip, suiteSkip |-> ns.suiteSkip,
                  testNum |-> ns'.testNum, currTest |-> ns'.currTest]
    BY <1>3, <2>1
  <2>5. /\ UNCHANGED <<program, s, tests, kern, log, status>> /\ pc \in Inside
        /\ ts'.curr \in Nat /\ ts'.total \in Nat /\ ns'.testNum \in Nat /\ ns'.testSkip \in BOOLEAN
    BY <1>1, <2>1, TsFacts
  <2> QED BY <2>1, <2>2, <2>3, <2>4, <2>5 DEF IsQuiet
<1>6. WalkInv'
  <2>1. /\ ts'.curr = ts.curr /\ ts'.total = ts.total /\ ns'.testNum = 0
    BY <1>3
  <2> QED BY <1>1, <1>3, <1>4, <2>1 DEF WalkInv, Inside
<1> QED BY <1>3, <1>5, <1>6, QuietIInv

LEMMA PassFixtureIInv ==
  ASSUME IInv, NEW goesTo,
         (pc = "setup" /\ goesTo = "teardown") \/ (pc = "teardown" /\ goesTo = "test"),
         PassFixture(goesTo), UNCHANGED <<program, s, kern>>
  PROVE  IInv'
<1>1. /\ TypeInv /\ WalkInv /\ PlaceInv /\ pc \in {"setup", "teardown"} /\ pc \in Inside
      /\ pc' \in {"teardown", "test"} /\ pc' \in Inside
      /\ UNCHANGED <<program, s, kern, ts, ns, tests, told, log, status>>
  BY DEF IInv, PassFixture, Inside
<1>2. IsQuiet
  BY <1>1, Records, TsFacts DEF IsQuiet
<1>3. WalkInv'
  <2>1. Suite' = Suite /\ s \in 1..Len(program.suites) /\ Len(Suite.tests) \in Nat
    BY <1>1, SuiteFacts DEF Suite
  <2> QED BY <1>1, <2>1, TsFacts DEF WalkInv, Inside
<1> QED BY <1>1, <1>2, <1>3, QuietIInv

\* What an action at a test of the text starts from.
LEMMA AtTestFacts ==
  ASSUME IInv, NEW k, AtTest(k)
  PROVE  /\ TypeInv /\ TestsInv /\ WalkInv /\ PlaceInv /\ pc = "test" /\ pc \in Inside
         /\ k = ns.testNum + 1 /\ k \in 1..Len(Suite.tests) /\ Len(Suite.tests) \in Nat
<1>1. TypeInv /\ TestsInv /\ WalkInv /\ PlaceInv /\ pc = "test" /\ pc \in Inside
      /\ k = ns.testNum + 1 /\ k <= Len(Suite.tests)
  BY DEF IInv, AtTest, Inside
<1> QED BY <1>1, SuiteFacts, TsFacts

LEMMA PassByIInv == ASSUME IInv, NEW k, PassBy(k) PROVE IInv'
<1>1. /\ TypeInv /\ TestsInv /\ WalkInv /\ PlaceInv /\ pc = "test" /\ pc \in Inside
      /\ k = ns.testNum + 1 /\ k \in 1..Len(Suite.tests) /\ Len(Suite.tests) \in Nat
  BY AtTestFacts DEF PassBy
<1>2. /\ UNCHANGED <<program, pc, s, tests, kern, told, log, status>>
      /\ ts' = (IF ts.mode = "cnt" THEN [ts EXCEPT !.total = @ + 1] ELSE ts)
      /\ ns' = [ns EXCEPT !.testNum = k, !.testSkip = FlagPast(k)]
      /\ ~(ts.mode = "test" /\ ts.curr = k - 1)
  BY DEF PassBy, IsTurnOf
<1>3. /\ ts' = [mode |-> ts.mode, curr |-> ts.curr,
                total |-> IF ts.mode = "cnt" THEN ts.total + 1 ELSE ts.total, list |-> ts.list]
      /\ ns' = [testSkip |-> FlagPast(k), suiteSkip |-> ns.suiteSkip, testNum |-> k,
                currTest |-> ns.currTest]
      /\ Suite' = Suite /\ FlagPast(k) \in BOOLEAN
  <2> DEFINE skip == FlagPast(k)
  <2>1. skip \in BOOLEAN
    BY DEF FlagPast
  <2>2. ns' = [ns EXCEPT !.testNum = k, !.testSkip = skip]
    BY <1>2
  <2> HIDE DEF skip
  <2>3. ns' = [testSkip |-> skip, suiteSkip |-> ns.suiteSkip, testNum |-> k,
               currTest |-> ns.currTest]
    BY <1>1, <2>2, Records
  <2>4. ts' = [mode |-> ts.mode, curr |-> ts.curr,
               total |-> IF ts.mode = "cnt" THEN ts.total + 1 ELSE ts.total, list |-> ts.list]
    BY <1>1, <1>2, Records
  <2> QED BY <2>1, <2>3, <2>4, <1>2 DEF skip, Suite
<1>4. /\ ts'.mode = ts.mode /\ ts'.curr = ts.curr /\ ts'.list = ts.list
      /\ ts'.total = (IF ts.mode = "cnt" THEN ts.total + 1 ELSE ts.total)
      /\ ns'.testNum = k /\ ns'.currTest = ns.currTest /\ ns'.suiteSkip = ns.suiteSkip
      /\ ns'.testSkip \in BOOLEAN
  BY <1>3
<1>5. told' = [failures |-> told.failures, verdicts |-> told'.verdicts, summary |-> told.summary]
  BY <1>1, <1>2, Records
<1>6. IsQuiet
  <2>1. k \in Nat /\ ts'.total \in Nat
    BY <1>1, <1>4, TsFacts
  <2>2. /\ ts' = [mode |-> ts'.mode, curr |-> ts'.curr, total |-> ts'.total, list |-> ts.list]
        /\ ns' = [testSkip |-> ns'.testSkip, suiteSkip |-> ns.suiteSkip,
                  testNum |-> ns'.testNum, currTest |-> ns'.currTest]
    BY <1>3, <1>4
  <2>3. UNCHANGED <<program, pc, s, tests, kern, log, status>>
    BY <1>2
  <2>4. ts'.mode \in Modes /\ ts'.curr \in Nat /\ ns'.testNum \in Nat
    BY <1>1, <1>4, <2>1, TsFacts
  <2> QED BY <1>1, <1>4, <1>5, <2>1, <2>2, <2>3, <2>4 DEF IsQuiet
<1>7. WalkInv'
  <2>1. ts.mode = "test" => k <= ts.curr
    BY <1>1, <1>2, TsFacts DEF WalkInv
  <2> QED BY <1>1, <1>2, <1>3, <1>4, <2>1, TsFacts DEF WalkInv, Inside
<1> QED BY <1>4, <1>6, <1>7, QuietIInv

\* A test that does not pass the filters, or is skipped, sends the walk to
\* the teardown.
LEMMA NotRunIInv ==
  ASSUME IInv, NEW k, AtTest(k), IsTurnOf(k), NEW n \in Nat, n >= 1, pc' = "top",
         UNCHANGED <<program, s, kern, log, status>>,
         told' = [failures |-> told.failures, verdicts |-> told'.verdicts, summary |-> told.summary],
         ts' = [ts EXCEPT !.curr = @ + n, !.mode = "teardown"],
         NEW c, ns' = [ns EXCEPT !.testNum = k, !.testSkip = FlagAt(k), !.currTest = c],
         \/ tests' = tests /\ c = ns.currTest
         \/ tests' = Append(tests, NewTest) /\ c = Len(tests) + 1
  PROVE  IInv'
<1>1. /\ TypeInv /\ TestsInv /\ WalkInv /\ PlaceInv /\ pc = "test" /\ pc \in Inside
      /\ k = ns.testNum + 1 /\ k \in 1..Len(Suite.tests) /\ Len(Suite.tests) \in Nat
  BY AtTestFacts
<1>2. ts.mode = "test" /\ LastBlock = "setup"
  BY <1>1 DEF IsTurnOf, PlaceInv
<1> DEFINE skip == FlagAt(k)
<1>3. skip \in BOOLEAN
  BY <1>1, TsFacts DEF FlagAt
<1>4. ns' = [ns EXCEPT !.testNum = k, !.testSkip = skip, !.currTest = c]
  OBVIOUS
<1> HIDE DEF skip
<1>5. /\ ts'.mode = "teardown" /\ ts'.curr = ts.curr + n /\ ts'.total = ts.total
      /\ ts' = [mode |-> ts'.mode, curr |-> ts'.curr, total |-> ts'.total, list |-> ts.list]
  BY <1>1, Records
<1>6. /\ ns'.testNum = k /\ ns'.testSkip = skip /\ ns'.suiteSkip = ns.suiteSkip /\ ns'.currTest = c
      /\ ns' = [testSkip |-> ns'.testSkip, suiteSkip |-> ns.suiteSkip,
                testNum |-> ns'.testNum, currTest |-> ns'.currTest]
  BY <1>1, <1>4, Records
<1>7. IsQuiet
  <2>1. "top" \in Inside /\ "teardown" \in Modes
    BY DEF Inside, Modes
  <2>2. ts'.curr \in Nat /\ ts'.total \in Nat /\ ns'.testNum \in Nat /\ ns'.testSkip \in BOOLEAN
    BY <1>1, <1>3, <1>5, <1>6, TsFacts
  <2>3. \/ tests' = tests /\ ns'.currTest = ns.currTest
        \/ tests' = Append(tests, NewTest) /\ ns'.currTest = Len(tests) + 1
    BY <1>6
  <2> QED BY <1>1, <1>5, <1>6, <2>1, <2>2, <2>3 DEF IsQuiet
<1>8. WalkInv'
  <2>1. Suite' = Suite
    BY DEF Suite
  <2> QED BY <1>1, <1>2, <1>5, <1>6, <2>1 DEF WalkInv, Inside
<1> QED BY <1>2, <1>5, <1>7, <1>8, QuietIInv

LEMMA FilteredIInv == ASSUME IInv, NEW k, Filtered(k) PROVE IInv'
<1>1. /\ AtTest(k) /\ IsTurnOf(k) /\ pc' = "top"
      /\ UNCHANGED <<program, s, tests, kern, told, log, status>>
      /\ ts' = [ts EXCEPT !.curr = @ + 1, !.mode = "teardown"]
      /\ ns' = [ns EXCEPT !.testNum = k, !.testSkip = FlagAt(k)]
  BY DEF Filtered
<1>2. TypeInv
  BY DEF IInv
<1>3. told' = [failures |-> told.failures, verdicts |-> told'.verdicts, summary |-> told.summary]
  BY <1>1, <1>2, Records
<1>4. ns' = [ns EXCEPT !.testNum = k, !.testSkip = FlagAt(k), !.currTest = ns.currTest]
  <2> DEFINE skip == FlagAt(k)
  <2>1. ns' = [ns EXCEPT !.testNum = k, !.testSkip = skip]
    BY <1>1
  <2> HIDE DEF skip
  <2>2. ns' = [ns EXCEPT !.testNum = k, !.testSkip = skip, !.currTest = ns.currTest]
    BY <2>1, <1>2, Records
  <2> QED BY <2>2 DEF skip
<1> DEFINE c == ns.currTest
<1>5. /\ ns' = [ns EXCEPT !.testNum = k, !.testSkip = FlagAt(k), !.currTest = c]
      /\ tests' = tests /\ c = ns.currTest
  BY <1>1, <1>4
<1> HIDE DEF c
<1>6. 1 \in Nat /\ 1 >= 1
  OBVIOUS
<1> QED BY <1>1, <1>3, <1>5, <1>6, NotRunIInv

LEMMA SkipIInv == ASSUME IInv, NEW k, Skip(k) PROVE IInv'
<1>1. /\ AtTest(k) /\ IsTurnOf(k) /\ pc' = "top"
      /\ UNCHANGED <<program, s, kern, log, status>>
      /\ ts' = [ts EXCEPT !.curr = @ + 2, !.mode = "teardown"]
      /\ tests' = Append(tests, NewTest)
      /\ ns' = [ns EXCEPT !.testNum = k, !.testSkip = FlagAt(k), !.currTest = Len(tests) + 1]
      /\ told' = [told EXCEPT !.verdicts = LogVerdict(@, "SKIP")]
  BY DEF Skip
<1>2. TypeInv
  BY DEF IInv
<1>3. told' = [failures |-> told.failures, verdicts |-> told'.verdicts, summary |-> told.summary]
  <2> DEFINE v == LogVerdict(told.verdicts, "SKIP")
  <2>1. told = [failures |-> told.failures, verdicts |-> told.verdicts, summary |-> told.summary]
    BY <1>2, Records
  <2>2. told' = [told EXCEPT !.verdicts = v]
    BY <1>1, <2>1
  <2> HIDE DEF v
  <2> QED BY <2>1, <2>2
<1> DEFINE c == Len(tests) + 1
<1>4. /\ ns' = [ns EXCEPT !.testNum = k, !.testSkip = FlagAt(k), !.currTest = c]
      /\ tests' = Append(tests, NewTest) /\ c = Len(tests) + 1
  BY <1>1
<1> HIDE DEF c
<1>5. 2 \in Nat /\ 2 >= 1
  OBVIOUS
<1> QED BY <1>1, <1>3, <1>4, <1>5, NotRunIInv

LEMMA BottomIInv == ASSUME IInv, Bottom PROVE IInv'
<1>1. /\ TypeInv /\ WalkInv /\ PlaceInv /\ pc = "test" /\ pc \in Inside
      /\ ns.testNum = Len(Suite.tests) /\ pc' = "top"
      /\ UNCHANGED <<program, s, ns, tests, kern, told, log, status>>
  BY DEF IInv, Bottom, Inside
<1>2. Suite' = Suite /\ Len(Suite.tests) \in Nat
  BY <1>1, SuiteFacts DEF Suite
<1>3. /\ ts' = [mode |-> ts'.mode, curr |-> ts'.curr, total |-> ts'.total, list |-> ts.list]
      /\ ts'.mode = IF ts.mode = "cnt" THEN IF ts.total = 0 THEN "ending" ELSE "setup" ELSE ts.mode
      /\ ts'.curr = ts.curr /\ ts'.total = ts.total
  <2>1. ts' = IF ts.mode = "cnt"
              THEN [ts EXCEPT !.mode = IF ts.total = 0 THEN "ending" ELSE "setup"] ELSE ts
    BY DEF Bottom
  <2>0. ts = [mode |-> ts.mode, curr |-> ts.curr, total |-> ts.total, list |-> ts.list]
    BY <1>1, Records
  <2>2. CASE ts.mode = "cnt"
    <3> DEFINE m == IF ts.total = 0 THEN "ending" ELSE "setup"
    <3>1. ts' = [ts EXCEPT !.mode = m]
      BY <2>1, <2>2
    <3> HIDE DEF m
    <3>2. /\ ts' = [mode |-> m, curr |-> ts.curr, total |-> ts.total, list |-> ts.list]
      BY <1>1, <3>1, Records
    <3> QED BY <2>2, <3>2 DEF m
  <2>3. CASE ts.mode # "cnt"
    <3>1. ts' = ts
      BY <2>1, <2>3
    <3> QED BY <2>0, <2>3, <3>1
  <2> QED BY <2>2, <2>3
<1>4. IsQuiet
  <2>1. /\ ns' = [testSkip |-> ns'.testSkip, suiteSkip |-> ns.suiteSkip,
                  testNum |-> ns'.testNum, currTest |-> ns'.currTest]
        /\ told' = [failures |-> told.failures, verdicts |-> told'.verdicts, summary |-> told.summary]
    BY <1>1, Records
  <2>2. "top" \in Inside /\ ts'.mode \in Modes
    BY <1>1, <1>3, TsFacts DEF Inside, Modes
  <2> QED BY <1>1, <1>3, <2>1, <2>2, TsFacts DEF IsQuiet
<1>5. ts.mode = "cnt" => ts.curr = 0 /\ ts.total = Len(Suite.tests) /\ LastBlock = "none"
  BY <1>1 DEF WalkInv, PlaceInv
<1>6. ts.mode # "test"
  BY <1>1, TsFacts DEF WalkInv
<1>7. WalkInv'
  BY <1>1, <1>2, <1>3, <1>5, <1>6, TsFacts DEF WalkInv, Inside
<1> QED BY <1>3, <1>4, <1>5, <1>6, <1>7, QuietIInv

LEMMA SuiteEndIInv == ASSUME IInv, SuiteEnd PROVE IInv'
<1>1. /\ TypeInv /\ TestsInv /\ WalkInv /\ PlaceInv /\ pc = "suiteEnd" /\ pc \in Inside
      /\ UNCHANGED <<program, ts, tests, log>>
      /\ kern' = [kern EXCEPT !.tsList = Append(@, ts.list)]
  BY DEF IInv, SuiteEnd, Inside
<1>2. /\ s \in 1..Len(program.suites) /\ s \in Nat /\ ts.mode \in {"end", "abort"} /\ kern.parsed
  BY <1>1, SuiteFacts DEF WalkInv
<1>3. \/ pc' = "ended" /\ status' = EXIT_FAILURE /\ UNCHANGED <<s, ns, told>>
      \/ /\ pc' = "suite" /\ s' = s + 1 /\ status' = status
         /\ told' = [told EXCEPT !.verdicts = LogSuiteEnd(@)]
         /\ ns' = [ns EXCEPT !.suiteSkip = Suite.cond = "none" /\ @]
  BY DEF SuiteEnd
<1>4. /\ kern' = [parsed |-> kern'.parsed, filters |-> kern'.filters, logger |-> kern'.logger,
                  tsList |-> kern'.tsList]
      /\ kern'.tsList = Append(kern.tsList, ts.list) /\ kern'.parsed /\ kern'.logger = kern.logger
  <2>1. /\ kern = [parsed |-> kern.parsed, filters |-> kern.filters, logger |-> kern.logger,
                  tsList |-> kern.tsList]
    BY <1>1 DEF TypeInv
  <2> DEFINE list == Append(kern.tsList, ts.list)
  <2>2. kern' = [kern EXCEPT !.tsList = list]
    BY <1>1, <2>1
  <2> HIDE DEF list
  <2>3. kern' = [parsed |-> kern.parsed, filters |-> kern.filters, logger |-> kern.logger,
                 tsList |-> list]
    BY <2>1, <2>2
  <2> QED BY <1>2, <2>3 DEF list
<1>5. /\ kern.tsList \in Seq(Seq(Nat)) /\ ts.list \in Seq(Nat) /\ Len(kern.tsList) \in Nat
      /\ Append(kern.tsList, ts.list) \in Seq(Seq(Nat))
      /\ Len(Append(kern.tsList, ts.list)) = Len(kern.tsList) + 1
      /\ Append(kern.tsList, ts.list)[Len(kern.tsList) + 1] = ts.list
      /\ \A l \in 1..Len(kern.tsList) : Append(kern.tsList, ts.list)[l] = kern.tsList[l]
  <2>1. kern.tsList \in Seq(Seq(Nat)) /\ ts.list \in Seq(Nat)
    BY <1>1, TsFacts DEF TypeInv
  <2> QED BY <2>1, AppendProperties, LenProperties
<1>6. /\ told' = [failures |-> told'.failures, verdicts |-> told'.verdicts, summary |-> told'.summary]
      /\ told'.failures = told.failures
  <2>1. told = [failures |-> told.failures, verdicts |-> told.verdicts, summary |-> told.summary]
    BY <1>1, Records
  <2> DEFINE v == LogSuiteEnd(told.verdicts)
  <2>2. told' = told \/ told' = [told EXCEPT !.verdicts = v]
    BY <1>3, <2>1
  <2> HIDE DEF v
  <2> QED BY <2>1, <2>2
<1>7. /\ ns' \in SpaceType /\ ns'.currTest = ns.currTest
  <2> DEFINE skip == Suite.cond = "none" /\ ns.suiteSkip
  <2>1. ns' = ns \/ ns' = [ns EXCEPT !.suiteSkip = skip]
    BY <1>3
  <2>2. skip \in BOOLEAN /\ ns \in SpaceType
    BY <1>1 DEF TypeInv
  <2> HIDE DEF skip
  <2> QED BY <2>1, <2>2 DEF SpaceType
<1>8. /\ pc' \in {"suite", "ended"} /\ s' \in 1..(Len(program.suites) + 1)
      /\ s' >= s /\ s' \in Nat /\ (pc' = "suite" => s' = s + 1)
      /\ status' \in 0..(StatusLimit - 1)
  <2>1. status \in 0..(StatusLimit - 1) /\ EXIT_FAILURE \in 0..(StatusLimit - 1)
    BY <1>1, StatusAssumption DEF TypeInv, EXIT_FAILURE
  <2>2. Len(program.suites) \in Nat
    BY <1>1, ProgramFacts
  <2> QED BY <1>2, <1>3, <2>1, <2>2
<1>9. TypeInv'
  <2>1. pc' \notin Inside
    BY <1>8 DEF Inside
  <2> QED BY <1>1, <1>4, <1>5, <1>6, <1>7, <1>8, <2>1 DEF TypeInv
<1>10. TestsInv'
  <2> DEFINE more == kern'.tsList
  <2>1. /\ Len(more) = Len(kern.tsList) + 1 /\ more[Len(kern.tsList) + 1] = ts.list
        /\ \A l \in 1..Len(kern.tsList) : more[l] = kern.tsList[l]
    BY <1>4, <1>5
  <2>2. \A l \in 1..Len(more) : l \in 1..Len(kern.tsList) \/ l = Len(kern.tsList) + 1
    BY <1>5, <2>1
  <2> HIDE DEF more
  <2>3. \A l \in 1..Len(more) : \A i \in 1..Len(more[l]) : more[l][i] \in 1..Len(tests)
    BY <1>1, <2>1, <2>2 DEF TestsInv
  <2> QED BY <1>1, <1>6, <2>3 DEF TestsInv, more
<1>11. WalkInv'
  BY <1>1, <1>2, <1>4, <1>8 DEF WalkInv, Inside
<1>12. PlaceInv'
  <2>1. \A n \in 1..Len(log) : Placed(n)'
    BY <1>1, PlacesKept DEF PlaceInv
  <2>2. \A n \in 1..Len(log) : log[n].suite <= s' /\ (pc' = "suite" => log[n].suite < s')
    BY <1>1, <1>2, <1>8, TsFacts DEF PlaceInv
  <2> QED BY <1>1, <1>8, <2>1, <2>2 DEF PlaceInv, Inside
<1> QED BY <1>9, <1>10, <1>11, <1>12 DEF IInv

LEMMA FinalIInv == ASSUME IInv, Final PROVE IInv'
<1>1. /\ TypeInv /\ TestsInv /\ WalkInv /\ PlaceInv /\ pc = "suite" /\ pc' = "ended"
      /\ UNCHANGED <<program, s, ts, ns, tests, kern, log>>
      /\ status' = ExitStatus(NumFailed(kern.tsList))
  BY DEF IInv, Final
<1>2. /\ told' = [failures |-> told'.failures, verdicts |-> told'.verdicts, summary |-> told'.summary]
      /\ told'.failures = told.failures
  <2> DEFINE p == IF kern.logger # "standard" THEN told.summary
                  ELSE IF told.failures = 0 THEN "PASSED" ELSE "FAILED"
  <2>1. told = [failures |-> told.failures, verdicts |-> told.verdicts, summary |-> told.summary]
    BY <1>1, Records
  <2>2. told' = [told EXCEPT !.summary = p]
    BY <2>1 DEF Final
  <2> HIDE DEF p
  <2>3. told' = [failures |-> told.failures, verdicts |-> told.verdicts, summary |-> p]
    BY <2>1, <2>2
  <2> QED BY <2>3
<1>3. status' \in 0..(StatusLimit - 1)
  <2> DEFINE failed == NumFailed(kern.tsList)
             all == FlattenSeq(kern.tsList)
             some == {n \in DOMAIN all : Failed(all[n])}
  <2>1. all \in Seq(Nat)
    <3>1. kern.tsList \in Seq(Seq(Nat)) /\ <<>> \in Seq(Nat)
      BY <1>1 DEF TypeInv
    <3> QED BY <3>1, FlattenAppend
  <2>2. IsFiniteSet(DOMAIN all) /\ some \subseteq DOMAIN all
    <3> HIDE DEF all
    <3>1. DOMAIN all = 1..Len(all) /\ Len(all) \in Nat
      BY <2>1
    <3> QED BY <3>1, FS_Interval
  <2>3. failed \in Nat
    <3>1. failed = Cardinality(some)
      BY DEF NumFailed
    <3> HIDE DEF some, failed
    <3> QED BY <2>2, <3>1, FS_Subset, FS_CardinalityType
  <2> DEFINE f == IF failed = program.expected THEN 0 ELSE failed
  <2>4. f \in Nat
    BY <2>3
  <2>5. status' = f % StatusLimit
    BY <1>1 DEF ExitStatus
  <2> HIDE DEF f
  <2> QED BY <2>4, <2>5, StatusAssumption
<1>4. TypeInv'
  <2>1. pc' \notin Inside
    BY <1>1 DEF Inside
  <2> QED BY <1>1, <1>2, <1>3, <2>1 DEF TypeInv
<1>5. TestsInv'
  BY <1>1, <1>2 DEF TestsInv
<1>6. WalkInv'
  BY <1>1 DEF WalkInv, Inside
<1>7. PlaceInv'
  <2>1. \A n \in 1..Len(log) : Placed(n)'
    BY <1>1, PlacesKept DEF PlaceInv
  <2> QED BY <1>1, <2>1 DEF PlaceInv, Inside
<1> QED BY <1>4, <1>5, <1>6, <1>7 DEF IInv

\* One more block was executed.
LEMMA BlockAppended ==
  ASSUME NEW l \in Seq(EntryType), NEW e \in EntryType
  PROVE  /\ Append(l, e) \in Seq(EntryType) /\ Len(Append(l, e)) = Len(l) + 1
         /\ Append(l, e)[Len(l) + 1] = e
         /\ LastOf(Append(l, e), e.suite) = e.block
         /\ Before(Append(l, e), Len(l) + 1) = LastOf(l, e.suite)
         /\ \A n \in 1..Len(l) : /\ Append(l, e)[n] = l[n]
                                /\ Before(Append(l, e), n) = Before(l, n)
<1> DEFINE L == Len(l)
           more == Append(l, e)
<1>1. /\ L \in Nat /\ more \in Seq(EntryType) /\ Len(more) = L + 1 /\ more[L + 1] = e
      /\ \A n \in 1..L : more[n] = l[n]
  BY LenProperties, AppendProperties
<1>2. l = <<>> <=> L = 0
  BY EmptySeq
<1> HIDE DEF more
<1>3. LastOf(more, e.suite) = e.block
  <2>1. more # <<>>
    BY <1>1, EmptySeq
  <2> QED BY <1>1, <2>1 DEF LastOf
<1>4. Before(more, L + 1) = LastOf(l, e.suite)
  <2>1. CASE L = 0
    BY <1>1, <1>2, <2>1 DEF Before, LastOf
  <2>2. CASE L # 0
    <3>1. L + 1 > 1 /\ L + 1 - 1 = L /\ more[L] = l[L] /\ l # <<>>
      BY <1>1, <1>2, <2>2
    <3> QED BY <1>1, <3>1 DEF Before, LastOf
  <2> QED BY <2>1, <2>2
<1>5. ASSUME NEW n \in 1..L PROVE more[n] = l[n] /\ Before(more, n) = Before(l, n)
  <2>1. n > 1 => n - 1 \in 1..L
    BY <1>1
  <2>2. more[n] = l[n] /\ (n > 1 => more[n - 1] = l[n - 1])
    BY <1>1, <2>1
  <2> QED BY <2>2 DEF Before
<1> QED BY <1>1, <1>3, <1>4, <1>5 DEF more

\* A block that is executed where it belongs.
LEMMA BlockLogged ==
  ASSUME TypeInv, PlaceInv, pc \in Inside, pc' \in Inside \cup {"ended"},
         program' = program, s' = s,
         NEW block \in BlockNames, NEW k \in Nat,
         log' = Append(log, Executed(s, block, k)),
         block = "test" => LastBlock = "setup" /\ ~AbortedBy(Suite.setup) /\ ~Disabled(s, k),
         block = "teardown" => LastBlock \in {"setup", "test"},
         block = "setup" => LastBlock \in {"none", "teardown"}
  PROVE  /\ log' \in Seq(EntryType) /\ LastBlock' = block /\ Suite' = Suite
         /\ \A n \in 1..Len(log') : /\ Placed(n)' /\ log'[n].suite <= s'
                                    /\ (pc' = "suite" => log'[n].suite < s')
<1> DEFINE L == Len(log)
           e == Executed(s, block, k)
<1>1. s \in Nat /\ L \in Nat /\ log \in Seq(EntryType) /\ e \in EntryType
  BY SuiteFacts, TsFacts DEF TypeInv, EntryType, Executed
<1>2. e.suite = s /\ e.block = block /\ e.test = k
  BY DEF Executed
<1> HIDE DEF e
<1>3. /\ log' \in Seq(EntryType) /\ Len(log') = L + 1 /\ log'[L + 1] = e
      /\ LastOf(log', s) = block /\ Before(log', L + 1) = LastBlock
      /\ \A n \in 1..L : log'[n] = log[n] /\ Before(log', n) = Before(log, n)
  BY <1>1, <1>2, BlockAppended DEF LastBlock, e
<1>4. Suite' = Suite /\ LastBlock' = block
  BY <1>3 DEF Suite, LastBlock
<1>5. ASSUME NEW n \in 1..L PROVE Placed(n)' /\ log'[n].suite <= s'
  <2>1. log'[n] = log[n] /\ Before(log', n) = Before(log, n) /\ Placed(n) /\ log[n].suite <= s
    BY <1>3 DEF PlaceInv
  <2> QED BY <2>1 DEF Placed, BlockBefore, AbortedBy, Disabled
<1>6. ASSUME NEW n \in Nat, n = L + 1 PROVE Placed(n)' /\ log'[n].suite <= s'
  <2>1. log'[n].suite = s /\ log'[n].block = block /\ log'[n].test = k
    BY <1>2, <1>3, <1>6
  <2>2. BlockBefore(n)' = LastBlock
    BY <1>3, <1>6 DEF BlockBefore
  <2>3. /\ AbortedBy(program.suites[s].setup)' <=> AbortedBy(Suite.setup)
        /\ Disabled(s, k)' <=> Disabled(s, k)
    BY Zenon DEF AbortedBy, Suite, Disabled
  <2>4. Placed(n)'
    BY <2>1, <2>2, <2>3 DEF Placed, AbortedBy, Suite, Disabled
  <2> QED BY <1>1, <2>1, <2>4
<1>7. \A n \in 1..Len(log') : n \in Nat /\ (n \in 1..L \/ n = L + 1)
  BY <1>1, <1>3
<1>8. pc' # "suite"
  BY DEF Inside
<1> QED BY <1>3, <1>4, <1>5, <1>6, <1>7, <1>8

\* A block from the state the program is in.
LEMMA BlockFacts ==
  ASSUME TypeInv, TestsInv, NEW block \in Seq(CheckType),
         NEW made \in Seq(TestType), Len(made) >= Len(tests), IsFailures(told.failures, made),
         NEW c \in 0..Len(made), NEW b, b = RunBlock(block, c, made)
  PROVE  /\ IsBlockState(b) /\ Len(b.tests) >= Len(made)
         /\ ts.mode \notin {"setup", "teardown"} =>
              /\ b.mode = ts.mode /\ b.list = ts.list /\ b.currTest = c
              /\ Len(b.tests) = Len(made) /\ (c # 0 => ~b.broken)
         /\ ts.mode \in {"setup", "teardown"} =>
              /\ b.mode \in {ts.mode, "abort"} /\ (b.left => b.mode = "abort")
              /\ block # NoBlock /\ ~b.broken => (b.mode = "abort" <=> AbortedBy(block))
         /\ block # NoBlock /\ ~RequiresIn(block) =>
              /\ b.mode = ts.mode /\ b.list = ts.list /\ b.currTest = c
              /\ Len(b.tests) = Len(made) /\ ~b.left
<1> DEFINE a == [mode |-> ts.mode, list |-> ts.list, tests |-> made, currTest |-> c,
                 failures |-> told.failures, left |-> FALSE, broken |-> FALSE]
<1>1. b = FoldLeft(RunCheck, a, block)
  BY DEF RunBlock
<1>2. /\ a.mode = ts.mode /\ a.list = ts.list /\ a.tests = made /\ a.currTest = c
      /\ a.failures = told.failures /\ a.left = FALSE /\ a.broken = FALSE
  OBVIOUS
<1>3. a \in BlockState
  <2>1. /\ ts.mode \in Modes /\ ts.list \in Seq(Nat) /\ told.failures \in Nat /\ c \in Nat
        /\ Len(made) \in Nat
    BY TsFacts DEF TypeInv
  <2> QED BY <2>1 DEF BlockState
<1> HIDE DEF a
<1>4. IsStart(a)
  <2>1. \A i \in 1..Len(ts.list) : ts.list[i] \in 1..Len(made)
    <3>1. \A i \in 1..Len(ts.list) : ts.list[i] \in 1..Len(tests)
      BY DEF TestsInv
    <3>2. Len(tests) \in Nat /\ Len(made) \in Nat
      BY TsFacts
    <3> QED BY <3>1, <3>2
  <2>2. c <= Len(made)
    OBVIOUS
  <2> QED BY <1>2, <1>3, <2>1, <2>2 DEF IsStart, IsBlockState
<1>5. IsRun(a, block, Len(block), b)
  BY <1>1, <1>4, BlockRun
<1>6. DOMAIN block = 1..Len(block)
  OBVIOUS
<1>7. block # NoBlock =>
        ((\E m \in 1..Len(block) : RequiredAndFailed(block[m])) <=> AbortedBy(block))
  BY <1>6 DEF AbortedBy, RequiredAndFailed
<1>8. block # NoBlock /\ ~RequiresIn(block) => \A m \in 1..Len(block) : block[m].kind # "req"
  BY <1>6 DEF RequiresIn
<1> DEFINE some == \E m \in 1..Len(block) : RequiredAndFailed(block[m])
           none == \A m \in 1..Len(block) : block[m].kind # "req"
<1>9. /\ IsBlockState(b) /\ Len(b.tests) >= Len(made)
      /\ ts.mode \notin {"setup", "teardown"} =>
           /\ b.mode = ts.mode /\ b.list = ts.list /\ b.currTest = c
           /\ Len(b.tests) = Len(made) /\ (c # 0 => ~b.broken)
      /\ ts.mode \in {"setup", "teardown"} =>
           /\ b.mode \in {ts.mode, "abort"} /\ (b.left => b.mode = "abort")
           /\ ~b.broken => (b.mode = "abort" <=> some)
      /\ none => /\ b.mode = ts.mode /\ b.list = ts.list /\ b.currTest = c
                 /\ Len(b.tests) = Len(made) /\ ~b.left
  BY <1>2, <1>5 DEF IsRun
<1> QED BY <1>7, <1>8, <1>9

\* What the block of a setup or a teardown leaves.
IsFixture(which, endMode, goesTo, b, m) ==
  /\ IsBlockState(b) /\ Len(b.tests) >= Len(tests)
  /\ b.left => b.mode = "abort"
  /\ ~b.broken => (b.mode = "abort" <=> AbortedBy(Suite[which]))
  /\ ~RequiresIn(Suite[which]) => b.list = ts.list /\ Len(b.tests) = Len(tests)
  /\ m = IF b.mode = "abort" THEN "abort" ELSE endMode
  /\ tests' = b.tests /\ told' = [told EXCEPT !.failures = b.failures]
  /\ pc' = IF b.broken THEN "ended" ELSE IF b.left THEN "suiteEnd" ELSE goesTo
  /\ status' = IF b.broken THEN EXIT_FAILURE ELSE status
  /\ ns' = [ns EXCEPT !.currTest = b.currTest]
  /\ ts' = [ts EXCEPT !.list = b.list, !.mode = m]
  /\ log' = Append(log, Executed(s, which, 0))

LEMMA FixtureFacts ==
  ASSUME TypeInv, TestsInv, pc \in Inside, NEW which \in {"setup", "teardown"}, ts.mode = which,
         Suite[which] # NoBlock, NEW endMode, NEW goesTo, Fixture(which, endMode, goesTo)
  PROVE  \E b, m : IsFixture(which, endMode, goesTo, b, m)
<1> DEFINE block == Suite[which]
           b == RunBlock(block, ns.currTest, tests)
           m == IF b.mode = "abort" THEN "abort" ELSE endMode
<1>1. block \in Seq(CheckType) /\ block # NoBlock
  BY SuiteFacts
<1>2. /\ tests' = b.tests /\ told' = [told EXCEPT !.failures = b.failures]
      /\ pc' = IF b.broken THEN "ended" ELSE IF b.left THEN "suiteEnd" ELSE goesTo
      /\ status' = IF b.broken THEN EXIT_FAILURE ELSE status
      /\ ns' = [ns EXCEPT !.currTest = b.currTest]
      /\ ts' = [ts EXCEPT !.list = b.list, !.mode = m]
      /\ log' = Append(log, Executed(s, which, 0))
  BY DEF Fixture, After
<1>3. /\ IsBlockState(b) /\ Len(b.tests) >= Len(tests)
      /\ b.left => b.mode = "abort"
      /\ ~b.broken => (b.mode = "abort" <=> AbortedBy(block))
      /\ ~RequiresIn(block) => b.list = ts.list /\ Len(b.tests) = Len(tests)
  <2>1. /\ tests \in Seq(TestType) /\ Len(tests) >= Len(tests) /\ IsFailures(told.failures, tests)
        /\ ns.currTest \in 0..Len(tests)
    BY TsFacts DEF TypeInv, TestsInv
  <2>2. b = RunBlock(block, ns.currTest, tests)
    OBVIOUS
  <2> HIDE DEF b, block
  <2>3. /\ IsBlockState(b) /\ Len(b.tests) >= Len(tests)
        /\ ts.mode \in {"setup", "teardown"} =>
              /\ b.mode \in {ts.mode, "abort"} /\ (b.left => b.mode = "abort")
              /\ block # NoBlock /\ ~b.broken => (b.mode = "abort" <=> AbortedBy(block))
        /\ block # NoBlock /\ ~RequiresIn(block) =>
              /\ b.mode = ts.mode /\ b.list = ts.list /\ b.currTest = ns.currTest
              /\ Len(b.tests) = Len(tests) /\ ~b.left
    BY <1>1, <2>1, <2>2, BlockFacts
  <2> QED BY <1>1, <2>3
<1> HIDE DEF b
<1>4. IsFixture(which, endMode, goesTo, b, m)
  BY <1>2, <1>3 DEF IsFixture
<1> QED BY <1>4

LEMMA FixtureIInv ==
  ASSUME IInv, NEW which \in {"setup", "teardown"}, pc = which, ts.mode = which,
         Suite[which] # NoBlock, NEW endMode, NEW goesTo,
         which = "setup" => endMode = "test" /\ goesTo = "teardown",
         which = "teardown" => /\ endMode = IF ts.curr < ts.total THEN "setup" ELSE "ending"
                               /\ goesTo = "top",
         Fixture(which, endMode, goesTo), UNCHANGED <<program, s, kern>>
  PROVE  IInv'
<1>1. /\ TypeInv /\ TestsInv /\ WalkInv /\ PlaceInv /\ pc \in Inside
      /\ pc = which /\ ts.mode = which /\ UNCHANGED <<program, s, kern>>
      /\ which \in {"setup", "teardown"}
  BY DEF IInv, Inside
<1>2. which = "setup" => Suite[which] = Suite.setup
  OBVIOUS
<1>0. PICK b, m : IsFixture(which, endMode, goesTo, b, m)
  BY <1>1, FixtureFacts
<1>3. /\ tests' = b.tests /\ told' = [told EXCEPT !.failures = b.failures]
      /\ pc' = IF b.broken THEN "ended" ELSE IF b.left THEN "suiteEnd" ELSE goesTo
      /\ status' = IF b.broken THEN EXIT_FAILURE ELSE status
      /\ ns' = [ns EXCEPT !.currTest = b.currTest]
      /\ ts' = [ts EXCEPT !.list = b.list, !.mode = m]
      /\ log' = Append(log, Executed(s, which, 0))
      /\ m = IF b.mode = "abort" THEN "abort" ELSE endMode
  BY <1>0 DEF IsFixture
<1>4. /\ IsBlockState(b) /\ Len(b.tests) >= Len(tests)
      /\ b.left => b.mode = "abort"
      /\ ~b.broken => (b.mode = "abort" <=> AbortedBy(Suite[which]))
  BY <1>0 DEF IsFixture
<1>5. /\ b.tests \in Seq(TestType) /\ b.list \in Seq(Nat) /\ b.currTest \in Nat
      /\ b.failures \in Nat /\ b.currTest <= Len(b.tests) /\ IsFailures(b.failures, b.tests)
      /\ \A i \in 1..Len(b.list) : b.list[i] \in 1..Len(b.tests)
      /\ Len(b.tests) \in Nat
  BY <1>4 DEF IsBlockState, BlockState
<1>6. /\ m \in Modes /\ m \in {"abort", endMode}
      /\ endMode \in {"test", "setup", "ending"}
  BY <1>1, <1>3 DEF Modes
<1>7. /\ ts'.mode = m /\ ts'.curr = ts.curr /\ ts'.total = ts.total /\ ts'.list = b.list
      /\ ts' \in SuiteType
  <2>1. ts \in SuiteType
    BY <1>1 DEF TypeInv
  <2> QED BY <1>3, <1>5, <1>6, <2>1 DEF SuiteType
<1>8. /\ ns' \in SpaceType /\ ns'.currTest = b.currTest /\ ns'.testNum = ns.testNum
      /\ ns'.suiteSkip = ns.suiteSkip
  <2>1. ns \in SpaceType
    BY <1>1 DEF TypeInv
  <2> QED BY <1>3, <1>5, <2>1 DEF SpaceType
<1>9. /\ told' = [failures |-> told'.failures, verdicts |-> told'.verdicts, summary |-> told'.summary]
      /\ told'.failures = b.failures
  <2>1. told = [failures |-> told.failures, verdicts |-> told.verdicts, summary |-> told.summary]
    BY <1>1, Records
  <2> DEFINE n == b.failures
  <2>2. told' = [told EXCEPT !.failures = n]
    BY <1>3
  <2> HIDE DEF n
  <2>3. told' = [failures |-> n, verdicts |-> told.verdicts, summary |-> told.summary]
    BY <2>1, <2>2
  <2> QED BY <2>3 DEF n
<1>10. /\ log' \in Seq(EntryType) /\ LastBlock' = which /\ Suite' = Suite
       /\ \A n \in 1..Len(log') : /\ Placed(n)' /\ log'[n].suite <= s'
                                  /\ (pc' = "suite" => log'[n].suite < s')
  <2>1. which \in BlockNames /\ 0 \in Nat /\ which # "test"
    BY <1>1 DEF BlockNames
  <2>2. pc' \in Inside \cup {"ended"}
    BY <1>1, <1>3 DEF Inside
  <2>3. /\ which = "teardown" => LastBlock \in {"setup", "test"}
        /\ which = "setup" => LastBlock \in {"none", "teardown"}
    BY <1>1 DEF PlaceInv
  <2>4. log' = Append(log, Executed(s, which, 0))
    BY <1>3
  <2> QED BY <1>1, <2>1, <2>2, <2>3, <2>4, BlockLogged
<1>11. TypeInv'
  <2>1. status' \in 0..(StatusLimit - 1)
    BY <1>1, <1>3, StatusAssumption DEF TypeInv, EXIT_FAILURE
  <2>2. pc' \in Inside \cup {"suite", "ended"}
    BY <1>1, <1>3 DEF Inside
  <2> QED BY <1>1, <1>3, <1>5, <1>7, <1>8, <1>9, <1>10, <2>1, <2>2 DEF TypeInv
<1>12. TestsInv'
  <2>1. \A i \in 1..Len(tests) : i \in 1..Len(b.tests)
    BY <1>1, <1>4, <1>5, TsFacts
  <2> QED BY <1>1, <1>3, <1>5, <1>7, <1>9, <2>1 DEF TestsInv
<1>13. WalkInv'
  <2>1. /\ ts.total = Len(Suite.tests) /\ kern.parsed /\ ns.testNum = 0
        /\ which = "setup" => ts.curr < ts.total
    BY <1>1 DEF WalkInv
  <2>2. ts.curr \in Nat /\ ts.total \in Nat
    BY <1>1, TsFacts
  <2>3. m \in {"setup", "test"} => ts.curr < ts.total
    BY <1>1, <1>6, <2>1
  <2>4. m = "ending" => ts.curr >= ts.total
    BY <1>1, <1>6, <2>2
  <2>5. pc' = "suiteEnd" => m = "abort"
    BY <1>1, <1>3, <1>4
  <2>6. pc' # "test" /\ m # "cnt"
    BY <1>1, <1>3, <1>6
  <2> QED BY <1>1, <1>7, <1>8, <1>10, <2>1, <2>3, <2>4, <2>5, <2>6 DEF WalkInv
<1>14. PlaceInv'
  <2>1. m # "cnt" /\ m # "teardown" /\ (m = "setup" => which = "teardown")
    BY <1>1, <1>6
  <2>2. pc' \in Inside /\ m = "test" => which = "setup" /\ ~AbortedBy(Suite.setup)
    <3>1. pc' \in Inside => ~b.broken
      BY <1>3 DEF Inside
    <3>2. m = "test" => which = "setup" /\ b.mode # "abort"
      BY <1>1, <1>3
    <3> QED BY <1>2, <1>4, <3>1, <3>2
  <2>3. Suite.cond = "no" => ns.suiteSkip
    BY <1>1 DEF PlaceInv
  <2> QED BY <1>1, <1>7, <1>8, <1>10, <2>1, <2>2, <2>3 DEF PlaceInv, AbortedBy
<1> QED BY <1>11, <1>12, <1>13, <1>14 DEF IInv

\* A list with one more test.
LEMMA ListAppended ==
  ASSUME NEW n \in Nat, NEW m \in Nat, n < m, NEW list \in Seq(Nat),
         \A i \in 1..Len(list) : list[i] \in 1..n
  PROVE  /\ Append(list, m) \in Seq(Nat)
         /\ \A i \in 1..Len(Append(list, m)) : Append(list, m)[i] \in 1..m
<1> DEFINE more == Append(list, m)
<1>1. /\ more \in Seq(Nat) /\ Len(more) = Len(list) + 1 /\ more[Len(list) + 1] = m
      /\ \A i \in 1..Len(list) : more[i] = list[i]
  BY AppendProperties
<1>2. Len(list) \in Nat
  OBVIOUS
<1> HIDE DEF more
<1>3. ASSUME NEW i \in 1..Len(more) PROVE more[i] \in 1..m
  <2>1. i \in 1..Len(list) \/ i = Len(list) + 1
    BY <1>1, <1>2
  <2>2. CASE i \in 1..Len(list)
    <3>1. more[i] \in 1..n
      BY <1>1, <2>2
    <3> QED BY <3>1
  <2>3. CASE i = Len(list) + 1
    BY <1>1, <2>3
  <2> QED BY <2>1, <2>2, <2>3
<1> QED BY <1>1, <1>3 DEF more

\* What the body of a test leaves.
LEMMA RunTestFacts ==
  ASSUME IInv, NEW k, RunTest(k), NEW b, b = RunBlock(Test(k).body, Len(tests) + 1, Append(tests, NewTest))
  PROVE  /\ IsBlockState(b) /\ b.currTest = Len(tests) + 1 /\ Len(b.tests) = Len(tests) + 1
         /\ tests' = b.tests /\ log' = Append(log, Executed(s, "test", k)) /\ pc' = "top"
         /\ ts' = [mode |-> "teardown", curr |-> ts.curr + 1, total |-> ts.total,
                   list |-> Append(ts.list, b.currTest)]
         /\ ns' = [testSkip |-> FlagAt(k), suiteSkip |-> ns.suiteSkip, testNum |-> k,
                   currTest |-> b.currTest]
         /\ told' = [failures |-> b.failures, verdicts |-> told'.verdicts,
                     summary |-> told.summary]
<1>1. /\ TypeInv /\ TestsInv /\ WalkInv /\ PlaceInv /\ pc = "test" /\ pc \in Inside
      /\ k = ns.testNum + 1 /\ k \in 1..Len(Suite.tests) /\ Len(Suite.tests) \in Nat
  BY AtTestFacts DEF RunTest
<1>2. /\ tests' = b.tests
      /\ told' = [told EXCEPT !.failures = b.failures,
                              !.verdicts = LogVerdict(@, Verdict(b.tests[b.currTest]))]
      /\ ts' = [ts EXCEPT !.curr = @ + 1, !.mode = "teardown", !.list = Append(@, b.currTest)]
      /\ ns' = [ns EXCEPT !.testNum = k, !.testSkip = FlagAt(k), !.currTest = b.currTest]
      /\ log' = Append(log, Executed(s, "test", k)) /\ pc' = "top"
      /\ ts.mode = "test"
  BY DEF RunTest, IsTurnOf
<1> DEFINE made == Append(tests, NewTest)
           c == Len(tests) + 1
           body == Test(k).body
<1>3. /\ made \in Seq(TestType) /\ Len(made) = Len(tests) + 1 /\ IsFailures(told.failures, made)
      /\ Len(tests) \in Nat
  <2>1. NewTest \in TestType
    BY DEF NewTest, TestType
  <2>2. tests \in Seq(TestType) /\ IsFailures(told.failures, tests) /\ Len(tests) \in Nat
    BY <1>1, TsFacts DEF TypeInv, TestsInv
  <2> QED BY <2>1, <2>2, FailuresAppend
<1>4. /\ body \in Seq(CheckType) /\ b = RunBlock(body, c, made)
      /\ Len(made) >= Len(tests) /\ c \in 0..Len(made) /\ c # 0
  BY <1>1, <1>3, SuiteFacts DEF Test
<1> HIDE DEF made, c, body
<1>5. IsBlockState(b) /\ b.currTest = c /\ Len(b.tests) = Len(made)
  BY <1>1, <1>2, <1>3, <1>4, BlockFacts
<1>6. ts' = [mode |-> "teardown", curr |-> ts.curr + 1, total |-> ts.total,
             list |-> Append(ts.list, b.currTest)]
  <2> DEFINE l == Append(ts.list, b.currTest)
  <2>1. ts = [mode |-> ts.mode, curr |-> ts.curr, total |-> ts.total, list |-> ts.list]
    BY <1>1, Records
  <2>2. ts' = [ts EXCEPT !.curr = @ + 1, !.mode = "teardown", !.list = l]
    BY <1>2, <2>1
  <2> HIDE DEF l
  <2>3. ts' = [mode |-> "teardown", curr |-> ts.curr + 1, total |-> ts.total, list |-> l]
    BY <2>1, <2>2
  <2> QED BY <2>3 DEF l
<1>7. ns' = [testSkip |-> FlagAt(k), suiteSkip |-> ns.suiteSkip, testNum |-> k,
             currTest |-> b.currTest]
  <2> DEFINE flag == FlagAt(k)
             n == b.currTest
  <2>1. ns = [testSkip |-> ns.testSkip, suiteSkip |-> ns.suiteSkip, testNum |-> ns.testNum,
              currTest |-> ns.currTest]
    BY <1>1, Records
  <2>2. ns' = [ns EXCEPT !.testNum = k, !.testSkip = flag, !.currTest = n]
    BY <1>2
  <2> HIDE DEF flag, n
  <2>3. ns' = [testSkip |-> flag, suiteSkip |-> ns.suiteSkip, testNum |-> k, currTest |-> n]
    BY <2>1, <2>2
  <2> QED BY <2>3 DEF flag, n
<1>8. told' = [failures |-> b.failures, verdicts |-> told'.verdicts, summary |-> told.summary]
  <2> DEFINE v == LogVerdict(told.verdicts, Verdict(b.tests[b.currTest]))
             n == b.failures
  <2>1. told = [failures |-> told.failures, verdicts |-> told.verdicts, summary |-> told.summary]
    BY <1>1, Records
  <2>2. told' = [told EXCEPT !.failures = n, !.verdicts = v]
    BY <1>2, <2>1
  <2> HIDE DEF v, n
  <2>3. told' = [failures |-> n, verdicts |-> v, summary |-> told.summary]
    BY <2>1, <2>2
  <2>4. told'.verdicts = v
    BY <2>3
  <2> QED BY <2>3, <2>4 DEF n
<1> QED BY <1>2, <1>3, <1>5, <1>6, <1>7, <1>8 DEF c

LEMMA RunTestIInv == ASSUME IInv, NEW k, RunTest(k) PROVE IInv'
<1>1. /\ TypeInv /\ TestsInv /\ WalkInv /\ PlaceInv /\ pc = "test" /\ pc \in Inside
      /\ k = ns.testNum + 1 /\ k \in 1..Len(Suite.tests) /\ Len(Suite.tests) \in Nat
  BY AtTestFacts DEF RunTest
<1>2. UNCHANGED <<program, s, kern, status>> /\ ts.mode = "test" /\ ~Skipped(k)
  BY DEF RunTest, IsTurnOf
<1> DEFINE b == RunBlock(Test(k).body, Len(tests) + 1, Append(tests, NewTest))
           flag == FlagAt(k)
<1>3. /\ IsBlockState(b) /\ b.currTest = Len(tests) + 1 /\ Len(b.tests) = Len(tests) + 1
      /\ tests' = b.tests /\ log' = Append(log, Executed(s, "test", k)) /\ pc' = "top"
      /\ ts' = [mode |-> "teardown", curr |-> ts.curr + 1, total |-> ts.total,
                list |-> Append(ts.list, b.currTest)]
      /\ ns' = [testSkip |-> flag, suiteSkip |-> ns.suiteSkip, testNum |-> k,
                currTest |-> b.currTest]
      /\ told' = [failures |-> b.failures, verdicts |-> told'.verdicts, summary |-> told.summary]
  BY RunTestFacts
<1>4. flag \in BOOLEAN
  BY <1>1, TsFacts DEF FlagAt
<1> HIDE DEF b, flag
<1>5. /\ b.tests \in Seq(TestType) /\ b.failures \in Nat /\ IsFailures(b.failures, b.tests)
      /\ Len(tests) \in Nat /\ b.currTest \in Nat
  BY <1>1, <1>3, TsFacts DEF IsBlockState, BlockState
<1>6. /\ Append(ts.list, b.currTest) \in Seq(Nat)
      /\ \A i \in 1..Len(Append(ts.list, b.currTest)) :
           Append(ts.list, b.currTest)[i] \in 1..Len(b.tests)
  <2>1. ts.list \in Seq(Nat) /\ \A i \in 1..Len(ts.list) : ts.list[i] \in 1..Len(tests)
    BY <1>1, TsFacts DEF TestsInv
  <2>2. Len(tests) < b.currTest /\ Len(b.tests) = b.currTest
    BY <1>3, <1>5
  <2> QED BY <1>5, <2>1, <2>2, ListAppended
<1> DEFINE list == Append(ts.list, b.currTest)
<1>7. /\ ts' \in SuiteType /\ ts'.mode = "teardown" /\ ts'.curr = ts.curr + 1
      /\ ts'.total = ts.total /\ ts'.list = list
  <2>1. ts.curr + 1 \in Nat /\ ts.total \in Nat /\ list \in Seq(Nat) /\ "teardown" \in Modes
    BY <1>1, <1>6, TsFacts DEF Modes
  <2> HIDE DEF list
  <2>2. ts' = [mode |-> "teardown", curr |-> ts.curr + 1, total |-> ts.total, list |-> list]
    BY <1>3 DEF list
  <2> QED BY <2>1, <2>2 DEF SuiteType
<1>8. /\ ns' \in SpaceType /\ ns'.testNum = k /\ ns'.currTest = b.currTest
      /\ ns'.suiteSkip = ns.suiteSkip
  <2>1. ns.suiteSkip \in BOOLEAN /\ k \in Nat
    BY <1>1, TsFacts
  <2>2. ns' = [testSkip |-> flag, suiteSkip |-> ns.suiteSkip, testNum |-> k,
               currTest |-> b.currTest]
    BY <1>3
  <2> QED BY <1>4, <1>5, <2>1, <2>2 DEF SpaceType
<1>9. /\ told' = [failures |-> told'.failures, verdicts |-> told'.verdicts, summary |-> told'.summary]
      /\ told'.failures = b.failures
  <2> DEFINE v == told'.verdicts
             n == b.failures
  <2>1. told' = [failures |-> n, verdicts |-> v, summary |-> told.summary]
    BY <1>3
  <2> HIDE DEF v, n
  <2> QED BY <2>1 DEF n
<1>10. /\ log' \in Seq(EntryType) /\ LastBlock' = "test" /\ Suite' = Suite
       /\ \A n \in 1..Len(log') : /\ Placed(n)' /\ log'[n].suite <= s'
                                  /\ (pc' = "suite" => log'[n].suite < s')
  <2>1. "test" \in BlockNames /\ k \in Nat /\ pc' \in Inside \cup {"ended"}
    BY <1>1, <1>3 DEF BlockNames, Inside
  <2>2. LastBlock = "setup" /\ ~AbortedBy(Suite.setup) /\ (Suite.cond = "no" => ns.suiteSkip)
    BY <1>1, <1>2 DEF PlaceInv
  <2>3. ~Disabled(s, k)
    <3>1. Suite.cond # "no"
      BY <1>2, <2>2 DEF Skipped
    <3>2. Suite.tests[k].cond # "no"
      BY <1>2 DEF Skipped, FlagAt, Test
    <3> QED BY <3>1, <3>2 DEF Disabled, Suite
  <2>4. log' = Append(log, Executed(s, "test", k))
    BY <1>3
  <2> DEFINE test == "test"
  <2>5. /\ test \in BlockNames /\ log' = Append(log, Executed(s, test, k))
        /\ test = "test" /\ test # "setup" /\ test # "teardown"
    BY <2>1, <2>4
  <2> HIDE DEF test
  <2>6. /\ log' \in Seq(EntryType) /\ LastBlock' = test /\ Suite' = Suite
        /\ \A n \in 1..Len(log') : /\ Placed(n)' /\ log'[n].suite <= s'
                                   /\ (pc' = "suite" => log'[n].suite < s')
    BY <1>1, <1>2, <2>1, <2>2, <2>3, <2>5, BlockLogged
  <2> QED BY <2>5, <2>6
<1>11. TypeInv'
  <2>1. pc' \in Inside
    BY <1>3 DEF Inside
  <2>2. ns'.currTest <= Len(tests')
    BY <1>3, <1>5, <1>8
  <2> QED BY <1>1, <1>2, <1>3, <1>5, <1>7, <1>8, <1>9, <1>10, <2>1, <2>2 DEF TypeInv
<1>12. TestsInv'
  <2>1. \A i \in 1..Len(tests) : i \in 1..Len(b.tests)
    BY <1>3, <1>5
  <2> QED BY <1>1, <1>2, <1>3, <1>5, <1>6, <1>7, <1>9, <2>1 DEF TestsInv
<1>13. WalkInv'
  <2>1. ts.total = Len(Suite.tests) /\ kern.parsed
    BY <1>1, <1>2 DEF WalkInv
  <2> QED BY <1>2, <1>3, <1>7, <1>8, <1>10, <2>1 DEF WalkInv
<1>14. PlaceInv'
  <2>1. Suite.cond = "no" => ns.suiteSkip
    BY <1>1 DEF PlaceInv
  <2> QED BY <1>7, <1>8, <1>10, <2>1 DEF PlaceInv
<1> QED BY <1>11, <1>12, <1>13, <1>14 DEF IInv

LEMMA SetupIInv == ASSUME IInv, Setup PROVE IInv'
<1>1. pc = "setup" /\ UNCHANGED <<program, s, kern>>
  BY DEF Setup
<1>2. CASE ts.mode = "setup" /\ Suite.setup # NoBlock
  <2> DEFINE which == "setup"
             endMode == "test"
             goesTo == "teardown"
  <2>1. /\ Fixture(which, endMode, goesTo) /\ Suite[which] # NoBlock
        /\ pc = which /\ ts.mode = which /\ which \in {"setup", "teardown"}
        /\ which = "setup" => endMode = "test" /\ goesTo = "teardown"
        /\ which # "teardown"
    BY <1>1, <1>2 DEF Setup
  <2> HIDE DEF which, endMode, goesTo
  <2> QED BY <1>1, <2>1, FixtureIInv
<1>3. CASE ~(ts.mode = "setup" /\ Suite.setup # NoBlock)
  <2> DEFINE goesTo == "teardown"
  <2>1. PassFixture(goesTo) /\ goesTo = "teardown"
    BY <1>3 DEF Setup
  <2> HIDE DEF goesTo
  <2> QED BY <1>1, <2>1, PassFixtureIInv
<1> QED BY <1>2, <1>3

LEMMA TeardownIInv == ASSUME IInv, Teardown PROVE IInv'
<1>1. pc = "teardown" /\ UNCHANGED <<program, s, kern>>
  BY DEF Teardown
<1>2. CASE ts.mode = "teardown" /\ Suite.teardown # NoBlock
  <2> DEFINE which == "teardown"
             endMode == IF ts.curr < ts.total THEN "setup" ELSE "ending"
             goesTo == "top"
  <2>1. /\ Fixture(which, endMode, goesTo) /\ Suite[which] # NoBlock
        /\ pc = which /\ ts.mode = which /\ which \in {"setup", "teardown"}
        /\ which # "setup" /\ goesTo = "top"
        /\ endMode = IF ts.curr < ts.total THEN "setup" ELSE "ending"
    BY <1>1, <1>2 DEF Teardown
  <2> HIDE DEF which, endMode, goesTo
  <2> QED BY <1>1, <2>1, FixtureIInv
<1>3. CASE ~(ts.mode = "teardown" /\ Suite.teardown # NoBlock)
  <2> DEFINE goesTo == "test"
  <2>1. PassFixture(goesTo) /\ goesTo = "test"
    BY <1>3 DEF Teardown
  <2> HIDE DEF goesTo
  <2> QED BY <1>1, <2>1, PassFixtureIInv
<1> QED BY <1>2, <1>3

LEMMA NextIInv == ASSUME IInv, [Next]_vars PROVE IInv'
<1>1. CASE SuiteBegin
  BY <1>1, SuiteBeginIInv
<1>2. CASE Top
  BY <1>2, TopIInv
<1>3. CASE Setup
  BY <1>3, SetupIInv
<1>4. CASE Teardown
  BY <1>4, TeardownIInv
<1>5. CASE Bottom
  BY <1>5, BottomIInv
<1>6. CASE SuiteEnd
  BY <1>6, SuiteEndIInv
<1>7. CASE Final
  BY <1>7, FinalIInv
<1>8. ASSUME NEW k, PassBy(k) \/ Filtered(k) \/ Skip(k) \/ RunTest(k) PROVE IInv'
  BY <1>8, PassByIInv, FilteredIInv, SkipIInv, RunTestIInv
<1>9. CASE UNCHANGED vars
  <2>1. /\ program' = program /\ pc' = pc /\ s' = s /\ ts' = ts /\ ns' = ns /\ tests' = tests
        /\ kern' = kern /\ told' = told /\ log' = log /\ status' = status
    BY <1>9 DEF vars
  <2>2. TypeInv' /\ TestsInv'
    BY <2>1 DEF IInv, TypeInv, TestsInv
  <2>3. WalkInv'
    BY <2>1 DEF IInv, WalkInv, Suite
  <2>4. PlaceInv'
    <3>1. LastBlock' = LastBlock /\ \A n \in 1..Len(log) : Placed(n)' <=> Placed(n)
      BY <2>1, PlacesKept
    <3> QED BY <2>1, <3>1 DEF IInv, PlaceInv, Suite, AbortedBy
  <2> QED BY <2>2, <2>3, <2>4 DEF IInv
<1> QED BY <1>1, <1>2, <1>3, <1>4, <1>5, <1>6, <1>7, <1>8, <1>9 DEF Next, Step, Ended

----------------------------------------------------------------------------
(* The flags *)

\* What a suite without skips has no condition for.
LEMMA NoSkipFacts ==
  ASSUME TypeInv, NEW i \in 1..Len(program.suites), ~SkipsIn(i)
  PROVE  /\ program.suites[i].cond # "no"
         /\ \A k \in 1..Len(program.suites[i].tests) : program.suites[i].tests[k].cond # "no"
BY ProgramFacts DEF SkipsIn

LEMMA FlagsNext == ASSUME IInv, FlagsInv, [Next]_vars PROVE FlagsInv'
<1>1. TypeInv /\ WalkInv /\ s \in Nat
  BY TsFacts DEF IInv, TypeInv
<1>2. NoSkips(s) => NoSkips(s - 1) /\ ~SkipsIn(s)
  <2>1. \A j \in 1..(s - 1) : j \in 1..s
    BY <1>1
  <2>2. s \in 1..s
    BY <1>1 DEF TypeInv
  <2> QED BY <2>1, <2>2 DEF NoSkips
<1>3. ns = [testSkip |-> ns.testSkip, suiteSkip |-> ns.suiteSkip, testNum |-> ns.testNum,
            currTest |-> ns.currTest]
      /\ ns.testSkip \in BOOLEAN /\ ns.suiteSkip \in BOOLEAN
  BY <1>1, Records, TsFacts
<1>4. program' = program /\ \A i : SkipsIn(i)' <=> SkipsIn(i)
  <2>1. program' = program
    BY DEF Next, Step, SuiteBegin, Top, Setup, Teardown, Bottom, SuiteEnd, Final, PassBy, Filtered,
           Skip, RunTest, Ended, vars
  <2> QED BY <2>1, Zenon DEF SkipsIn
\* Steps within a suite.
<1>5. ASSUME pc \in Inside, s' = s, pc' \in Inside \cup {"ended"},
             NoSkips(s) => ~ns'.testSkip /\ ~ns'.suiteSkip
      PROVE  FlagsInv'
  <2>1. pc' # "suite"
    BY <1>5 DEF Inside
  <2>2. NoSkips(s)' => NoSkips(s)
    BY <1>4, <1>5 DEF NoSkips
  <2> QED BY <1>5, <2>1, <2>2 DEF FlagsInv
<1>6. pc \in Inside /\ NoSkips(s) => ~ns.testSkip /\ ~ns.suiteSkip
  BY DEF FlagsInv
<1>7. ASSUME NEW k, AtTest(k), NoSkips(s) PROVE ~FlagAt(k) /\ ~FlagPast(k)
  <2>1. k \in 1..Len(Suite.tests) /\ pc \in Inside /\ s \in 1..Len(program.suites)
    BY <1>7, <1>1, AtTestFacts, SuiteFacts
  <2>2. Suite.tests[k].cond # "no" /\ ~ns.testSkip
    BY <1>1, <1>2, <1>6, <1>7, <2>1, NoSkipFacts DEF Suite
  <2> QED BY <2>2 DEF FlagAt, FlagPast, Test
<1>8. CASE SuiteBegin
  <2>1. /\ pc = "suite" /\ s' = s /\ s \in 1..Len(program.suites) /\ pc' \in {"top", "ended"}
        /\ ns' = [ns EXCEPT !.suiteSkip = IF Suite.cond = "none" THEN @ ELSE Suite.cond = "no"]
    <3>1. s <= Len(program.suites)
      BY <1>8 DEF SuiteBegin
    <3>2. s \in 1..Len(program.suites)
      BY <1>1, <3>1, ProgramFacts DEF TypeInv
    <3> QED BY <1>8, <3>2 DEF SuiteBegin
  <2>2. ASSUME NoSkips(s) PROVE ~ns'.testSkip /\ ~ns'.suiteSkip
    <3>1. Suite.cond # "no" /\ ~ns.testSkip /\ ~ns.suiteSkip
      BY <1>1, <1>2, <2>1, <2>2, NoSkipFacts DEF Suite, FlagsInv
    <3> QED BY <1>3, <2>1, <3>1
  <2>3. pc' # "suite" /\ (NoSkips(s)' => NoSkips(s))
    BY <1>4, <2>1 DEF NoSkips
  <2> QED BY <2>1, <2>2, <2>3 DEF FlagsInv
<1>9. CASE Top
  <2>1. pc \in Inside /\ s' = s /\ pc' \in Inside /\ ns' = [ns EXCEPT !.testNum = 0]
    BY <1>9 DEF Top, Inside
  <2>2. ns'.testSkip = ns.testSkip /\ ns'.suiteSkip = ns.suiteSkip
    BY <1>3, <2>1
  <2> QED BY <1>5, <1>6, <2>1, <2>2
<1>10. CASE Setup \/ Teardown
  <2>1. pc \in Inside /\ s' = s /\ pc' \in Inside \cup {"ended"}
    BY <1>10 DEF Setup, Teardown, Fixture, After, PassFixture, Inside
  <2>2. ns'.testSkip = ns.testSkip /\ ns'.suiteSkip = ns.suiteSkip
    <3>1. ns' = ns \/ \E c : ns' = [ns EXCEPT !.currTest = c]
      BY <1>10 DEF Setup, Teardown, Fixture, PassFixture
    <3> QED BY <1>3, <3>1
  <2> QED BY <1>5, <1>6, <2>1, <2>2
<1>11. CASE Bottom
  <2>1. pc \in Inside /\ s' = s /\ pc' \in Inside /\ ns' = ns
    BY <1>11 DEF Bottom, Inside
  <2> QED BY <1>5, <1>6, <2>1
<1>12. CASE SuiteEnd
  <2>1. pc = "suiteEnd" /\ pc \in Inside
    BY <1>12 DEF SuiteEnd, Inside
  <2>2. CASE pc' = "ended"
    BY <2>2 DEF FlagsInv, Inside
  <2>3. CASE pc' # "ended"
    <3>1. pc' = "suite" /\ s' = s + 1
          /\ ns' = [ns EXCEPT !.suiteSkip = Suite.cond = "none" /\ @]
      BY <1>12, <2>3 DEF SuiteEnd
    <3>2. ~ns.testSkip /\ ~ns.suiteSkip => ~ns'.testSkip /\ ~ns'.suiteSkip
      BY <1>3, <3>1
    <3>3. NoSkips(s - 1)' => NoSkips(s)
      <4>1. s' - 1 = s
        BY <1>1, <3>1
      <4> QED BY <1>4, <4>1 DEF NoSkips
    <3> QED BY <1>6, <2>1, <3>1, <3>2, <3>3 DEF FlagsInv, Inside
  <2> QED BY <2>2, <2>3
<1>13. CASE Final
  BY <1>13 DEF Final, FlagsInv, Inside
<1>14. ASSUME NEW k, PassBy(k) \/ Filtered(k) \/ Skip(k) \/ RunTest(k) PROVE FlagsInv'
  <2>1. /\ pc = "test" /\ pc \in Inside /\ s' = s /\ pc' \in Inside /\ AtTest(k)
        /\ \/ ns' = [ns EXCEPT !.testNum = k, !.testSkip = FlagPast(k)]
           \/ \E c : ns' = [ns EXCEPT !.testNum = k, !.testSkip = FlagAt(k), !.currTest = c]
           \/ ns' = [ns EXCEPT !.testNum = k, !.testSkip = FlagAt(k)]
    BY <1>14 DEF PassBy, Filtered, Skip, RunTest, AtTest, Inside
  <2>2. ns'.testSkip \in {FlagAt(k), FlagPast(k)} /\ ns'.suiteSkip = ns.suiteSkip
    <3> DEFINE at == FlagAt(k)
               past == FlagPast(k)
    <3>1. \/ ns' = [ns EXCEPT !.testNum = k, !.testSkip = past]
          \/ \E c : ns' = [ns EXCEPT !.testNum = k, !.testSkip = at, !.currTest = c]
          \/ ns' = [ns EXCEPT !.testNum = k, !.testSkip = at]
      BY <2>1
    <3> HIDE DEF at, past
    <3>2. ns'.testSkip \in {at, past} /\ ns'.suiteSkip = ns.suiteSkip
      BY <1>3, <3>1
    <3> QED BY <3>2 DEF at, past
  <2> QED BY <1>5, <1>6, <1>7, <2>1, <2>2
<1>15. CASE UNCHANGED vars
  <2>1. pc' = pc /\ s' = s /\ ns' = ns
    BY <1>15 DEF vars
  <2> QED BY <1>4, <2>1 DEF FlagsInv, NoSkips
<1> QED BY <1>8, <1>9, <1>10, <1>11, <1>12, <1>13, <1>14, <1>15 DEF Next, Step, Ended

\* Where nothing is skipped so far, the walk skips no test.
LEMMA NotSkipped ==
  ASSUME IInv, FlagsInv, NEW k, AtTest(k), NoSkips(s)
  PROVE  ~Skipped(k)
<1>1. /\ TypeInv /\ k \in 1..Len(Suite.tests) /\ pc \in Inside
      /\ s \in 1..Len(program.suites)
  BY AtTestFacts, SuiteFacts
<1>2. ~SkipsIn(s)
  BY <1>1 DEF NoSkips
<1>3. Suite.tests[k].cond # "no" /\ ~ns.testSkip /\ ~ns.suiteSkip
  BY <1>1, <1>2, NoSkipFacts DEF FlagsInv, Suite
<1> QED BY <1>3 DEF Skipped, FlagAt, Test

----------------------------------------------------------------------------
(* What a suite has executed *)

\* The blocks of suite i in l.
Of(l, i) == FlattenSeq([n \in DOMAIN l |-> IF l[n].suite = i THEN <<l[n]>> ELSE <<>>])

LEMMA OfAppended ==
  ASSUME NEW l \in Seq(EntryType), NEW e \in EntryType, NEW i
  PROVE  /\ Of(l, i) \in Seq(EntryType)
         /\ Of(Append(l, e), i) = IF e.suite = i THEN Of(l, i) \o <<e>> ELSE Of(l, i)
<1> DEFINE more == Append(l, e)
           lists == [n \in DOMAIN l |-> IF l[n].suite = i THEN <<l[n]>> ELSE <<>>]
           lists2 == [n \in DOMAIN more |-> IF more[n].suite = i THEN <<more[n]>> ELSE <<>>]
           list == IF e.suite = i THEN <<e>> ELSE <<>>
<1>1. /\ Len(l) \in Nat /\ DOMAIN l = 1..Len(l) /\ more \in Seq(EntryType)
      /\ Len(more) = Len(l) + 1 /\ DOMAIN more = 1..(Len(l) + 1)
      /\ more[Len(l) + 1] = e /\ \A n \in 1..Len(l) : more[n] = l[n] /\ l[n] \in EntryType
  BY LenProperties, AppendProperties, ElementOfSeq
<1> DEFINE L == Len(l)
<1>2. lists \in Seq(Seq(EntryType)) /\ Len(lists) = L
  <2>1. lists = [n \in 1..L |-> IF l[n].suite = i THEN <<l[n]>> ELSE <<>>]
    BY <1>1
  <2>2. \A n \in 1..L : <<l[n]>> \in Seq(EntryType)
    BY <1>1
  <2>3. <<>> \in Seq(EntryType)
    OBVIOUS
  <2> HIDE DEF lists, L
  <2> QED BY <1>1, <2>1, <2>2, <2>3 DEF L
<1>3. list \in Seq(EntryType)
  <2>1. <<e>> \in Seq(EntryType) /\ <<>> \in Seq(EntryType)
    OBVIOUS
  <2> QED BY <2>1
<1>4. lists2 = Append(lists, list)
  <2>1. /\ Append(lists, list) \in Seq(Seq(EntryType)) /\ Len(Append(lists, list)) = L + 1
        /\ DOMAIN Append(lists, list) = 1..(L + 1) /\ Append(lists, list)[L + 1] = list
        /\ \A n \in 1..L : Append(lists, list)[n] = lists[n]
    <3> HIDE DEF lists, list, L
    <3> QED BY <1>2, <1>3, AppendProperties, LenProperties
  <2>2. DOMAIN lists2 = 1..(L + 1)
    BY <1>1
  <2>3. lists2[L + 1] = list
    BY <1>1
  <2>4. \A n \in 1..L : lists2[n] = lists[n]
    BY <1>1
  <2>5. \A n \in 1..(L + 1) : n \in 1..L \/ n = L + 1
    BY <1>1
  <2> DEFINE a == Append(lists, list)
  <2>6. lists2 = [n \in 1..(L + 1) |-> lists2[n]]
    BY <2>2
  <2>7. a = [n \in 1..(L + 1) |-> a[n]]
    <3>1. a \in Seq(Seq(EntryType)) /\ Len(a) = L + 1
      BY <2>1
    <3> HIDE DEF a, L
    <3> QED BY <3>1
  <2>8. \A n \in 1..(L + 1) : lists2[n] = a[n]
    BY <2>1, <2>3, <2>4, <2>5
  <2> HIDE DEF a, lists2
  <2>9. lists2 = a
    BY <2>6, <2>7, <2>8
  <2> QED BY <2>9 DEF a
<1>5. Of(l, i) = FlattenSeq(lists) /\ Of(more, i) = FlattenSeq(lists2)
  BY DEF Of
<1> HIDE DEF lists, lists2, list
<1>6. /\ FlattenSeq(lists) \in Seq(EntryType)
      /\ FlattenSeq(Append(lists, list)) = FlattenSeq(lists) \o list
  BY <1>2, <1>3, FlattenAppend
<1>7. CASE e.suite = i
  <2>1. list = <<e>>
    BY <1>7 DEF list
  <2> QED BY <1>4, <1>5, <1>6, <1>7, <2>1
<1>8. CASE e.suite # i
  <2>1. list = <<>> /\ FlattenSeq(lists) \o <<>> = FlattenSeq(lists)
    BY <1>6, <1>8 DEF list
  <2> QED BY <1>4, <1>5, <1>6, <1>8, <2>1
<1> QED BY <1>7, <1>8, <1>5, <1>6

\* A suite that has begun nothing.
LEMMA OfNothing ==
  ASSUME NEW l \in Seq(EntryType), NEW i, \A n \in 1..Len(l) : l[n].suite # i
  PROVE  Of(l, i) = <<>>
<1> DEFINE L == Len(l)
           lists == [n \in DOMAIN l |-> IF l[n].suite = i THEN <<l[n]>> ELSE <<>>]
<1>1. L \in Nat /\ DOMAIN l = 1..L
  BY LenProperties
<1>2. lists = [n \in 1..L |-> <<>>]
  BY <1>1
<1>3. lists \in Seq(Seq(EntryType)) /\ Len(lists) = L /\ \A n \in 1..L : lists[n] = <<>>
  <2>1. <<>> \in Seq(EntryType)
    OBVIOUS
  <2> HIDE DEF lists, L
  <2> QED BY <1>1, <1>2, <2>1
<1> HIDE DEF lists
<1>4. PICK f \in [0..Len(lists) -> Seq(EntryType)] :
        /\ f[0] = <<>> /\ \A n \in 1..Len(lists) : f[n] = f[n - 1] \o lists[n]
        /\ FlattenSeq(lists) = f[Len(lists)]
  <2>1. lists \in Seq(Seq(EntryType))
    BY <1>3
  <2> QED BY <2>1, FlattenSteps
<1> DEFINE S == {n \in 0..L : f[n] = <<>>}
<1>5. 0 \in S
  BY <1>1, <1>3, <1>4
<1>6. ASSUME NEW n \in 1..L, n - 1 \in S PROVE n \in S
  <2>1. f[n] = f[n - 1] \o <<>> /\ f[n - 1] = <<>>
    BY <1>3, <1>4, <1>6
  <2>2. <<>> \o <<>> = <<>>
    OBVIOUS
  <2> QED BY <2>1, <2>2
<1>7. 0..L \subseteq S
  <2> HIDE DEF S
  <2> QED BY <1>1, <1>5, <1>6, UpTo
<1>8. L \in 0..L
  BY <1>1
<1> QED BY <1>3, <1>4, <1>7, <1>8 DEF Of, lists

\* One round more.
LEMMA RoundsFacts ==
  ASSUME TypeInv, NEW i \in 1..Len(program.suites), NEW n \in Nat
  PROVE  /\ RoundsUpTo(i, 0) = <<>>
         /\ RoundsUpTo(i, n) \in Seq(EntryType)
         /\ RoundsUpTo(i, n + 1) = RoundsUpTo(i, n) \o Round(i, n + 1)
         /\ Rounds(i) = RoundsUpTo(i, Len(program.suites[i].tests))
<1>0. i \in Nat
  BY ProgramFacts
<1>1. \A k \in Nat : Round(i, k) \in Seq(EntryType)
  <2> TAKE k \in Nat
  <2>1. \A block \in BlockNames, m \in Nat : Executed(i, block, m) \in EntryType
    BY <1>0 DEF Executed, EntryType
  <2> DEFINE a == Executed(i, "setup", 0)
             b == Executed(i, "test", k)
             c == Executed(i, "teardown", 0)
  <2>2. a \in EntryType /\ b \in EntryType /\ c \in EntryType
    BY <2>1 DEF BlockNames
  <2>3. Round(i, k) = <<a, b, c>> \/ Round(i, k) = <<a, c>>
    BY DEF Round
  <2> HIDE DEF a, b, c
  <2>4. <<a, b, c>> \in Seq(EntryType) /\ <<a, c>> \in Seq(EntryType)
    BY <2>2
  <2> QED BY <2>3, <2>4
<1> DEFINE F(m) == [k \in 1..m |-> Round(i, k)]
<1>2. \A m \in Nat : F(m) \in Seq(Seq(EntryType)) /\ Len(F(m)) = m
  BY <1>1
<1>3. RoundsUpTo(i, 0) = <<>>
  <2>1. F(0) = <<>>
    OBVIOUS
  <2> QED BY <2>1, FlattenNothing DEF RoundsUpTo
<1>4. F(n + 1) = Append(F(n), Round(i, n + 1))
  <2> DEFINE G == F(n + 1)
             H == F(n)
             r == Round(i, n + 1)
             A == Append(H, r)
  <2>1. /\ H \in Seq(Seq(EntryType)) /\ Len(H) = n /\ r \in Seq(EntryType)
        /\ G \in Seq(Seq(EntryType)) /\ Len(G) = n + 1
    BY <1>1, <1>2
  <2>2. /\ G[n + 1] = r /\ \A k \in 1..n : G[k] = H[k]
    OBVIOUS
  <2> HIDE DEF G, H, r
  <2>3. /\ A \in Seq(Seq(EntryType)) /\ Len(A) = n + 1 /\ A[n + 1] = r
        /\ \A k \in 1..n : A[k] = H[k]
    BY <2>1, AppendProperties
  <2>4. \A k \in 1..(n + 1) : G[k] = A[k]
    <3>1. \A k \in 1..(n + 1) : k \in 1..n \/ k = n + 1
      OBVIOUS
    <3> HIDE DEF A
    <3> QED BY <2>2, <2>3, <3>1
  <2> HIDE DEF A
  <2>5. G = A
    BY <2>1, <2>3, <2>4
  <2> QED BY <2>5 DEF G, H, r, A
<1>5. /\ FlattenSeq(F(n)) \in Seq(EntryType)
      /\ FlattenSeq(Append(F(n), Round(i, n + 1))) = FlattenSeq(F(n)) \o Round(i, n + 1)
  <2>1. F(n) \in Seq(Seq(EntryType)) /\ Round(i, n + 1) \in Seq(EntryType)
    BY <1>1, <1>2
  <2> HIDE DEF F
  <2> QED BY <2>1, FlattenAppend
<1>6. Rounds(i) = RoundsUpTo(i, Len(program.suites[i].tests))
  BY ProgramFacts DEF Rounds, RoundsUpTo
<1> QED BY <1>3, <1>4, <1>5, <1>6 DEF RoundsUpTo

LEMMA OfLog == \A i : BlocksOf(i) = Of(log, i) /\ BlocksOf(i)' = Of(log', i)
BY Zenon DEF BlocksOf, Of

LEMMA SameRounds ==
  ASSUME program' = program, kern'.filters = kern.filters
  PROVE  \A i : /\ Undisturbed(i)' <=> Undisturbed(i)
                /\ Rounds(i)' = Rounds(i)
                /\ \A n : RoundsUpTo(i, n)' = RoundsUpTo(i, n)
BY ZenonT(40) DEF Undisturbed, NoSkips, SkipsIn, AbortedBy, Rounds, RoundsUpTo, Round, Executed

LEMMA SameSays ==
  ASSUME NEW t, NEW blocks, UNCHANGED <<program, s, kern>>
  PROVE  Says(t, blocks)' <=> Says(t, blocks)
<1>1. \A i : Rounds(i)' = Rounds(i) /\ \A n : RoundsUpTo(i, n)' = RoundsUpTo(i, n)
  BY SameRounds
<1> QED BY <1>1 DEF Says, Executed

\* A step within a suite adds to no other.
LEMMA OnceWithin ==
  ASSUME IInv, OnceInv, pc \in Inside, pc' \in Inside \cup {"ended"},
         UNCHANGED <<program, s, kern>>,
         log' = log \/ \E e \in EntryType : e.suite = s /\ log' = Append(log, e),
         pc' \in Inside /\ Undisturbed(s) => Says(ts', Of(log', s))
  PROVE  OnceInv'
<1>1. /\ TypeInv /\ s \in Nat /\ log \in Seq(EntryType)
      /\ program' = program /\ s' = s /\ kern' = kern /\ pc' # "suite"
  BY SuiteFacts DEF IInv, TypeInv, Inside
<1>2. \A i : Undisturbed(i)' <=> Undisturbed(i) /\ Rounds(i)' = Rounds(i)
  BY <1>1, SameRounds
<1>3. \A i \in 1..(s - 1) : BlocksOf(i)' = BlocksOf(i)
  <2> TAKE i \in 1..(s - 1)
  <2>1. i # s
    BY <1>1
  <2>2. Of(log', i) = Of(log, i)
    <3>1. CASE log' = log
      BY <3>1
    <3>2. ASSUME NEW e \in EntryType, e.suite = s, log' = Append(log, e)
          PROVE  Of(log', i) = Of(log, i)
      <4>1. Of(Append(log, e), i) = IF e.suite = i THEN Of(log, i) \o <<e>> ELSE Of(log, i)
        BY <1>1, OfAppended
      <4> QED BY <2>1, <3>2, <4>1
    <3> QED BY <3>1, <3>2
  <2> QED BY <2>2, OfLog
<1>4. Says(ts, BlocksOf(s))' <=> Says(ts', Of(log', s))
  <2>1. BlocksOf(s)' = Of(log', s)
    BY <1>1, Zenon DEF BlocksOf, Of
  <2>2. PICK t : t = ts'
    OBVIOUS
  <2>3. PICK blocks : blocks = Of(log', s)
    OBVIOUS
  <2>4. Says(ts, BlocksOf(s))' <=> Says(t, blocks)'
    BY <2>1, <2>2, <2>3 DEF Says
  <2>5. Says(t, blocks)' <=> Says(t, blocks)
    BY SameSays
  <2> QED BY <2>2, <2>3, <2>4, <2>5
<1>5. \A i \in 1..(s' - 1) : Undisturbed(i)' => BlocksOf(i)' = Rounds(i)'
  BY <1>1, <1>2, <1>3 DEF OnceInv
<1>6. pc' \in Inside /\ Undisturbed(s)' => Says(ts, BlocksOf(s))'
  <2>1. Undisturbed(s)' => Undisturbed(s)
    BY <1>1, Zenon DEF Undisturbed, NoSkips, SkipsIn, AbortedBy
  <2> QED BY <1>4, <2>1
<1> QED BY <1>5, <1>6 DEF OnceInv

LEMMA SaysNow ==
  ASSUME IInv, OnceInv, pc \in Inside
  PROVE  /\ Of(log, s) \in Seq(EntryType)
         /\ Undisturbed(s) => Says(ts, Of(log, s))
<1>1. log \in Seq(EntryType)
  BY DEF IInv, TypeInv
<1>2. Of(log, s) \in Seq(EntryType)
  <2>1. Executed(0, "test", 0) \in EntryType
    BY DEF Executed, EntryType, BlockNames
  <2> QED BY <1>1, <2>1, OfAppended
<1> QED BY <1>2, OfLog DEF OnceInv

LEMMA TopOnce == ASSUME IInv, OnceInv, Top PROVE OnceInv'
<1>1. /\ pc \in Inside /\ pc' \in Inside /\ UNCHANGED <<program, s, kern, log>>
      /\ IF ts.mode \in {"ending", "abort"} THEN ts' = [ts EXCEPT !.mode = "end"] ELSE ts' = ts
  BY DEF Top, Inside
<1>2. ASSUME Undisturbed(s) PROVE Says(ts', Of(log, s))
  <2>1. Says(ts, Of(log, s))
    BY <1>1, <1>2, SaysNow
  <2>2. CASE ts.mode \in {"ending", "abort"}
    <3>1. ts.mode = "ending" /\ Of(log, s) = Rounds(s)
      BY <2>1, <2>2 DEF Says
    <3>2. ts' = [mode |-> "end", curr |-> ts.curr, total |-> ts.total, list |-> ts.list]
      BY <1>1, <2>2, Records DEF IInv
    <3>3. ts'.mode = "end"
      BY <3>2
    <3> QED BY <3>1, <3>3 DEF Says
  <2>3. CASE ts.mode \notin {"ending", "abort"}
    BY <1>1, <2>1, <2>3
  <2> QED BY <2>2, <2>3
<1> QED BY <1>1, <1>2, OnceWithin

\* A round that begins after those that are complete.
LEMMA RoundOnce ==
  ASSUME IInv, OnceInv, pc \in Inside, Undisturbed(s), ts.mode = "test",
         NEW k, k = ts.curr + 1
  PROVE  /\ k \in Nat /\ k \in 1..ts.total
         /\ PassFilter(kern.filters, Suite.tests[k].name) =>
              (Of(log, s) \o <<Executed(s, "test", k)>>) \o <<Executed(s, "teardown", 0)>>
                = RoundsUpTo(s, k)
         /\ ~PassFilter(kern.filters, Suite.tests[k].name) =>
              Of(log, s) \o <<Executed(s, "teardown", 0)>> = RoundsUpTo(s, k)
<1> DEFINE a == Executed(s, "setup", 0)
           b == Executed(s, "test", k)
           c == Executed(s, "teardown", 0)
           R == RoundsUpTo(s, ts.curr)
<1>1. /\ TypeInv /\ ts.curr \in Nat /\ ts.total \in Nat /\ k \in Nat /\ ts.curr < ts.total
      /\ s \in 1..Len(program.suites) /\ s \in Nat
  BY TsFacts, SuiteFacts DEF IInv, WalkInv
<1>2. a \in EntryType /\ b \in EntryType /\ c \in EntryType
  BY <1>1 DEF Executed, EntryType, BlockNames
<1>3. Of(log, s) = R \o <<a>>
  BY SaysNow DEF Says
<1>4. R \in Seq(EntryType) /\ RoundsUpTo(s, k) = R \o Round(s, k)
  BY <1>1, RoundsFacts
<1>5. /\ PassFilter(kern.filters, Suite.tests[k].name) => Round(s, k) = <<a, b, c>>
      /\ ~PassFilter(kern.filters, Suite.tests[k].name) => Round(s, k) = <<a, c>>
  BY DEF Round, Suite
<1> HIDE DEF a, b, c, R
<1>6. /\ (R \o <<a>>) \o <<c>> = R \o <<a, c>>
      /\ ((R \o <<a>>) \o <<b>>) \o <<c>> = R \o <<a, b, c>>
  <2> DEFINE A == <<a>>
             B == <<b>>
             C == <<c>>
             AB == <<a, b>>
             AC == <<a, c>>
             ABC == <<a, b, c>>
  <2>1. A \o B = AB /\ A \o C = AC /\ AB \o C = ABC
    BY <1>2, PairListed, TripleListed
  <2>2. A \in Seq(EntryType) /\ B \in Seq(EntryType)
    BY <1>2
  <2>3. C \in Seq(EntryType) /\ AB \in Seq(EntryType)
    BY <1>2
  <2>4. R \in Seq(EntryType)
    BY <1>4
  <2> HIDE DEF A, B, C, AB, AC, ABC
  <2>5. A \in Seq(EntryType)
    BY <2>2
  <2>6. C \in Seq(EntryType)
    BY <2>3
  <2>7. (R \o A) \o C = R \o (A \o C)
    BY <2>4, <2>5, <2>6, ConcatAssociative
  <2>8. (R \o A) \o B = R \o (A \o B)
    BY <2>2, <2>4, ConcatAssociative
  <2>9. (R \o AB) \o C = R \o (AB \o C)
    BY <2>3, <2>4, ConcatAssociative
  <2>10. (R \o A) \o C = R \o AC /\ ((R \o A) \o B) \o C = R \o ABC
    BY <2>1, <2>7, <2>8, <2>9
  <2> QED BY <2>10 DEF A, B, C, AC, ABC
<1>7. k \in 1..ts.total
  BY <1>1
<1> QED BY <1>1, <1>3, <1>4, <1>5, <1>6, <1>7 DEF b, c

LEMMA AtTestOnce ==
  ASSUME IInv, FlagsInv, OnceInv, NEW k, PassBy(k) \/ Filtered(k) \/ Skip(k) \/ RunTest(k)
  PROVE  OnceInv'
<1>1. /\ TypeInv /\ pc = "test" /\ pc \in Inside /\ k = ns.testNum + 1 /\ AtTest(k)
      /\ k \in 1..Len(Suite.tests) /\ pc' \in Inside /\ UNCHANGED <<program, s, kern>>
  <2>1. AtTest(k)
    BY DEF PassBy, Filtered, Skip, RunTest
  <2> QED BY <2>1, AtTestFacts DEF PassBy, Filtered, Skip, RunTest, Inside
<1>2. Undisturbed(s) => Says(ts, Of(log, s)) /\ Of(log, s) \in Seq(EntryType)
  BY <1>1, SaysNow
<1>3. ts = [mode |-> ts.mode, curr |-> ts.curr, total |-> ts.total, list |-> ts.list]
      /\ ts.curr \in Nat
  BY <1>1, Records, TsFacts
<1>4. CASE PassBy(k)
  <2>1. log' = log /\ ts' = IF ts.mode = "cnt" THEN [ts EXCEPT !.total = @ + 1] ELSE ts
    BY <1>4 DEF PassBy
  <2>2. ts'.mode = ts.mode /\ ts'.curr = ts.curr /\ (ts.mode = "cnt" \/ ts'.total = ts.total)
    BY <1>3, <2>1
  <2>3. Undisturbed(s) => Says(ts', Of(log, s))
    BY <1>2, <2>2 DEF Says
  <2> QED BY <1>1, <2>1, <2>3, OnceWithin
<1>5. CASE Filtered(k) \/ RunTest(k)
  <2>1. ts.mode = "test" /\ k = ts.curr + 1
    BY <1>1, <1>3, <1>5 DEF Filtered, RunTest, IsTurnOf
  <2>2. ts'.mode = "teardown" /\ ts'.curr = k /\ ts'.total = ts.total
    <3>1. \/ ts' = [ts EXCEPT !.curr = @ + 1, !.mode = "teardown"]
          \/ \E l : ts' = [ts EXCEPT !.curr = @ + 1, !.mode = "teardown", !.list = l]
      <4>1. CASE Filtered(k)
        BY <4>1 DEF Filtered
      <4>2. CASE RunTest(k)
        <5> DEFINE l == Append(ts.list,
                               RunBlock(Test(k).body, Len(tests) + 1, Append(tests, NewTest)).currTest)
        <5>1. ts' = [ts EXCEPT !.curr = @ + 1, !.mode = "teardown", !.list = l]
          BY <4>2, <1>3 DEF RunTest
        <5> HIDE DEF l
        <5> QED BY <5>1
      <4> QED BY <1>5, <4>1, <4>2
    <3> QED BY <1>3, <2>1, <3>1
  <2>3. CASE Filtered(k)
    <3>1. log' = log /\ ~PassFilter(kern.filters, Suite.tests[k].name)
      BY <2>3 DEF Filtered, Test
    <3>2. ASSUME Undisturbed(s) PROVE Says(ts', Of(log', s))
      <4>1. /\ k \in 1..ts.total
            /\ Of(log, s) \o <<Executed(s, "teardown", 0)>> = RoundsUpTo(s, k)
        BY <1>1, <2>1, <3>1, <3>2, RoundOnce
      <4> QED BY <2>2, <3>1, <4>1 DEF Says
    <3> QED BY <1>1, <3>1, <3>2, OnceWithin
  <2>4. CASE RunTest(k)
    <3> DEFINE e == Executed(s, "test", k)
    <3>1. log' = Append(log, e) /\ PassFilter(kern.filters, Suite.tests[k].name)
      BY <2>4 DEF RunTest, Test
    <3>2. e \in EntryType /\ e.suite = s
      BY <1>1, SuiteFacts DEF Executed, EntryType, BlockNames
    <3>3. ASSUME Undisturbed(s) PROVE Says(ts', Of(log', s))
      <4>1. /\ k \in 1..ts.total
            /\ (Of(log, s) \o <<e>>) \o <<Executed(s, "teardown", 0)>> = RoundsUpTo(s, k)
        BY <1>1, <2>1, <3>1, <3>3, RoundOnce
      <4> HIDE DEF e
      <4>2. Of(log', s) = Of(log, s) \o <<e>>
        <5>1. log \in Seq(EntryType)
          BY <1>1 DEF TypeInv
        <5>2. Of(Append(log, e), s) = IF e.suite = s THEN Of(log, s) \o <<e>> ELSE Of(log, s)
          BY <3>2, <5>1, OfAppended
        <5> QED BY <3>1, <3>2, <5>2
      <4> QED BY <2>2, <4>1, <4>2 DEF Says
    <3> HIDE DEF e
    <3> QED BY <1>1, <3>1, <3>2, <3>3, OnceWithin
  <2> QED BY <1>5, <2>3, <2>4
<1>6. CASE Skip(k)
  <2>1. ~Undisturbed(s) /\ log' = log
    <3>1. Skipped(k)
      BY <1>6 DEF Skip
    <3>2. log' = log
      BY <1>6 DEF Skip
    <3> QED BY <1>1, <3>1, <3>2, NotSkipped DEF Undisturbed
  <2> QED BY <1>1, <2>1, OnceWithin
<1> QED BY <1>4, <1>5, <1>6

LEMMA BottomOnce == ASSUME IInv, OnceInv, Bottom PROVE OnceInv'
<1>1. /\ TypeInv /\ WalkInv /\ pc = "test" /\ pc \in Inside /\ pc' \in Inside
      /\ ns.testNum = Len(Suite.tests)
      /\ UNCHANGED <<program, s, kern, log>>
      /\ ts' = IF ts.mode = "cnt"
               THEN [ts EXCEPT !.mode = IF ts.total = 0 THEN "ending" ELSE "setup"] ELSE ts
  BY DEF IInv, Bottom, Inside
<1>2. ASSUME Undisturbed(s) PROVE Says(ts', Of(log, s))
  <2>1. Says(ts, Of(log, s))
    BY <1>1, <1>2, SaysNow
  <2>2. CASE ts.mode = "cnt"
    <3>1. Of(log, s) = <<>> /\ ts.curr = 0 /\ ts.total = Len(Suite.tests)
      BY <1>1, <2>1, <2>2 DEF Says, WalkInv
    <3>2. /\ ts'.mode = (IF ts.total = 0 THEN "ending" ELSE "setup") /\ ts'.curr = 0
      <4> DEFINE m == IF ts.total = 0 THEN "ending" ELSE "setup"
      <4>1. ts = [mode |-> ts.mode, curr |-> ts.curr, total |-> ts.total, list |-> ts.list]
        BY <1>1, Records
      <4>2. ts' = [ts EXCEPT !.mode = m]
        BY <1>1, <2>2
      <4> HIDE DEF m
      <4>3. ts' = [mode |-> m, curr |-> ts.curr, total |-> ts.total, list |-> ts.list]
        BY <4>1, <4>2
      <4> QED BY <3>1, <4>3 DEF m
    <3>3. RoundsUpTo(s, 0) = <<>> /\ Rounds(s) = RoundsUpTo(s, Len(Suite.tests))
      <4>1. s \in 1..Len(program.suites) /\ 0 \in Nat
        BY <1>1, SuiteFacts
      <4> QED BY <1>1, <4>1, RoundsFacts DEF Suite
    <3> QED BY <3>1, <3>2, <3>3 DEF Says
  <2>3. CASE ts.mode # "cnt"
    BY <1>1, <2>1, <2>3
  <2> QED BY <2>2, <2>3
<1> QED BY <1>1, <1>2, OnceWithin

LEMMA FixtureOnce ==
  ASSUME IInv, OnceInv, NEW which \in {"setup", "teardown"}, pc = which, ts.mode = which,
         Suite[which] # NoBlock, NEW endMode, NEW goesTo,
         which = "setup" => endMode = "test" /\ goesTo = "teardown",
         which = "teardown" => /\ endMode = IF ts.curr < ts.total THEN "setup" ELSE "ending"
                               /\ goesTo = "top",
         Fixture(which, endMode, goesTo), UNCHANGED <<program, s, kern>>
  PROVE  OnceInv'
<1> DEFINE e == Executed(s, which, 0)
<1>1. /\ TypeInv /\ TestsInv /\ WalkInv /\ pc \in Inside /\ log \in Seq(EntryType)
      /\ s \in 1..Len(program.suites) /\ s \in Nat
  BY SuiteFacts DEF IInv, TypeInv, Inside
<1>2. ts.curr \in Nat /\ ts.total = Len(Suite.tests)
      /\ ts = [mode |-> ts.mode, curr |-> ts.curr, total |-> ts.total, list |-> ts.list]
  BY <1>1, TsFacts, Records DEF WalkInv
<1>3. PICK b, m : IsFixture(which, endMode, goesTo, b, m)
  BY <1>1, FixtureFacts
<1>4. e \in EntryType /\ e.suite = s /\ log' = Append(log, e)
  <2>1. log' = Append(log, e)
    BY <1>3 DEF IsFixture
  <2> QED BY <1>1, <2>1 DEF Executed, EntryType, BlockNames
<1>5. pc' \in Inside \cup {"ended"}
  <2>1. pc' = IF b.broken THEN "ended" ELSE IF b.left THEN "suiteEnd" ELSE goesTo
    BY <1>3 DEF IsFixture
  <2> QED BY <2>1 DEF Inside
<1>6. ASSUME pc' \in Inside, Undisturbed(s) PROVE Says(ts', Of(log', s))
  <2>1. ~b.broken
    BY <1>3, <1>6 DEF IsFixture, Inside
  <2>2. ~AbortedBy(Suite[which])
    BY <1>6 DEF Undisturbed, Suite
  <2>3. m = endMode
    BY <1>3, <2>1, <2>2 DEF IsFixture
  <2>4. ts'.mode = endMode /\ ts'.curr = ts.curr /\ ts'.total = ts.total
    <3>1. ts' = [ts EXCEPT !.list = b.list, !.mode = m]
      BY <1>3 DEF IsFixture
    <3> QED BY <1>2, <2>3, <3>1
  <2>5. Says(ts, Of(log, s))
    BY <1>1, <1>6, SaysNow
  <2>6. Of(log', s) = Of(log, s) \o <<e>>
    <3> HIDE DEF e
    <3>1. Of(Append(log, e), s) = IF e.suite = s THEN Of(log, s) \o <<e>> ELSE Of(log, s)
      BY <1>1, <1>4, OfAppended
    <3> QED BY <1>4, <3>1
  <2>7. CASE which = "setup"
    <3>1. Of(log', s) = RoundsUpTo(s, ts.curr) \o <<Executed(s, "setup", 0)>> /\ endMode = "test"
      BY <2>5, <2>6, <2>7 DEF Says
    <3> QED BY <2>4, <3>1 DEF Says
  <2>8. CASE which = "teardown"
    <3>1. ts.curr \in 1..ts.total /\ Of(log', s) = RoundsUpTo(s, ts.curr)
      BY <2>5, <2>6, <2>8 DEF Says
    <3>2. CASE ts.curr < ts.total
      BY <2>4, <2>8, <3>1, <3>2 DEF Says
    <3>3. CASE ~(ts.curr < ts.total)
      <4>1. ts.curr = Len(Suite.tests) /\ endMode = "ending"
        BY <1>2, <2>8, <3>1, <3>3
      <4>2. Rounds(s) = RoundsUpTo(s, Len(Suite.tests))
        BY <1>1, <1>2, RoundsFacts DEF Suite
      <4> QED BY <2>4, <3>1, <4>1, <4>2 DEF Says
    <3> QED BY <3>2, <3>3
  <2> QED BY <2>7, <2>8
<1> HIDE DEF e
<1> QED BY <1>1, <1>4, <1>5, <1>6, OnceWithin

\* A walk past a fixture changes nothing.
LEMMA PassFixtureOnce ==
  ASSUME IInv, OnceInv, pc \in Inside, NEW goesTo \in Inside, PassFixture(goesTo),
         UNCHANGED <<program, s, kern>>
  PROVE  OnceInv'
<1>1. pc' \in Inside /\ ts' = ts /\ log' = log
  BY DEF PassFixture
<1>2. Undisturbed(s) => Says(ts', Of(log', s))
  BY <1>1, SaysNow
<1> QED BY <1>1, <1>2, OnceWithin

LEMMA SetupOnce == ASSUME IInv, OnceInv, Setup PROVE OnceInv'
<1>1. pc = "setup" /\ pc \in Inside /\ UNCHANGED <<program, s, kern>>
  BY DEF Setup, Inside
<1>2. CASE ts.mode = "setup" /\ Suite.setup # NoBlock
  <2> DEFINE which == "setup"
             endMode == "test"
             goesTo == "teardown"
  <2>1. /\ Fixture(which, endMode, goesTo) /\ Suite[which] # NoBlock
        /\ pc = which /\ ts.mode = which /\ which \in {"setup", "teardown"}
        /\ which = "setup" => endMode = "test" /\ goesTo = "teardown"
        /\ which # "teardown"
    BY <1>1, <1>2 DEF Setup
  <2> HIDE DEF which, endMode, goesTo
  <2> QED BY <1>1, <2>1, FixtureOnce
<1>3. CASE ~(ts.mode = "setup" /\ Suite.setup # NoBlock)
  <2> DEFINE goesTo == "teardown"
  <2>1. PassFixture(goesTo) /\ goesTo \in Inside
    BY <1>3 DEF Setup, Inside
  <2> HIDE DEF goesTo
  <2> QED BY <1>1, <2>1, PassFixtureOnce
<1> QED BY <1>2, <1>3

LEMMA TeardownOnce == ASSUME IInv, OnceInv, Teardown PROVE OnceInv'
<1>1. pc = "teardown" /\ pc \in Inside /\ UNCHANGED <<program, s, kern>>
  BY DEF Teardown, Inside
<1>2. CASE ts.mode = "teardown" /\ Suite.teardown # NoBlock
  <2> DEFINE which == "teardown"
             endMode == IF ts.curr < ts.total THEN "setup" ELSE "ending"
             goesTo == "top"
  <2>1. /\ Fixture(which, endMode, goesTo) /\ Suite[which] # NoBlock
        /\ pc = which /\ ts.mode = which /\ which \in {"setup", "teardown"}
        /\ which # "setup" /\ goesTo = "top"
        /\ endMode = IF ts.curr < ts.total THEN "setup" ELSE "ending"
    BY <1>1, <1>2 DEF Teardown
  <2> HIDE DEF which, endMode, goesTo
  <2> QED BY <1>1, <2>1, FixtureOnce
<1>3. CASE ~(ts.mode = "teardown" /\ Suite.teardown # NoBlock)
  <2> DEFINE goesTo == "test"
  <2>1. PassFixture(goesTo) /\ goesTo \in Inside
    BY <1>3 DEF Teardown, Inside
  <2> HIDE DEF goesTo
  <2> QED BY <1>1, <2>1, PassFixtureOnce
<1> QED BY <1>2, <1>3

\* The suites before are those that the invariant tells of.
LEMMA OnceBefore ==
  ASSUME IInv, OnceInv, pc \in Inside \cup {"suite"}, program' = program, log' = log, s' = s,
         s # 1 => kern'.filters = kern.filters
  PROVE  \A i \in 1..(s - 1) : Undisturbed(i)' => BlocksOf(i)' = Rounds(i)'
<1> TAKE i \in 1..(s - 1)
<1>1. s \in Nat
  BY ProgramFacts DEF IInv, TypeInv
<1>2. kern'.filters = kern.filters
  BY <1>1
<1>3. (Undisturbed(i)' <=> Undisturbed(i)) /\ Rounds(i)' = Rounds(i)
  BY <1>2, SameRounds
<1>4. BlocksOf(i)' = BlocksOf(i)
  BY OfLog
<1> QED BY <1>3, <1>4 DEF OnceInv

LEMMA SuiteBeginOnce == ASSUME IInv, OnceInv, SuiteBegin PROVE OnceInv'
<1>1. /\ TypeInv /\ WalkInv /\ PlaceInv /\ pc = "suite" /\ log \in Seq(EntryType)
      /\ program' = program /\ log' = log /\ s' = s /\ ts'.mode = "cnt" /\ pc' # "suite"
  BY DEF IInv, TypeInv, SuiteBegin, NewSuite
<1>2. s # 1 => kern'.filters = kern.filters
  BY <1>1 DEF SuiteBegin, WalkInv
<1>3. \A i \in 1..(s' - 1) : Undisturbed(i)' => BlocksOf(i)' = Rounds(i)'
  BY <1>1, <1>2, OnceBefore
<1>4. Says(ts, BlocksOf(s))'
  <2>1. Of(log, s) = <<>>
    <3>1. \A n \in 1..Len(log) : log[n].suite # s
      BY <1>1, TsFacts, ProgramFacts DEF PlaceInv, TypeInv
    <3> QED BY <1>1, <3>1, OfNothing
  <2>2. BlocksOf(s)' = <<>>
    BY <1>1, <2>1, Zenon DEF BlocksOf, Of
  <2> QED BY <1>1, <2>2 DEF Says
<1> QED BY <1>1, <1>3, <1>4 DEF OnceInv

LEMMA SuiteEndOnce == ASSUME IInv, OnceInv, SuiteEnd PROVE OnceInv'
<1>1. /\ TypeInv /\ WalkInv /\ pc = "suiteEnd" /\ pc \in Inside
      /\ program' = program /\ log' = log /\ kern' = [kern EXCEPT !.tsList = Append(@, ts.list)]
      /\ s \in Nat
  BY SuiteFacts DEF IInv, SuiteEnd, Inside
<1>2. CASE pc' = "ended"
  BY <1>2 DEF OnceInv, Inside
<1>3. CASE pc' # "ended"
  <2>1. pc' = "suite" /\ s' = s + 1
    BY <1>3 DEF SuiteEnd
  <2>2. kern'.filters = kern.filters
    <3> DEFINE list == Append(kern.tsList, ts.list)
    <3>1. /\ kern' = [kern EXCEPT !.tsList = list]
          /\ kern = [parsed |-> kern.parsed, filters |-> kern.filters, logger |-> kern.logger,
                     tsList |-> kern.tsList]
      BY <1>1 DEF TypeInv
    <3> HIDE DEF list
    <3> QED BY <3>1
  <2>3. \A i : /\ Undisturbed(i)' <=> Undisturbed(i)
               /\ Rounds(i)' = Rounds(i) /\ BlocksOf(i)' = BlocksOf(i)
    BY <1>1, <2>2, SameRounds, OfLog
  <2>4. Undisturbed(s) => BlocksOf(s) = Rounds(s)
    <3>1. ts.mode \in {"end", "abort"}
      BY <1>1 DEF WalkInv
    <3> QED BY <1>1, <3>1 DEF OnceInv, Says
  <2>5. \A i \in 1..s : Undisturbed(i) => BlocksOf(i) = Rounds(i)
    <3>1. \A i \in 1..s : i \in 1..(s - 1) \/ i = s
      BY <1>1
    <3> QED BY <1>1, <2>4, <3>1 DEF OnceInv
  <2>6. s' - 1 = s
    BY <1>1, <2>1
  <2> QED BY <2>1, <2>3, <2>5, <2>6 DEF OnceInv, Inside
<1> QED BY <1>2, <1>3

LEMMA NextOnce == ASSUME IInv, FlagsInv, OnceInv, [Next]_vars PROVE OnceInv'
<1>1. CASE SuiteBegin
  BY <1>1, SuiteBeginOnce
<1>2. CASE Top
  BY <1>2, TopOnce
<1>3. CASE Setup
  BY <1>3, SetupOnce
<1>4. CASE Teardown
  BY <1>4, TeardownOnce
<1>5. CASE Bottom
  BY <1>5, BottomOnce
<1>6. CASE SuiteEnd
  BY <1>6, SuiteEndOnce
<1>7. CASE Final
  BY <1>7 DEF Final, OnceInv, Inside
<1>8. ASSUME NEW k, PassBy(k) \/ Filtered(k) \/ Skip(k) \/ RunTest(k) PROVE OnceInv'
  BY <1>8, AtTestOnce
<1>9. CASE UNCHANGED vars
  <2>1. program' = program /\ pc' = pc /\ s' = s /\ ts' = ts /\ kern' = kern /\ log' = log
    BY <1>9 DEF vars
  <2>2. \A i : /\ Undisturbed(i)' <=> Undisturbed(i)
               /\ Rounds(i)' = Rounds(i) /\ BlocksOf(i)' = BlocksOf(i)
    BY <2>1, SameRounds, OfLog
  <2>3. Says(ts, BlocksOf(s))' <=> Says(ts, BlocksOf(s))
    <3>1. PICK t, blocks : t = ts /\ blocks = BlocksOf(s)
      OBVIOUS
    <3>2. BlocksOf(s)' = BlocksOf(s)
      BY <2>1, Zenon DEF BlocksOf
    <3>3. Says(ts, BlocksOf(s))' <=> Says(t, blocks)'
      BY <2>1, <3>1, <3>2 DEF Says
    <3> QED BY <2>1, <3>1, <3>3, SameSays
  <2> QED BY <2>1, <2>2, <2>3 DEF OnceInv
<1> QED BY <1>1, <1>2, <1>3, <1>4, <1>5, <1>6, <1>7, <1>8, <1>9 DEF Next, Step, Ended

----------------------------------------------------------------------------
(* The failures *)

\* No test has more failures than there are.
LEMMA FailuresBound ==
  ASSUME NEW made \in Seq(TestType), NEW n, IsFailures(n, made)
  PROVE  n \in Nat /\ \A t \in 1..Len(made) : made[t].failed \in Nat /\ made[t].failed <= n
<1> DEFINE L == Len(made)
<1>1. L \in Nat /\ \A t \in 1..L : made[t].failed \in Nat
  <2>1. \A t \in 1..L : made[t] \in TestType
    BY ElementOfSeq
  <2> QED BY <2>1, LenProperties DEF TestType
<1>2. PICK P \in [0..L -> Nat] : /\ P[0] = 0 /\ P[L] = n
                                 /\ \A t \in 1..L : P[t] = P[t - 1] + made[t].failed
  BY DEF IsFailures
<1> HIDE DEF L
<1> DEFINE S == {m \in 0..L : \A t \in 1..m : made[t].failed <= P[m]}
<1>3. 0 \in S
  BY <1>1
<1>4. ASSUME NEW m \in 1..L, m - 1 \in S PROVE m \in S
  <2>1. /\ m - 1 \in 0..L /\ m \in 0..L /\ P[m - 1] \in Nat /\ P[m] \in Nat
        /\ P[m] = P[m - 1] + made[m].failed /\ made[m].failed \in Nat
    BY <1>1, <1>2
  <2>2. ASSUME NEW t \in 1..m PROVE made[t].failed <= P[m]
    <3>1. CASE t = m
      BY <2>1, <3>1
    <3>2. CASE t # m
      <4>1. t \in 1..(m - 1) /\ t \in 1..L
        BY <1>1, <3>2
      <4>2. made[t].failed <= P[m - 1] /\ made[t].failed \in Nat
        BY <1>1, <1>4, <4>1
      <4> QED BY <2>1, <4>2
    <3> QED BY <3>1, <3>2
  <2> QED BY <2>1, <2>2
<1>5. 0..L \subseteq S
  <2> HIDE DEF S
  <2> QED BY <1>1, <1>3, <1>4, UpTo
<1>6. L \in 0..L
  BY <1>1
<1>7. L \in S
  BY <1>5, <1>6
<1> QED BY <1>1, <1>2, <1>6, <1>7 DEF L

\* Over a list with every test once, the sum is that of all failures.
LEMMA SumOfAll ==
  ASSUME tests \in Seq(TestType), NEW n, IsFailures(n, tests), NEW lists,
         FlattenSeq(lists) = [t \in 1..Len(tests) |-> t]
  PROVE  SumOfFailed(lists) = n
<1> DEFINE L == Len(tests)
           all == FlattenSeq(lists)
           step == [x \in Nat \X (1..L) |-> x[1] + tests[x[2]].failed]
           Fold(f) == [p \in SUBSET (1..L) |->
                         IF p = {} THEN 0 ELSE f[p \ {Max(p)}] + tests[all[Max(p)]].failed]
           h == CHOOSE f : f = Fold(f)
<1>0. L \in Nat /\ \A t \in 1..L : tests[t].failed \in Nat
  BY FailuresBound, LenProperties
<1>1. DOMAIN all = 1..L /\ \A t \in 1..L : all[t] = t
  OBVIOUS
<1> HIDE DEF all
<1>2. step \in [Nat \X (1..L) -> Nat] /\ \A m \in Nat, t \in 1..L : step[<<m, t>>] = m + tests[t].failed
  <2> HIDE DEF L
  <2> QED BY <1>0
<1> HIDE DEF step
<1>3. PICK g \in [SUBSET (1..L) -> Nat] : IsFold(g, 0, L, step)
  <2>1. 0 \in Nat
    OBVIOUS
  <2> HIDE DEF L
  <2> QED BY <1>0, <1>2, <2>1, FoldExists
<1>4. h = Fold(h)
  <2>1. g = Fold(g)
    <3> SUFFICES ASSUME NEW p \in SUBSET (1..L), p # {}
                 PROVE  step[<<g[p \ {Max(p)}], Max(p)>>] = g[p \ {Max(p)}] + tests[all[Max(p)]].failed
      BY <1>3 DEF IsFold
    <3>1. Max(p) \in 1..L /\ p \ {Max(p)} \in SUBSET (1..L)
      BY <1>0, MaxFacts
    <3> QED BY <1>1, <1>2, <1>3, <3>1
  <2>2. \E f : f = Fold(f)
    BY <2>1
  <2> HIDE DEF Fold
  <2> QED BY <2>2
<1>5. SumOfFailed(lists) = h[1..L]
  <2>1. SumOfFailed(lists) =
          (CHOOSE f : f = [p \in SUBSET DOMAIN all |->
                             IF p = {} THEN 0
                             ELSE f[p \ {Max(p)}] + tests[all[Max(p)]].failed])[DOMAIN all]
    BY Zenon DEF SumOfFailed, FoldLeft, MapThenFoldSet, all
  <2> QED BY <1>1, <2>1
<1> HIDE DEF h
<1>6. IsStepwise(h, Nat, 0, L, step)
  <2>1. h[{}] = 0
    BY <1>4
  <2>2. ASSUME NEW p \in SUBSET (1..L), p # {}, h[p \ {Max(p)}] \in Nat
        PROVE  h[p] = step[<<h[p \ {Max(p)}], Max(p)>>]
    <3>1. Max(p) \in 1..L
      BY <1>0, <2>2, MaxFacts
    <3>2. h[p] = h[p \ {Max(p)}] + tests[all[Max(p)]].failed
      BY <1>4, <2>2
    <3> DEFINE m == h[p \ {Max(p)}]
               last == Max(p)
    <3>3. m \in Nat /\ last \in 1..L /\ h[p] = m + tests[all[last]].failed
      BY <2>2, <3>1, <3>2
    <3> HIDE DEF m, last, L
    <3>4. all[last] = last
      BY <1>1, <3>3
    <3>5. step[<<m, last>>] = m + tests[last].failed
      BY <1>2, <3>3
    <3>6. h[p] = step[<<m, last>>]
      BY <3>3, <3>4, <3>5
    <3> QED BY <3>6 DEF m, last
  <2>3. 0 \in Nat
    OBVIOUS
  <2> HIDE DEF L, Fold
  <2>4. IsFoldIn(h, Nat, 0, L, step)
    BY <2>1, <2>2 DEF IsFoldIn
  <2> QED BY <1>0, <1>2, <2>3, <2>4, FoldSteps
<1>7. PICK P \in [0..L -> Nat] : /\ P[0] = 0 /\ P[L] = n
                                 /\ \A t \in 1..L : P[t] = P[t - 1] + tests[t].failed
  BY DEF IsFailures
<1> DEFINE S == {m \in 0..L : h[1..m] = P[m]}
<1>8. 0 \in S
  BY <1>0, <1>6, <1>7 DEF IsStepwise
<1>9. ASSUME NEW m \in 1..L, m - 1 \in S PROVE m \in S
  <2>1. m - 1 \in 0..L /\ m \in 0..L
    BY <1>0
  <2>2. h[1..m] = step[<<h[1..(m - 1)], m>>] /\ h[1..(m - 1)] \in Nat
    BY <1>6, <2>1 DEF IsStepwise
  <2>3. h[1..(m - 1)] = P[m - 1] /\ P[m] = P[m - 1] + tests[m].failed
    BY <1>7, <1>9
  <2>4. h[1..m] = h[1..(m - 1)] + tests[m].failed
    BY <1>2, <2>2
  <2> QED BY <2>1, <2>3, <2>4
<1>10. 0..L \subseteq S
  <2> HIDE DEF S
  <2> QED BY <1>0, <1>8, <1>9, UpTo
<1>11. L \in 0..L
  BY <1>0
<1>12. L \in S
  BY <1>10, <1>11
<1> QED BY <1>5, <1>7, <1>12

\* The lists of the suites that have ended name tests.
LEMMA ListsFacts ==
  ASSUME TypeInv, TestsInv
  PROVE  /\ kern.tsList \in Seq(Seq(1..Len(tests))) /\ ts.list \in Seq(1..Len(tests))
         /\ FlattenSeq(kern.tsList) \in Seq(1..Len(tests))
         /\ FlattenSeq(Append(kern.tsList, ts.list)) = FlattenSeq(kern.tsList) \o ts.list
<1> DEFINE N == 1..Len(tests)
           lists == kern.tsList
           last == ts.list
<1>1. lists \in Seq(Seq(Nat)) /\ last \in Seq(Nat)
  BY TsFacts DEF TypeInv
<1>2. /\ \A i \in 1..Len(last) : last[i] \in N
      /\ \A l \in 1..Len(lists) : \A i \in 1..Len(lists[l]) : lists[l][i] \in N
  BY DEF TestsInv
<1> HIDE DEF N, lists, last
<1>3. \A l \in Seq(Nat) : (\A i \in 1..Len(l) : l[i] \in N) => l \in Seq(N)
  OBVIOUS
<1>4. \A l \in 1..Len(lists) : lists[l] \in Seq(Nat)
  BY <1>1, ElementOfSeq
<1>5. \A l \in 1..Len(lists) : lists[l] \in Seq(N)
  BY <1>2, <1>3, <1>4
<1>6. lists \in Seq(Seq(N))
  <2> DEFINE T == Seq(N)
             A == Seq(Nat)
  <2>1. lists \in Seq(A) /\ \A l \in 1..Len(lists) : lists[l] \in T
    BY <1>1, <1>5
  <2> HIDE DEF T, A
  <2>2. lists \in Seq(T)
    BY <2>1
  <2> QED BY <2>2 DEF T
<1>7. last \in Seq(N)
  BY <1>1, <1>2, <1>3
<1>8. FlattenSeq(lists) \in Seq(N) /\ FlattenSeq(Append(lists, last)) = FlattenSeq(lists) \o last
  BY <1>6, <1>7, FlattenAppend
<1> QED BY <1>6, <1>7, <1>8 DEF N, lists, last

\* The list of all numbers up to n, and one more.
LEMMA UpToNext ==
  ASSUME NEW n \in Nat
  PROVE  Append([t \in 1..n |-> t], n + 1) = [t \in 1..(n + 1) |-> t]
<1> DEFINE A == [t \in 1..n |-> t]
           B == [t \in 1..(n + 1) |-> t]
           C == Append(A, n + 1)
<1>1. A \in Seq(Nat) /\ Len(A) = n /\ \A t \in 1..n : A[t] = t
  OBVIOUS
<1>2. B \in Seq(Nat) /\ Len(B) = n + 1 /\ \A t \in 1..(n + 1) : B[t] = t
  OBVIOUS
<1> HIDE DEF A, B
<1>3. C \in Seq(Nat) /\ Len(C) = n + 1 /\ C[n + 1] = n + 1 /\ \A t \in 1..n : C[t] = A[t]
  BY <1>1, AppendProperties
<1>4. \A t \in 1..(n + 1) : C[t] = B[t]
  <2>1. \A t \in 1..(n + 1) : t \in 1..n \/ t = n + 1
    OBVIOUS
  <2> HIDE DEF C
  <2> QED BY <1>1, <1>2, <1>3, <2>1
<1> HIDE DEF C
<1>5. C = B
  BY <1>2, <1>3, <1>4
<1> QED BY <1>5 DEF A, B, C

LEMMA ConcatAppend ==
  ASSUME NEW S, NEW R \in Seq(S), NEW l \in Seq(S), NEW x \in S
  PROVE  R \o Append(l, x) = Append(R \o l, x)
<1> DEFINE more == Append(l, x)
           Rl == R \o l
           A == R \o more
           B == Append(Rl, x)
<1>1. /\ more \in Seq(S) /\ Len(more) = Len(l) + 1 /\ more[Len(l) + 1] = x
      /\ \A i \in 1..Len(l) : more[i] = l[i]
  BY AppendProperties
<1>2. Len(l) \in Nat /\ Len(R) \in Nat
  BY LenProperties
<1> HIDE DEF more
<1>3. /\ Rl \in Seq(S) /\ Len(Rl) = Len(R) + Len(l)
      /\ \A i \in 1..(Len(R) + Len(l)) : Rl[i] = IF i <= Len(R) THEN R[i] ELSE l[i - Len(R)]
  BY ConcatProperties
<1>4. /\ A \in Seq(S) /\ Len(A) = Len(R) + Len(more)
      /\ \A i \in 1..(Len(R) + Len(more)) : A[i] = IF i <= Len(R) THEN R[i] ELSE more[i - Len(R)]
  BY <1>1, ConcatProperties
<1> HIDE DEF Rl, A
<1>5. /\ B \in Seq(S) /\ Len(B) = Len(Rl) + 1 /\ B[Len(Rl) + 1] = x
      /\ \A i \in 1..Len(Rl) : B[i] = Rl[i]
  <2>1. Rl \in Seq(S) /\ x \in S
    BY <1>3
  <2> QED BY <2>1, AppendProperties
<1> HIDE DEF B
<1> DEFINE n == Len(R) + Len(l)
<1>6. Len(A) = n + 1 /\ Len(B) = n + 1 /\ n \in Nat
  BY <1>1, <1>2, <1>3, <1>4, <1>5
<1>7. ASSUME NEW i \in 1..(n + 1) PROVE A[i] = B[i]
  <2>1. A[i] = IF i <= Len(R) THEN R[i] ELSE more[i - Len(R)]
    BY <1>1, <1>2, <1>4
  <2>2. CASE i = n + 1
    <3>1. ~(i <= Len(R)) /\ i - Len(R) = Len(l) + 1
      BY <1>2, <2>2
    <3> QED BY <1>1, <1>3, <1>5, <2>1, <2>2, <3>1
  <2>3. CASE i # n + 1
    <3>1. i \in 1..n
      BY <1>6, <2>3
    <3>2. B[i] = IF i <= Len(R) THEN R[i] ELSE l[i - Len(R)]
      BY <1>3, <1>5, <3>1
    <3>3. ~(i <= Len(R)) => i - Len(R) \in 1..Len(l)
      BY <1>2, <3>1
    <3> QED BY <1>1, <2>1, <3>2, <3>3
  <2> QED BY <2>2, <2>3
<1>8. A = B
  <2> HIDE DEF n
  <2> QED BY <1>4, <1>5, <1>6, <1>7
<1> QED BY <1>8 DEF A, B, more, Rl

LEMMA SamePlain == ASSUME program' = program PROVE Plain' <=> Plain
BY Zenon DEF Plain, Suites, Fixtures, SkipsIn, RequiresIn

\* A step within a suite puts each test it makes into the list.
LEMMA ListsWithin ==
  ASSUME IInv, ListsInv, pc \in Inside, pc' \in Inside \cup {"ended"},
         UNCHANGED <<program, s, kern>>,
         Plain /\ pc' \in Inside =>
           \/ ts'.list = ts.list /\ Len(tests') = Len(tests)
           \/ ts'.list = Append(ts.list, Len(tests) + 1) /\ Len(tests') = Len(tests) + 1
  PROVE  ListsInv'
<1>1. /\ TypeInv /\ TestsInv /\ s <= Len(program.suites) /\ s \in Nat
      /\ Len(program.suites) \in Nat /\ Len(tests) \in Nat
  BY SuiteFacts, ProgramFacts, TsFacts DEF IInv, TypeInv
<1>2. CASE pc' = "ended"
  <2>1. ~CompletelyRun'
    BY <1>1 DEF CompletelyRun
  <2> QED BY <1>2, <2>1 DEF ListsInv
<1>3. CASE pc' # "ended"
  <2> SUFFICES ASSUME Plain' PROVE Listed' = [t \in 1..Len(tests') |-> t]
    BY DEF ListsInv
  <2>1. Plain /\ pc' \in Inside /\ pc # "ended"
    BY <1>3, SamePlain DEF Inside
  <2> DEFINE R == FlattenSeq(kern.tsList)
             n == Len(tests)
  <2>2. R \o ts.list = [t \in 1..n |-> t]
    BY <2>1 DEF ListsInv, Listed
  <2>3. Listed' = R \o ts'.list
    BY <2>1 DEF Listed
  <2>4. R \in Seq(Nat) /\ ts.list \in Seq(Nat)
    <3>1. kern.tsList \in Seq(Seq(Nat)) /\ ts.list \in Seq(Nat)
      BY <1>1, TsFacts DEF TypeInv
    <3> QED BY <3>1, FlattenAppend
  <2> HIDE DEF R
  <2>5. CASE ts'.list = ts.list /\ Len(tests') = Len(tests)
    BY <2>2, <2>3, <2>5
  <2>6. CASE ts'.list = Append(ts.list, n + 1) /\ Len(tests') = n + 1
    <3>1. n + 1 \in Nat
      BY <1>1
    <3>2. R \o Append(ts.list, n + 1) = Append(R \o ts.list, n + 1)
      <4> DEFINE list == ts.list
                 x == n + 1
      <4>1. R \in Seq(Nat) /\ list \in Seq(Nat) /\ x \in Nat
        BY <2>4, <3>1
      <4> HIDE DEF list, x
      <4>2. R \o Append(list, x) = Append(R \o list, x)
        BY <4>1, ConcatAppend
      <4> QED BY <4>2 DEF list, x
    <3>3. Append([t \in 1..n |-> t], n + 1) = [t \in 1..(n + 1) |-> t]
      BY <1>1, UpToNext
    <3> HIDE DEF n
    <3>4. Append(R \o ts.list, n + 1) = [t \in 1..(n + 1) |-> t]
      BY <2>2, <3>3
    <3> QED BY <2>3, <2>6, <3>2, <3>4
  <2> QED BY <2>1, <2>5, <2>6
<1> QED BY <1>2, <1>3

LEMMA FixtureLists ==
  ASSUME IInv, ListsInv, NEW which \in {"setup", "teardown"}, pc = which, ts.mode = which,
         Suite[which] # NoBlock, NEW endMode, NEW goesTo \in Inside,
         Fixture(which, endMode, goesTo), UNCHANGED <<program, s, kern>>
  PROVE  ListsInv'
<1>1. TypeInv /\ TestsInv /\ pc \in Inside
  BY DEF IInv, Inside
<1>2. PICK b, m : IsFixture(which, endMode, goesTo, b, m)
  BY <1>1, FixtureFacts
<1>3. pc' \in Inside \cup {"ended"}
  <2>1. pc' = IF b.broken THEN "ended" ELSE IF b.left THEN "suiteEnd" ELSE goesTo
    BY <1>2 DEF IsFixture
  <2> QED BY <2>1 DEF Inside
<1>4. Plain => ~RequiresIn(Suite[which])
  <2>1. s \in Suites /\ Suite = program.suites[s]
    BY <1>1, SuiteFacts, ProgramFacts DEF Suites, Suite
  <2>2. Suite[which] \in Fixtures
    BY <2>1 DEF Fixtures
  <2> QED BY <2>2 DEF Plain
<1>5. ASSUME Plain PROVE ts'.list = ts.list /\ Len(tests') = Len(tests)
  <2>1. /\ b.list = ts.list /\ Len(b.tests) = Len(tests) /\ tests' = b.tests
        /\ ts' = [ts EXCEPT !.list = b.list, !.mode = m]
    BY <1>2, <1>4, <1>5 DEF IsFixture
  <2>2. ts = [mode |-> ts.mode, curr |-> ts.curr, total |-> ts.total, list |-> ts.list]
    BY <1>1, Records
  <2>3. ts'.list = b.list
    BY <2>1, <2>2
  <2> QED BY <2>1, <2>3
<1> QED BY <1>1, <1>3, <1>5, ListsWithin

LEMMA AtTestLists ==
  ASSUME IInv, FlagsInv, ListsInv, NEW k, PassBy(k) \/ Filtered(k) \/ Skip(k) \/ RunTest(k)
  PROVE  ListsInv'
<1>1. /\ TypeInv /\ pc = "test" /\ pc \in Inside /\ AtTest(k)
      /\ pc' \in Inside /\ UNCHANGED <<program, s, kern>>
      /\ ts = [mode |-> ts.mode, curr |-> ts.curr, total |-> ts.total, list |-> ts.list]
  BY Records DEF IInv, PassBy, Filtered, Skip, RunTest, AtTest, Inside
<1>2. CASE PassBy(k) \/ Filtered(k)
  <2>1. tests' = tests
    BY <1>2 DEF PassBy, Filtered
  <2>2. ts'.list = ts.list
    <3>1. CASE PassBy(k)
      BY <1>1, <3>1 DEF PassBy
    <3>2. CASE Filtered(k)
      BY <1>1, <3>2 DEF Filtered
    <3> QED BY <1>2, <3>1, <3>2
  <2> QED BY <1>1, <2>1, <2>2, ListsWithin
<1>3. CASE Skip(k)
  <2>1. ~Plain
    <3>1. ASSUME Plain PROVE NoSkips(s)
      <4>1. \A j \in 1..s : j \in Suites
        BY <1>1, SuiteFacts, ProgramFacts DEF Suites
      <4> QED BY <3>1, <4>1 DEF Plain, NoSkips
    <3>2. Skipped(k)
      BY <1>3 DEF Skip
    <3> QED BY <1>1, <3>1, <3>2, NotSkipped
  <2> QED BY <1>1, <2>1, ListsWithin
<1>4. CASE RunTest(k)
  <2> DEFINE b == RunBlock(Test(k).body, Len(tests) + 1, Append(tests, NewTest))
  <2>1. b = RunBlock(Test(k).body, Len(tests) + 1, Append(tests, NewTest))
    OBVIOUS
  <2> HIDE DEF b
  <2>2. /\ b.currTest = Len(tests) + 1 /\ Len(b.tests) = Len(tests) + 1 /\ tests' = b.tests
        /\ ts' = [mode |-> "teardown", curr |-> ts.curr + 1, total |-> ts.total,
                  list |-> Append(ts.list, b.currTest)]
    BY <1>4, <2>1, RunTestFacts
  <2>3. ts'.list = Append(ts.list, b.currTest)
    BY <2>2
  <2>4. ts'.list = Append(ts.list, Len(tests) + 1) /\ Len(tests') = Len(tests) + 1
    BY <2>2, <2>3
  <2> QED BY <1>1, <2>4, ListsWithin
<1> QED BY <1>2, <1>3, <1>4

LEMMA SuiteEndLists == ASSUME IInv, ListsInv, SuiteEnd PROVE ListsInv'
<1>1. /\ TypeInv /\ TestsInv /\ pc = "suiteEnd" /\ pc \in Inside
      /\ kern' = [kern EXCEPT !.tsList = Append(@, ts.list)]
      /\ program' = program /\ tests' = tests
      /\ s <= Len(program.suites) /\ s \in Nat /\ Len(program.suites) \in Nat
  BY SuiteFacts, ProgramFacts DEF IInv, TypeInv, SuiteEnd, Inside
<1>2. CASE pc' = "ended"
  <2>1. s' = s
    BY <1>2 DEF SuiteEnd
  <2>2. ~CompletelyRun'
    BY <1>1, <2>1 DEF CompletelyRun
  <2> QED BY <1>2, <2>2 DEF ListsInv
<1>3. CASE pc' # "ended"
  <2>1. pc' = "suite"
    BY <1>3 DEF SuiteEnd
  <2>2. kern'.tsList = Append(kern.tsList, ts.list)
    <3> DEFINE list == Append(kern.tsList, ts.list)
    <3>1. /\ kern' = [kern EXCEPT !.tsList = list]
          /\ kern = [parsed |-> kern.parsed, filters |-> kern.filters, logger |-> kern.logger,
                     tsList |-> kern.tsList]
      BY <1>1 DEF TypeInv
    <3> HIDE DEF list
    <3>2. kern'.tsList = list
      BY <3>1
    <3> QED BY <3>2 DEF list
  <2>3. Listed' = Listed
    <3>1. Listed' = FlattenSeq(kern'.tsList)
      BY <2>1 DEF Listed, Inside
    <3>2. Listed = FlattenSeq(kern.tsList) \o ts.list
      BY <1>1 DEF Listed
    <3> QED BY <1>1, <2>2, <3>1, <3>2, ListsFacts
  <2> QED BY <1>1, <2>1, <2>3, SamePlain DEF ListsInv
<1> QED BY <1>2, <1>3

LEMMA NextLists == ASSUME IInv, FlagsInv, ListsInv, [Next]_vars PROVE ListsInv'
<1>1. CASE SuiteBegin
  <2>1. /\ TypeInv /\ TestsInv /\ pc = "suite" /\ program' = program /\ tests' = tests /\ s' = s
        /\ ts' = NewSuite /\ s <= Len(program.suites) /\ s \in Nat /\ Len(program.suites) \in Nat
    BY <1>1, ProgramFacts DEF IInv, TypeInv, SuiteBegin
  <2>2. CASE pc' = "ended"
    <3>1. ~CompletelyRun'
      BY <2>1 DEF CompletelyRun
    <3> QED BY <2>2, <3>1 DEF ListsInv
  <2>3. CASE pc' # "ended"
    <3>1. pc' = "top" /\ kern'.tsList = kern.tsList
      <4> DEFINE params == Parse(program.args).params
                 logger == LoggerTypes[Parse(program.args).logger]
      <4>1. /\ pc' = "top"
            /\ \/ kern' = kern
               \/ kern' = [kern EXCEPT !.parsed = TRUE, !.filters = params, !.logger = logger]
        BY <1>1, <2>3 DEF SuiteBegin
      <4>2. kern = [parsed |-> kern.parsed, filters |-> kern.filters, logger |-> kern.logger,
                    tsList |-> kern.tsList]
        BY <2>1 DEF TypeInv
      <4> HIDE DEF params, logger
      <4> QED BY <4>1, <4>2
    <3>2. FlattenSeq(kern.tsList) \o <<>> = FlattenSeq(kern.tsList)
      BY <2>1, ListsFacts
    <3>3. ts'.list = <<>>
      BY <2>1 DEF NewSuite
    <3>4. Listed' = Listed
      <4>1. Listed' = FlattenSeq(kern'.tsList) \o ts'.list
        BY <3>1 DEF Listed, Inside
      <4>2. Listed = FlattenSeq(kern.tsList)
        BY <2>1 DEF Listed, Inside
      <4> QED BY <3>1, <3>2, <3>3, <4>1, <4>2
    <3> QED BY <2>1, <3>1, <3>4, SamePlain DEF ListsInv
  <2> QED BY <2>2, <2>3
<1>2. ASSUME Top \/ Bottom PROVE ListsInv'
  <2>1. /\ pc \in Inside /\ pc' \in Inside /\ UNCHANGED <<program, s, kern, tests>>
        /\ \/ ts' = ts
           \/ \E m : ts' = [ts EXCEPT !.mode = m]
    BY <1>2 DEF Top, Bottom, Inside
  <2>2. ts'.list = ts.list
    <3>1. ts = [mode |-> ts.mode, curr |-> ts.curr, total |-> ts.total, list |-> ts.list]
      BY Records DEF IInv
    <3> QED BY <2>1, <3>1
  <2> QED BY <2>1, <2>2, ListsWithin
<1>3. ASSUME NEW goesTo \in Inside, PassFixture(goesTo), pc \in Inside, UNCHANGED <<program, s, kern>>
      PROVE  ListsInv'
  BY <1>3, ListsWithin DEF PassFixture
<1>4. CASE Setup
  <2>1. pc = "setup" /\ pc \in Inside /\ UNCHANGED <<program, s, kern>>
    BY <1>4 DEF Setup, Inside
  <2> DEFINE which == "setup"
             endMode == "test"
             goesTo == "teardown"
  <2>2. \/ PassFixture(goesTo)
        \/ Fixture(which, endMode, goesTo) /\ ts.mode = which /\ Suite[which] # NoBlock
    BY <1>4 DEF Setup
  <2>3. which \in {"setup", "teardown"} /\ goesTo \in Inside /\ pc = which
    BY <2>1 DEF Inside
  <2> HIDE DEF which, endMode, goesTo
  <2> QED BY <1>3, <2>1, <2>2, <2>3, FixtureLists
<1>5. CASE Teardown
  <2>1. pc = "teardown" /\ pc \in Inside /\ UNCHANGED <<program, s, kern>>
    BY <1>5 DEF Teardown, Inside
  <2> DEFINE which == "teardown"
             endMode == IF ts.curr < ts.total THEN "setup" ELSE "ending"
             top == "top"
             test == "test"
  <2>2. \/ PassFixture(test)
        \/ Fixture(which, endMode, top) /\ ts.mode = which /\ Suite[which] # NoBlock
    BY <1>5 DEF Teardown
  <2>3. which \in {"setup", "teardown"} /\ top \in Inside /\ test \in Inside /\ pc = which
    BY <2>1 DEF Inside
  <2> HIDE DEF which, endMode, top, test
  <2> QED BY <1>3, <2>1, <2>2, <2>3, FixtureLists
<1>6. CASE SuiteEnd
  BY <1>6, SuiteEndLists
<1>7. CASE Final
  <2>1. pc = "suite" /\ pc' = "ended" /\ UNCHANGED <<program, tests, kern>>
    BY <1>7 DEF Final
  <2>2. Listed' = Listed
    BY <2>1 DEF Listed, Inside
  <2> QED BY <2>1, <2>2, SamePlain DEF ListsInv
<1>8. ASSUME NEW k, PassBy(k) \/ Filtered(k) \/ Skip(k) \/ RunTest(k) PROVE ListsInv'
  BY <1>8, AtTestLists
<1>9. CASE UNCHANGED vars
  <2>1. program' = program /\ pc' = pc /\ s' = s /\ ts' = ts /\ tests' = tests /\ kern' = kern
    BY <1>9 DEF vars
  <2> QED BY <2>1, SamePlain DEF ListsInv, Listed, CompletelyRun
<1> QED BY <1>1, <1>2, <1>4, <1>5, <1>6, <1>7, <1>8, <1>9 DEF Next, Step, Ended

\* A step that does not end the run, or ends it in the midst of a suite.
LEMMA EndWithin ==
  ASSUME TypeInv, EndInv, pc # "ended",
         pc' = "ended" => program' = program /\ s' = s /\ s <= Len(program.suites),
         pc' = "ended" \/ told'.summary = told.summary
  PROVE  EndInv'
<1>1. s \in Nat /\ Len(program.suites) \in Nat
  BY ProgramFacts DEF TypeInv
<1>2. ~CompletelyRun'
  BY <1>1 DEF CompletelyRun
<1> QED BY <1>2 DEF EndInv

LEMMA FinalEnd == ASSUME IInv, EndInv, Final PROVE EndInv'
<1>1. /\ TypeInv /\ TestsInv /\ pc = "suite" /\ pc' = "ended"
      /\ UNCHANGED <<program, tests, kern>>
      /\ status' = ExitStatus(NumFailed(kern.tsList))
      /\ told.summary = "" /\ told.failures \in Nat
  BY DEF IInv, TypeInv, Final, EndInv
<1>2. told'.failures = told.failures /\ (told'.summary = "PASSED" => told.failures = 0)
  <2> DEFINE p == IF kern.logger # "standard" THEN told.summary
                  ELSE IF told.failures = 0 THEN "PASSED" ELSE "FAILED"
  <2>1. told = [failures |-> told.failures, verdicts |-> told.verdicts, summary |-> told.summary]
    BY <1>1, Records
  <2>2. told' = [told EXCEPT !.summary = p]
    BY <2>1 DEF Final
  <2>3. p = "PASSED" => told.failures = 0
    BY <1>1
  <2> HIDE DEF p
  <2>4. told'.failures = told.failures /\ told'.summary = p
    BY <2>1, <2>2
  <2> QED BY <2>3, <2>4
<1> DEFINE failed == NumFailed(kern.tsList)
           expected == program.expected
<1>3. told.failures = 0 => failed = 0
  <2> DEFINE all == FlattenSeq(kern.tsList)
             some == {n \in DOMAIN all : Failed(all[n])}
  <2>1. ASSUME told.failures = 0, NEW n \in DOMAIN all PROVE ~Failed(all[n])
    <3>1. all \in Seq(1..Len(tests))
      BY <1>1, ListsFacts
    <3> HIDE DEF all
    <3>2. all[n] \in 1..Len(tests)
      BY <2>1, <3>1, ElementOfSeq
    <3>3. tests \in Seq(TestType) /\ IsFailures(told.failures, tests)
      BY <1>1 DEF TypeInv, TestsInv
    <3>4. tests[all[n]].failed \in Nat /\ tests[all[n]].failed <= told.failures
      BY <3>2, <3>3, FailuresBound
    <3> QED BY <2>1, <3>4 DEF Failed
  <2>2. failed = Cardinality(some)
    BY DEF NumFailed
  <2>3. told.failures = 0 => some = {}
    BY <2>1
  <2> HIDE DEF some, failed, all
  <2> QED BY <2>2, <2>3, FS_EmptySet
<1>4. NumFailed(kern.tsList)' = failed /\ program'.expected = expected
  BY <1>1 DEF NumFailed, Failed
<1>5. /\ failed = 0 => status' = 0
      /\ status' = 0 => failed % StatusLimit = 0 \/ failed = expected
  <2>1. status' = (IF failed = expected THEN 0 ELSE failed) % StatusLimit
    BY <1>1 DEF ExitStatus
  <2>2. 0 % StatusLimit = 0
    BY StatusAssumption
  <2> HIDE DEF failed, expected
  <2> QED BY <2>1, <2>2
<1> HIDE DEF failed, expected
<1>6. Ends'
  <2>1. status' # 0 => told'.failures > 0
    <3>1. status' # 0 => told.failures # 0
      BY <1>3, <1>5
    <3>2. told.failures \in Nat /\ told'.failures = told.failures
      BY <1>1, <1>2
    <3>3. told.failures # 0 => told.failures > 0
      BY <3>2
    <3> QED BY <3>1, <3>2, <3>3
  <2>2. status' = 0 => \/ NumFailed(kern.tsList)' % StatusLimit = 0
                       \/ NumFailed(kern.tsList)' = program'.expected
    BY <1>4, <1>5
  <2>3. told'.summary = "PASSED" => status' = 0
    BY <1>2, <1>3, <1>5
  <2> QED BY <2>1, <2>2, <2>3 DEF Ends
<1> QED BY <1>1, <1>6 DEF EndInv

LEMMA NextEnd == ASSUME IInv, EndInv, [Next]_vars PROVE EndInv'
<1>1. /\ TypeInv /\ TestsInv
      /\ told = [failures |-> told.failures, verdicts |-> told.verdicts, summary |-> told.summary]
  BY DEF IInv, TypeInv
<1>2. CASE SuiteBegin
  <2>1. /\ pc # "ended" /\ program' = program /\ s' = s /\ s <= Len(program.suites)
        /\ told' = told
    BY <1>2 DEF SuiteBegin
  <2> QED BY <1>1, <2>1, EndWithin
<1>3. ASSUME Setup \/ Teardown \/ SuiteEnd PROVE EndInv'
  <2>1. pc \in Inside /\ pc # "ended" /\ program' = program
    BY <1>3 DEF Setup, Teardown, SuiteEnd, Inside
  <2>2. s <= Len(program.suites)
    BY <1>1, <2>1 DEF TypeInv
  <2>3. pc' = "ended" => s' = s
    BY <1>3 DEF Setup, Teardown, SuiteEnd
  <2>4. told'.summary = told.summary
    <3>1. \/ told' = told
          \/ \E f : told' = [told EXCEPT !.failures = f]
          \/ \E v : told' = [told EXCEPT !.verdicts = v]
      <4>1. CASE Setup \/ Teardown
        BY <4>1 DEF Setup, Teardown, Fixture, After, PassFixture
      <4>2. CASE SuiteEnd
        <5> DEFINE v == LogSuiteEnd(told.verdicts)
        <5>1. told' = told \/ told' = [told EXCEPT !.verdicts = v]
          BY <4>2, <1>1 DEF SuiteEnd
        <5> HIDE DEF v
        <5> QED BY <5>1
      <4> QED BY <1>3, <4>1, <4>2
    <3> QED BY <1>1, <3>1
  <2> QED BY <1>1, <2>1, <2>2, <2>3, <2>4, EndWithin
<1>4. ASSUME Top \/ Bottom PROVE EndInv'
  <2>1. pc # "ended" /\ pc' # "ended" /\ told' = told
    BY <1>4 DEF Top, Bottom
  <2> QED BY <1>1, <2>1, EndWithin
<1>5. ASSUME NEW k, PassBy(k) \/ Filtered(k) \/ Skip(k) \/ RunTest(k) PROVE EndInv'
  <2>1. pc = "test" /\ pc' # "ended"
    BY <1>5 DEF PassBy, Filtered, Skip, RunTest, AtTest
  <2>2. told'.summary = told.summary
    <3>1. CASE PassBy(k) \/ Filtered(k)
      BY <3>1 DEF PassBy, Filtered
    <3>2. CASE Skip(k)
      <4> DEFINE v == LogVerdict(told.verdicts, "SKIP")
      <4>1. told' = [told EXCEPT !.verdicts = v]
        BY <3>2, <1>1 DEF Skip
      <4> HIDE DEF v
      <4> QED BY <1>1, <4>1
    <3>3. CASE RunTest(k)
      <4> DEFINE b == RunBlock(Test(k).body, Len(tests) + 1, Append(tests, NewTest))
      <4>1. b = RunBlock(Test(k).body, Len(tests) + 1, Append(tests, NewTest))
        OBVIOUS
      <4> HIDE DEF b
      <4>2. told' = [failures |-> b.failures, verdicts |-> told'.verdicts, summary |-> told.summary]
        BY <3>3, <4>1, RunTestFacts
      <4> QED BY <4>2
    <3> QED BY <1>5, <3>1, <3>2, <3>3
  <2> QED BY <1>1, <2>1, <2>2, EndWithin
<1>6. CASE Final
  BY <1>6, FinalEnd
<1>7. CASE UNCHANGED vars
  <2>1. /\ program' = program /\ pc' = pc /\ s' = s /\ tests' = tests /\ kern' = kern
        /\ told' = told /\ status' = status
    BY <1>7 DEF vars
  <2>2. NumFailed(kern.tsList)' = NumFailed(kern.tsList)
    BY <2>1 DEF NumFailed, Failed
  <2> QED BY <2>1, <2>2 DEF EndInv, Ends, CompletelyRun
<1> QED BY <1>2, <1>3, <1>4, <1>5, <1>6, <1>7 DEF Next, Step, Ended

----------------------------------------------------------------------------
(* Theorems *)

\* The invariant that the others follow from: where the walk over the text of
\* a suite is, what its mode says of it, and which blocks were executed.
THEOREM Invariant == Spec => []IInv
<1>1. IInv /\ [Next]_vars => IInv'
  BY NextIInv
<1> QED BY <1>1, InitIInv, PTL DEF Spec

\* Every block is executed where it belongs, whatever the suites, the checks,
\* the conditions and the filters are (fct.h:1068-1081): a test only in the
\* setup it needs, a teardown for each setup, and no test that is switched off.
THEOREM BlocksInPlace == Spec => []InItsFixture
<1>1. IInv => InItsFixture
  <2> SUFFICES ASSUME IInv PROVE InItsFixture
    OBVIOUS
  <2>1. TypeInv /\ TestsInv /\ WalkInv /\ PlaceInv
    BY DEF IInv
  <2>2. TypeOK
    <3>1. ns.currTest \in 0..Len(tests)
      BY <2>1, TsFacts DEF TypeInv
    <3>2. DOMAIN ts.list = 1..Len(ts.list) /\ DOMAIN tests = 1..Len(tests)
      BY <2>1, TsFacts, LenProperties DEF TypeInv
    <3>3. \A i \in DOMAIN ts.list : ts.list[i] \in DOMAIN tests
      BY <2>1, <3>2 DEF TestsInv
    <3> QED BY <2>1, <3>1, <3>3, TsFacts DEF TypeOK, TypeInv, WalkInv, Inside, Modes
  <2>3. DOMAIN log = 1..Len(log)
    BY <2>1, LenProperties DEF TypeInv
  <2> DEFINE after(n) == IF n > 1 /\ log[n - 1].suite = log[n].suite
                         THEN log[n - 1].block ELSE "none"
  <2>4. ASSUME NEW n \in DOMAIN log
        PROVE  CASE log[n].block = "test" ->
                      /\ after(n) = "setup"
                      /\ ~AbortedBy(program.suites[log[n].suite].setup)
                      /\ ~Disabled(log[n].suite, log[n].test)
                 [] log[n].block = "teardown" -> after(n) \in {"setup", "test"}
                 [] log[n].block = "setup" -> after(n) \in {"none", "teardown"}
    <3>1. Placed(n) /\ log[n].block \in BlockNames
      BY <2>1, <2>3, TsFacts DEF PlaceInv, EntryType
    <3>2. BlockBefore(n) = after(n)
      BY DEF BlockBefore, Before
    <3> HIDE DEF after
    <3>3. CASE log[n].block = "test"
      BY <3>1, <3>2, <3>3 DEF Placed
    <3>4. CASE log[n].block = "teardown"
      BY <3>1, <3>2, <3>4 DEF Placed
    <3>5. CASE log[n].block = "setup"
      BY <3>1, <3>2, <3>5 DEF Placed
    <3> QED BY <3>1, <3>3, <3>4, <3>5 DEF BlockNames
  <2> QED BY <2>2, <2>4 DEF InItsFixture
<1> QED BY <1>1, Invariant, PTL

\* If nothing is skipped, each suite that has ended has run its tests once and
\* in order, each in a setup and teardown of its own, for every program: the
\* modes of fct_ts_t carry the walk through the rounds (fct_ts__test_begin,
\* fct_ts__teardown_end).
THEOREM TestsRunOnce == Spec => []EachTestOnce
<1>1. Init => FlagsInv /\ OnceInv
  <2> SUFFICES ASSUME Init PROVE FlagsInv /\ OnceInv
    OBVIOUS
  <2>1. pc = "suite" /\ s = 1 /\ ~ns.testSkip /\ ~ns.suiteSkip
    BY DEF Init
  <2> QED BY <2>1 DEF FlagsInv, OnceInv, Inside
<1>2. IInv /\ (FlagsInv /\ OnceInv) /\ [Next]_vars => (FlagsInv /\ OnceInv)'
  BY FlagsNext, NextOnce
<1>3. OnceInv => EachTestOnce
  BY DEF OnceInv, EachTestOnce, Undisturbed, NoSkips
<1> QED BY <1>1, <1>2, <1>3, Invariant, PTL DEF Spec

\* What the status and the summary of a program say of its checks is true for
\* every program and every number of expected failures (FCT_FINAL,
\* fctkern__tst_cnt_failed): no failed check is lost on the way from the blocks
\* through the tests and the lists of the suites to the process.
THEOREM NoFailureHidden == Spec => []StatusTellsFailures
<1>1. Init => FlagsInv /\ ListsInv /\ EndInv
  <2> SUFFICES ASSUME Init PROVE FlagsInv /\ ListsInv /\ EndInv
    OBVIOUS
  <2>1. /\ pc = "suite" /\ s = 1 /\ ~ns.testSkip /\ ~ns.suiteSkip /\ tests = <<>>
        /\ kern.tsList = <<>> /\ told.summary = ""
    BY DEF Init
  <2>2. FlattenSeq(<<>>) = <<>>
    BY FlattenNothing
  <2>3. <<>> = [t \in 1..0 |-> t] /\ Len(<<>>) = 0
    OBVIOUS
  <2>4. ListsInv
    BY <2>1, <2>2, <2>3 DEF ListsInv, Listed, Inside
  <2> QED BY <2>1, <2>4 DEF FlagsInv, EndInv, CompletelyRun, Inside
<1>2. IInv /\ (FlagsInv /\ ListsInv /\ EndInv) /\ [Next]_vars => (FlagsInv /\ ListsInv /\ EndInv)'
  BY FlagsNext, NextLists, NextEnd
<1>3. IInv /\ ListsInv /\ EndInv => StatusTellsFailures
  <2> SUFFICES ASSUME IInv, ListsInv, EndInv PROVE StatusTellsFailures
    OBVIOUS
  <2>1. NoFailureLost
    <3> SUFFICES ASSUME CompletelyRun, Plain PROVE told.failures = SumOfFailed(kern.tsList)
      BY DEF NoFailureLost, Plain
    <3>1. FlattenSeq(kern.tsList) = [t \in 1..Len(tests) |-> t]
      BY DEF ListsInv, Listed, CompletelyRun, Inside
    <3>2. tests \in Seq(TestType) /\ IsFailures(told.failures, tests)
      BY DEF IInv, TypeInv, TestsInv
    <3> QED BY <3>1, <3>2, SumOfAll
  <2> QED BY <2>1 DEF EndInv, Ends, StatusTellsFailures
<1> QED BY <1>1, <1>2, <1>3, Invariant, PTL DEF Spec
=============================================================================
