-------------------------------- MODULE FctRun --------------------------------
(***************************************************************************)
(* A run of a test program written with the macros of                      *)
(* src/abstraction/fct.h, such as test.cpp beside it.  The text of a suite *)
(* is walked over and over, and its mode decides which block is executed   *)
(* this time: all tests are counted first, then each walk does the setup   *)
(* and one test, or the teardown.                                          *)
(*                                                                         *)
(* A test program is [args, expected, suites]: its arguments, the failures *)
(* it expects, and suites [cond, setup, teardown, tests] of tests          *)
(* [name, cond, body].  A cond is "none" for the plain macros, else what   *)
(* the condition of the _IF macros gives.  A block is a sequence of checks *)
(* [kind, ok] of kind "chk" or "req", in the order of the text; NoBlock    *)
(* stands for a fixture without a setup or teardown.                       *)
(***************************************************************************)
EXTENDS FctCommandLine, FiniteSetsExt

CONSTANTS Programs, NoBlock, StatusLimit   \* exit keeps the status modulo it

\* EXIT_FAILURE is a status.
ASSUME StatusAssumption == StatusLimit \in Nat \ {0, 1}

ASSUME LoggersAssumption ==
  \A name \in DOMAIN LoggerTypes : LoggerTypes[name] \in {"standard", "minimal", "junit"}

CheckType == [kind : {"chk", "req"}, ok : BOOLEAN]

ASSUME ProgramsAssumption ==
  \A p \in Programs :
    /\ p.expected \in Nat
    /\ p.suites \in Seq(Range(p.suites))
    /\ \A suite \in Range(p.suites) :
         /\ {suite.setup, suite.teardown} \subseteq Seq(CheckType) \cup {NoBlock}
         /\ suite.tests \in Seq(Range(suite.tests))
         /\ \A test \in Range(suite.tests) : test.body \in Seq(CheckType)

VARIABLES program,
          pc,      \* the macro to be executed next
          s,       \* the suite it is in
          ts,      \* fct_ts_t: [mode, curr, total, list]
          ns,      \* fct_namespace_t: [testSkip, suiteSkip, testNum, currTest]
          tests,   \* every fct_test_t that was made: [passed, failed]
          kern,    \* fctkern_t: [parsed, filters, logger, tsList]
          told,    \* what the logger has recorded and printed
          log,     \* the blocks that were executed, in order (history)
          status   \* of the process, once it has ended

vars == <<program, pc, s, ts, ns, tests, kern, told, log, status>>

Suite == program.suites[s]
NewSuite == [mode |-> "cnt", curr |-> 0, total |-> 0, list |-> <<>>]
NewTest == [passed |-> 0, failed |-> 0]

Init ==
  /\ program \in Programs
  /\ pc = "suite" /\ s = 1
  /\ ts = NewSuite
  /\ ns = [testSkip |-> FALSE, suiteSkip |-> FALSE, testNum |-> 0, currTest |-> 0]
  /\ tests = <<>>
  /\ kern = [parsed |-> FALSE, filters |-> <<>>, logger |-> "none", tsList |-> <<>>]
  /\ told = [failures |-> 0, verdicts |-> <<>>, summary |-> ""]
  /\ log = <<>>
  /\ status = 0

----------------------------------------------------------------------------
(* Checks.  The state of a block under way is [mode, list, tests, currTest, *)
(* failures, left, broken]: left once a break has left it, broken once an   *)
(* assertion has failed.                                                    *)

Counted(test, ok) == IF ok THEN [test EXCEPT !.passed = @ + 1] ELSE [test EXCEPT !.failed = @ + 1]

\* The check goes to the current test, whichever that is; a failure also to
\* the list of the logger.
Check(b, ok) ==
  IF b.currTest = 0 THEN [b EXCEPT !.broken = TRUE]
  ELSE [b EXCEPT !.tests = [b.tests EXCEPT ![b.currTest] = Counted(@, ok)],
                 !.failures = IF ok THEN @ ELSE @ + 1]

\* fct_req leaves the test if it fails.  In a fixture it makes a test of its
\* own for the check and, if that fails, aborts the suite, but goes on with
\* the block; another one that fails then leaves the suite's loop.
Require(b, ok) ==
  LET mock == [b EXCEPT !.tests = Append(@, NewTest), !.currTest = Len(b.tests) + 1]
  IN CASE b.mode \notin {"setup", "teardown"} -> [Check(b, ok) EXCEPT !.left = ~ok]
       [] b.mode \in {"setup", "teardown"} /\ ok -> Check(mock, ok)
       [] b.mode \in {"setup", "teardown"} /\ ~ok ->
            [Check(mock, ok) EXCEPT !.mode = "abort", !.list = Append(@, mock.currTest)]

RunCheck(b, c) ==
  IF b.left \/ b.broken THEN b
  ELSE IF c.kind = "chk" THEN Check(b, c.ok) ELSE Require(b, c.ok)

\* A block from the state the program is in, with currTest as given.
RunBlock(block, currTest, madeTests) ==
  FoldLeft(RunCheck,
           [mode |-> ts.mode, list |-> ts.list, tests |-> madeTests, currTest |-> currTest,
            failures |-> told.failures, left |-> FALSE, broken |-> FALSE], block)

----------------------------------------------------------------------------
(* The loggers *)

Failed(t) == tests[t].failed > 0
Verdict(test) == IF test.failed > 0 THEN "FAIL" ELSE "PASS"

\* on_test_end, on_test_skip of the standard logger.
LogVerdict(t, verdict) ==
  IF kern.logger = "standard" THEN Append(t, verdict) ELSE t

\* on_test_suite_end: junit prints the tests in the list of the suite.
LogSuiteEnd(t) ==
  IF kern.logger = "junit"
  THEN t \o [i \in DOMAIN ts.list |-> Verdict(tests[ts.list[i]])]
  ELSE t

----------------------------------------------------------------------------
(* The macros *)

EXIT_FAILURE == 1

Executed(i, block, k) == [suite |-> i, block |-> block, test |-> k]

\* A block was executed: its effects, and where the program goes unless the
\* block broke off.
After(b, goesTo) ==
  /\ tests' = b.tests /\ told' = [told EXCEPT !.failures = b.failures]
  /\ pc' = IF b.broken THEN "ended" ELSE goesTo
  /\ status' = IF b.broken THEN EXIT_FAILURE ELSE status

\* FCT_FIXTURE_SUITE_BGN; the first one parses the command line.
SuiteBegin ==
  /\ pc = "suite" /\ s <= Len(program.suites)
  /\ ts' = NewSuite
  /\ ns' = [ns EXCEPT !.suiteSkip = IF Suite.cond = "none" THEN @ ELSE Suite.cond = "no"]
  /\ LET p == Parse(program.args)
         ends == CommandLineStatus(p)
     IN IF kern.parsed \/ ends = "go"
        THEN /\ pc' = "top" /\ UNCHANGED status
             /\ kern' = IF kern.parsed THEN kern
                        ELSE [kern EXCEPT !.parsed = TRUE, !.filters = p.params,
                                          !.logger = LoggerTypes[p.logger]]
        ELSE /\ pc' = "ended" /\ UNCHANGED kern
             /\ status' = IF ends = "success" THEN 0 ELSE EXIT_FAILURE
  /\ UNCHANGED <<program, s, tests, told, log>>

\* The head of the loop round the text of the suite.
Top ==
  /\ pc = "top"
  /\ ns' = [ns EXCEPT !.testNum = 0]
  /\ IF ts.mode \in {"ending", "abort"}
     THEN ts' = [ts EXCEPT !.mode = "end"] /\ pc' = "suiteEnd"
     ELSE pc' = "setup" /\ UNCHANGED ts
  /\ UNCHANGED <<program, s, tests, kern, told, log, status>>

\* Seeded bug: the end of the block forgets that the suite was to be aborted.
Fixture_EndsAborts(which, endMode, goesTo) ==
  LET b == RunBlock(Suite[which], ns.currTest, tests)
  IN /\ After(b, IF b.left THEN "suiteEnd" ELSE goesTo)
     /\ ns' = [ns EXCEPT !.currTest = b.currTest]
     /\ ts' = [ts EXCEPT !.list = b.list, !.mode = endMode]
     /\ log' = Append(log, Executed(s, which, 0))

\* The block of the setup or teardown and its end.
Fixture(which, endMode, goesTo) ==
  LET b == RunBlock(Suite[which], ns.currTest, tests)
  IN /\ After(b, IF b.left THEN "suiteEnd" ELSE goesTo)
     /\ ns' = [ns EXCEPT !.currTest = b.currTest]
     /\ ts' = [ts EXCEPT !.list = b.list, !.mode = IF b.mode = "abort" THEN b.mode ELSE endMode]
     /\ log' = Append(log, Executed(s, which, 0))

PassFixture(goesTo) == pc' = goesTo /\ UNCHANGED <<ts, ns, tests, told, log, status>>

\* FCT_SETUP_BGN, FCT_SETUP_END.
Setup ==
  /\ pc = "setup"
  /\ IF ts.mode = "setup" /\ Suite.setup # NoBlock
     THEN Fixture("setup", "test", "teardown")
     ELSE PassFixture("teardown")
  /\ UNCHANGED <<program, s, kern>>

\* Seeded bug: the last test is taken for done before it was begun.
Teardown_OneShort ==
  /\ pc = "teardown"
  /\ IF ts.mode = "teardown" /\ Suite.teardown # NoBlock
     THEN Fixture("teardown", IF ts.curr + 1 < ts.total THEN "setup" ELSE "ending", "top")
     ELSE PassFixture("test")
  /\ UNCHANGED <<program, s, kern>>

\* FCT_TEARDOWN_BGN, FCT_TEARDOWN_END.
Teardown ==
  /\ pc = "teardown"
  /\ IF ts.mode = "teardown" /\ Suite.teardown # NoBlock
     THEN Fixture("teardown", IF ts.curr < ts.total THEN "setup" ELSE "ending", "top")
     ELSE PassFixture("test")
  /\ UNCHANGED <<program, s, kern>>

----------------------------------------------------------------------------
(* FCT_TEST_BGN and FCT_TEST_END round the test k of the text *)

AtTest(k) == pc = "test" /\ k = ns.testNum + 1 /\ k <= Len(Suite.tests)
Test(k) == Suite.tests[k]

\* FCT_TEST_BGN_IF sets the flag; FCT_TEST_END_IF resets it if it is reached.
FlagAt(k) == IF Test(k).cond = "none" THEN ns.testSkip ELSE Test(k).cond = "no"
FlagPast(k) == Test(k).cond = "none" /\ ns.testSkip
Skipped(k) == ns.suiteSkip \/ FlagAt(k)

IsTurnOf(k) == ts.mode = "test" /\ ts.curr = k - 1

\* The test is counted, or it is not its turn.
PassBy(k) ==
  /\ AtTest(k) /\ ~IsTurnOf(k)
  /\ ts' = IF ts.mode = "cnt" THEN [ts EXCEPT !.total = @ + 1] ELSE ts
  /\ ns' = [ns EXCEPT !.testNum = k, !.testSkip = FlagPast(k)]
  /\ UNCHANGED <<program, pc, s, tests, kern, told, log, status>>

\* The continue of the suite's loop leaves the flag of an _IF test as it is.
Filtered(k) ==
  /\ AtTest(k) /\ IsTurnOf(k) /\ ~PassFilter(kern.filters, Test(k).name)
  /\ ts' = [ts EXCEPT !.curr = @ + 1, !.mode = "teardown"]
  /\ ns' = [ns EXCEPT !.testNum = k, !.testSkip = FlagAt(k)]
  /\ pc' = "top"
  /\ UNCHANGED <<program, s, tests, kern, told, log, status>>

\* A skipped test begins twice, so the one after it loses its turn; its
\* fct_test_t gets into no list.
Skip(k) ==
  /\ AtTest(k) /\ IsTurnOf(k) /\ PassFilter(kern.filters, Test(k).name) /\ Skipped(k)
  /\ ts' = [ts EXCEPT !.curr = @ + 2, !.mode = "teardown"]
  /\ tests' = Append(tests, NewTest)
  /\ ns' = [ns EXCEPT !.testNum = k, !.testSkip = FlagAt(k), !.currTest = Len(tests) + 1]
  /\ told' = [told EXCEPT !.verdicts = LogVerdict(@, "SKIP")]
  /\ pc' = "top"
  /\ UNCHANGED <<program, s, kern, log, status>>

RunTest(k) ==
  /\ AtTest(k) /\ IsTurnOf(k) /\ PassFilter(kern.filters, Test(k).name) /\ ~Skipped(k)
  /\ LET b == RunBlock(Test(k).body, Len(tests) + 1, Append(tests, NewTest))
     IN /\ tests' = b.tests
        /\ told' = [told EXCEPT !.failures = b.failures,
                                 !.verdicts = LogVerdict(@, Verdict(b.tests[b.currTest]))]
        /\ ts' = [ts EXCEPT !.curr = @ + 1, !.mode = "teardown",
                            !.list = Append(@, b.currTest)]
        /\ ns' = [ns EXCEPT !.testNum = k, !.testSkip = FlagAt(k), !.currTest = b.currTest]
  /\ log' = Append(log, Executed(s, "test", k))
  /\ pc' = "top"
  /\ UNCHANGED <<program, s, kern, status>>

\* Seeded bug: an empty suite gets a setup.
Bottom_NoTests ==
  /\ pc = "test" /\ ns.testNum = Len(Suite.tests)
  /\ ts' = IF ts.mode = "cnt" THEN [ts EXCEPT !.mode = "setup"] ELSE ts
  /\ pc' = "top"
  /\ UNCHANGED <<program, s, ns, tests, kern, told, log, status>>

\* The end of the text: the tests are counted now.
Bottom ==
  /\ pc = "test" /\ ns.testNum = Len(Suite.tests)
  /\ ts' = IF ts.mode = "cnt"
           THEN [ts EXCEPT !.mode = IF ts.total = 0 THEN "ending" ELSE "setup"] ELSE ts
  /\ pc' = "top"
  /\ UNCHANGED <<program, s, ns, tests, kern, told, log, status>>

\* FCT_FIXTURE_SUITE_END.  The junit logger counts the tests of the suite,
\* which asserts that it has ended.
SuiteEnd ==
  /\ pc = "suiteEnd"
  /\ kern' = [kern EXCEPT !.tsList = Append(@, ts.list)]
  /\ IF kern.logger = "junit" /\ ts.mode # "end"
     THEN pc' = "ended" /\ status' = EXIT_FAILURE /\ UNCHANGED <<s, ns, told>>
     ELSE /\ pc' = "suite" /\ s' = s + 1
          /\ told' = [told EXCEPT !.verdicts = LogSuiteEnd(@)]
          /\ ns' = [ns EXCEPT !.suiteSkip = Suite.cond = "none" /\ @]
          /\ UNCHANGED status
  /\ UNCHANGED <<program, ts, tests, log>>

\* fctkern__tst_cnt_failed.
NumFailed(lists) == LET all == FlattenSeq(lists)
                    IN Cardinality({n \in DOMAIN all : Failed(all[n])})

\* Seeded bug: fewer failures than expected are none.
ExitStatus_AtMost(failed) == (IF failed <= program.expected THEN 0 ELSE failed) % StatusLimit

ExitStatus(failed) == (IF failed = program.expected THEN 0 ELSE failed) % StatusLimit

\* FCT_END, FCT_FINAL.
Final ==
  /\ pc = "suite" /\ s > Len(program.suites)
  /\ told' = [told EXCEPT !.summary = IF kern.logger # "standard" THEN @
                                        ELSE IF told.failures = 0 THEN "PASSED" ELSE "FAILED"]
  /\ status' = ExitStatus(NumFailed(kern.tsList))
  /\ pc' = "ended"
  /\ UNCHANGED <<program, s, ts, ns, tests, kern, log>>

Ended == pc = "ended" /\ UNCHANGED vars

Step == \/ SuiteBegin \/ Top \/ Setup \/ Teardown \/ Bottom \/ SuiteEnd \/ Final
        \/ \E k \in {ns.testNum + 1} : PassBy(k) \/ Filtered(k) \/ Skip(k) \/ RunTest(k)

Next == Step \/ Ended

Spec == Init /\ [][Next]_vars /\ WF_vars(Step)

----------------------------------------------------------------------------
(* Properties *)

Suites == DOMAIN program.suites
Fixtures == {program.suites[i].setup : i \in Suites} \cup {program.suites[i].teardown : i \in Suites}
WholeFixtures == NoBlock \notin Fixtures
SkipsIn(i) ==
  program.suites[i].cond = "no" \/ \E k \in DOMAIN program.suites[i].tests :
                                      program.suites[i].tests[k].cond = "no"
CompletelyRun == pc = "ended" /\ s > Len(program.suites)

\* Every variable has its type; a setup is only made for a test to come.
TypeOK ==
  /\ pc \in {"suite", "top", "setup", "teardown", "test", "suiteEnd", "ended"}
  /\ ts.mode \in {"cnt", "setup", "test", "teardown", "ending", "end", "abort"}
  /\ s \in 1..(Len(program.suites) + 1) /\ ns.currTest \in 0..Len(tests)
  /\ ts.mode \in {"setup", "test"} => ts.curr < ts.total
  /\ \A i \in DOMAIN ts.list : ts.list[i] \in DOMAIN tests
  /\ kern.logger \in {"none", "standard", "minimal", "junit"} /\ status \in 0..(StatusLimit - 1)

\* A condition of the test, or of its suite, does not hold.
Disabled(i, k) == program.suites[i].cond = "no" \/ program.suites[i].tests[k].cond = "no"

AbortedBy(block) == block # NoBlock /\ \E n \in DOMAIN block : block[n].kind = "req" /\ ~block[n].ok

(* Every block is executed where it belongs, whatever is skipped, filtered *)
(* or aborted: a test right after the setup of its own suite, and not if a  *)
(* fct_req of the setup failed; a teardown after the test or, if that did  *)
(* not run, the setup; and a setup only when nothing of the suite is still *)
(* to be torn down (fct.h:1068-1081).  A test whose condition, or whose    *)
(* suite's, does not hold never runs, though the flags outlive the tests   *)
(* and suites that set them.                                               *)
InItsFixture ==
  TypeOK /\ \A n \in DOMAIN log :
    LET after == IF n > 1 /\ log[n - 1].suite = log[n].suite THEN log[n - 1].block ELSE "none"
    IN CASE log[n].block = "test" -> after = "setup" /\ ~AbortedBy(program.suites[log[n].suite].setup)
                                    /\ ~Disabled(log[n].suite, log[n].test)
         [] log[n].block = "teardown" -> after \in {"setup", "test"}
         [] log[n].block = "setup" -> after \in {"none", "teardown"}

\* What suite i does for its test k: a test that does not pass the filters is
\* left out.
Round(i, k) ==
  IF PassFilter(kern.filters, program.suites[i].tests[k].name)
  THEN <<Executed(i, "setup", 0), Executed(i, "test", k), Executed(i, "teardown", 0)>>
  ELSE <<Executed(i, "setup", 0), Executed(i, "teardown", 0)>>

Rounds(i) == FlattenSeq([k \in DOMAIN program.suites[i].tests |-> Round(i, k)])

\* The blocks that suite i has executed.
BlocksOf(i) == FlattenSeq([n \in DOMAIN log |-> IF log[n].suite = i THEN <<log[n]>> ELSE <<>>])

(* If nothing is skipped, a suite that has ended has run every test that   *)
(* passes the filters exactly once, in the order of the text, each in a    *)
(* setup and teardown of its own; only a failed fct_req in a fixture stops *)
(* it (FCT_TEST_BGN, fct_ts__test_begin, fct_ts__teardown_end).            *)
EachTestOnce ==
  pc = "suite" =>
    \A i \in 1..(s - 1) :
      /\ ~AbortedBy(program.suites[i].setup) /\ ~AbortedBy(program.suites[i].teardown)
      /\ \A j \in 1..i : ~SkipsIn(j)
      => BlocksOf(i) = Rounds(i)

RequiresIn(block) == block # NoBlock /\ \E n \in DOMAIN block : block[n].kind = "req"
SumOfFailed(lists) == FoldLeft(LAMBDA sum, t : sum + tests[t].failed, 0, FlattenSeq(lists))

\* Every failed check the logger was told of is counted for some test of the
\* lists, also one of a fixture, which goes to the test before - unless that
\* test was skipped, or a fct_req of a fixture made another.
NoFailureLost ==
  CompletelyRun /\ (\A i \in Suites : ~SkipsIn(i)) /\ (\A b \in Fixtures : ~RequiresIn(b))
    => told.failures = SumOfFailed(kern.tsList)

(* No failed check is lost on its way to the status of the process, but    *)
(* for those of fixtures that meet skipped tests or make tests of their    *)
(* own: a status other than 0 means that a check has failed, and one of 0  *)
(* that no test of the lists has, as many as expected, or a multiple of    *)
(* what a status can hold; a summary that says PASSED goes with 0.         *)
StatusTellsFailures ==
  /\ NoFailureLost
  /\ CompletelyRun =>
       /\ status # 0 => told.failures > 0
       /\ status = 0 => \/ NumFailed(kern.tsList) % StatusLimit = 0
                        \/ NumFailed(kern.tsList) = program.expected
       /\ told.summary = "PASSED" => status = 0

(* The walks over the text come to an end, however the tests come out, if  *)
(* every suite has a setup and a teardown: a mode whose block is missing   *)
(* is never left.                                                          *)
RunEnds == WholeFixtures ~> pc = "ended"
=============================================================================
