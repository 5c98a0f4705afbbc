# Verification of the visitor profile storage test harness

TLA+ models, model-checking configurations and machine-checked proofs for
`elevator`, the program that replays recorded web hits against a store of
visitor profiles ("visitor cookies") to measure how fast the store is.
Line numbers are those of the files in `src/`; TH stands for
`src/testharness.cpp`, VC for `src/abstraction/vcookie.h`, VS for
`src/abstraction/vcookiestore.cpp`, CB for `src/VCCouchbaseStore.cc`, IM for
`src/VCStoreInMemory.h` (of which `src/abstraction/VCStoreInMemory.h` is a
copy), FCT for `src/abstraction/fct.h`.

## 1. The system

`main` reads options, opens one replay source and starts `threads` workers.
Each worker has its own store object (for Couchbase: its own connection to one
common bucket). In a loop of at most `requests` rounds it takes a hit from the
source, waits until the hit is due, constructs a `VCookie` (which loads the
record of the visitor), changes it, stores it and lets it go out of scope. It
times the load and the store, and at its end adds its numbers to the totals of
the process, which `main` prints after joining all workers.

| part | state | operations | interacts by | hard behaviour |
|---|---|---|---|---|
| replay source, `dwfileHitSource` (TH 468-641) | file list and position, one `ifstream`, `fileReadMutex` | `openNextFile`, `NextHit` | called by all workers; lock | `eof()` read after the unlock, recursion, missing and damaged files, uncaught exceptions |
| worker loop (TH 759-849) | loop counter, the current hit, a cookie | one round per hit | calls source, rate control, cookie, store | read-modify-write of a shared record, ignored results |
| cookie, `VCookie` (VC) | traffic, purchase and relation fields, `modified` flags | constructor, setters, `SetPurchaseId`, `Store`, destructor | calls its store | failure paths of `Store`, retry in the destructor |
| relation variables of a cookie (VC 168-358, 364-399) | slots, an index sorted by relation id, flags | `SetVar`, `AddLinearElement`, `ClearVar`, look-ups, enumerations | called by the worker and by (de)serialization | look-up of ids that are not there, handles across insertions, limits |
| serialization (VS) | none | `Serialize`, `Deserialize` | called by stores | truncated or newer buffers, optional fields, getters that return another field |
| Couchbase store (CB) | a connection, callbacks | load, save, delete; bulk load and save | the cluster, callbacks | time-outs, late writes, errors taken for absence, dangling data in the bulk path |
| in-memory store (IM, twice the same file) | a map from visitor ids | load, save, delete, purge, count, get by index | called by cookies | a comparison that is no order; an endless walk |
| no-op store | none | constants | - | - |
| rate control (TH 115-222) | event count, clocks | `IncrementAndWait` | clock, sleep | truncation, sentinel 0, order of hits |
| rate monitor and timers (TH 226-428), aggregation (TH 849-905, 985-1010) | lists of per-second numbers | start, stop, increment, tally; sum under `consoleMutex`, averages | clock; shared totals | uninitialized clock, tally on every read, lists of different length |
| start-up (TH 655-753, 910-1018) | options, the threads | `Configure`, create, join | starts the workers | errors of `Configure` ignored; a thread that cannot be created ends the process |
| unit-test framework (FCT) | the suite under way and its mode, flags, the tests made, the logger | macros for suites, fixtures, tests and checks; command line | includes the tests as the body of nested loops | one text walked many times, `break` and `continue` across macros, flags that outlive what set them |
| scripts | - | - | - | offsets ignored by `aggregateResults.pl` |

What makes each part correct: the source gives every recorded hit to exactly
one worker, each worker sees the recording in order, and all workers finish; a
record is what its hits make of it and no hit is lost without a reason that can
be named; the relation variables behave like a map; a search finds the right
place; a load gives back what a save wrote, and what is not whole is rejected;
the in-memory store is a map, and no store gives one visitor the profile of
another; the totals are the sums of what the workers measured, whatever order
they end in, and pacing lets no worker run ahead; every test runs once and no
failure is lost on its way to the exit status.
The list `hazards` of `PROJECT.json` names the places where these can go wrong.

## 2. Modules

| module | models | how |
|---|---|---|
| `HitQueue` | what a shared source promises: recorded hits leave in order, one at a time, each to one worker | abstract specification |
| `HitSource` | `dwfileHitSource` and the hit loop around it | one action per segment between lock operations: `Enter` (lock, step to the next file), `ReadLine` (getline, unlock), `RunOut`, `CheckEof`, `Skip`, `Deliver`, `Abort` (an exception nobody catches), `Finish` |
| `HitSource_proofs` | theorems about `HitSource` | |
| `RelMap` | what relation variables mean: lists of values per id | abstract specification |
| `RelVars` | slots, index and flags of VC; one action per method | loads happen in phase "loading", the program's calls in phase "live" |
| `RelVarSearch` | `FindRelationPos`, one loop iteration per step | |
| `RelVars_proofs` | theorems about `RelVars` and `RelVarSearch` | |
| `ProfileLog` | what replaying promises if nothing goes wrong: every hit is recorded, in order, in the record of its key | abstract specification |
| `ProfileUpdate` | worker loop, life of a cookie, load and save of the Couchbase store with their failures | `Take`, `Construct`/`ConstructUnread`, `Update`, `Store`, `Destroy`, `Stop`; `LateWrite` and `FatalError` for the environment |
| `ProfileUpdate_proofs` | theorems about `ProfileUpdate` | |
| `VisitorStore` | what the store interface promises: one record per visitor until it is deleted or purged | abstract specification |
| `Serialization` | `Serialize`, `Deserialize`, `operator==`, and the getters and `Reset` they use | operators; `Deserialize` is a pipeline of reads, one per field, id or variable |
| `RecordLife` | a record from its writer to a cookie: written by this version or a later one, cut anywhere, read, read again, compared, given the evars of a hit | `Write`, `WriteLater`, `Cut`, `Load`, `Hit` |
| `RecordLife_proofs` | theorems about `RecordLife` and lemmas about the operators of `Serialization` | |
| `InMemoryStore` | `VCStoreInMemory` and a cookie that lives on it, and the bulk defaults of the interface | one action per operation, on a tree searched with the comparison of the code |
| `CouchbaseBulk` | the bulk operations of `VCCouchbaseStore` next to its single ones | a bulk call is `Begin...`, responses in any order, `End...` |
| `Stores_proofs` | theorems about `CouchbaseBulk` and `InMemoryStore` | |
| `Clocks` | `rateControl`, `rateMonitor`, `hiResTimer` | each method an operator from an object and the time to an object |
| `Harness` | `Configure`, `main`, and the worker loop as far as it measures and paces | composes the operators of `Clocks` with threads, the mutex of the console and a clock |
| `Harness_proofs` | theorems about `Harness` and lemmas about the operators of `Clocks` | |
| `FctCommandLine` | the command line of the tests, filters, choice of the logger | operators |
| `FctRun` | a test program: suites, fixtures, tests, checks, loggers, exit status | one action per macro, as the loops of the macros reach it |
| `FctRun_proofs` | theorems about `FctRun` | |
| `FoldLemmas` | lemmas about folds, maxima and concatenations of lists, used by the proofs | |
| `MC*` | small instances for TLC | |

Modules fit together at these seams: `HitSource.Deliver` is the step in which
`ProfileUpdate.Take` and `Harness.NextHit` get their hit; `ProfileUpdate` keeps
the traffic and purchase fields of a cookie and leaves the relation variables
to `RelVars` and `RecordLife.Hit`; `Serialization` uses the map `RelMap`, which
`RelVars` is shown to implement, for the variables of a cookie;
`InMemoryStore` and `CouchbaseBulk` save and load with the operators of
`Serialization`; `RelVars.FindRelationPos` is what the loop of `RelVarSearch`
computes (theorem `SearchIsFindRelationPos`).

Abstractions. A line of a replay file is a kind (a hit, blank, too few fields, a
field that does not convert); a stream is its bits, its file and its position.
The unlocked `eof()` is a race: the model lets it see either value while another
thread holds the lock. A value of a relation variable stands for value,
timestamp and revision. In `ProfileUpdate` the first-hit fields of a cookie are
one field, and so are the last-hit fields. The calls of the Couchbase library
and the bucket are outside the code and are modelled from how it uses them: a
load may fail with another error than "no such key"; a save may be done,
refused, time out and be applied later or never, or be cut short by an
exception; a fatal error of the connection ends the process.

A serialized record is a sequence of items; a cut inside an item reads like one
before it, because every read of an item checks the end of the buffer. Zero
stands for the values that `AddField` leaves out. A `std::map` whose comparison
is no order depends on how its tree is searched: `InMemoryStore` has trees of up
to three nodes, in the shape in which libstdc++ balances them, and
its searches go left and right as the comparison says. A timespec is one number
of ticks. In `Harness` one timer stands for the two of a worker, which are used
alike; what the worker does with its cookie is left out. The memory in which a
`hiResTimer` is made may hold any time where `clockPrev` is, gone by or still to
come, because its constructor leaves that field alone (TH 339-358). The
controller and the monitor of a worker each read the clock (TH 783), and a
worker may be preempted in between: `BeginControl` and `BeginMonitor` are two
actions. Neighbouring clock readings that nothing compares stay in one action
(the count of a hit in the monitor and its first-hit time in the controller;
the last look of the waiting loop and the start of the read). In
`CouchbaseBulk` the keys a bulk load
hands to `lcb_get` point into strings that are gone: each may be read as it
was, as the last one, or as garbage. That a bulk save gives `lcb_store` the
address of a `retval` which is out of scope when the response comes (CB
279-282) is left out: what the write would damage depends on the stack. In `FctRun` a block is the sequence of its
checks with their outcomes, and names are sequences of letters only where the
filters compare them.

`ProfileUpdate` has history variables the program does not have: `log` in a
cookie (the hits that went into it), `faulty` (hits during which the store
failed) and `overlap` (pairs of hits of one key of which one was loaded while
the other had a change not saved yet). They appear in no guard except the
bound on failures. `CouchbaseBulk` has `reports` (the callbacks of a bulk load),
`before` (the contents of the cookies when it began), `dangling`, `misread` and
`refused`; `Harness` has `longest` (the longest read) and `late` (how much later
than its controller the monitor of a worker was started).

Operators whose comment begins "Seeded bug" are not used by any specification.
Each is a plausible mistake in the code; put in place of the right definition
it makes a property fail, which shows that the property depends on that code.

## 3. What is checked

| run | instance | shows |
|---|---|---|
| `hitsource` | 2 threads, up to 4 requests each, every list of up to 3 files of 7 shapes | hits have one owner, order per thread, cost of a missing file, refinement of `HitQueue`; all workers stop and readable lists are replayed completely |
| `relvar_search` | every ascending index over ids 1..8, every id | the search ends at the place of the id |
| `relvars` | 3 ids, 2 values, limits 0 to 2, at most 2 elements | sorted and complete index, complete enumerations, stable handles, refinement of `RelMap` call by call, only clearing leaves the cookie unmarked |
| `replay_contended` | 2 workers, every replay of 3 hits of 5 forms and two of 4, at most 2 hits that meet a failing store, lists of 2 purchase ids | records are what their hits make of them, also after retries and late writes; every lost hit has one of four causes |
| `replay_alone` | 1 worker, no failures, every replay of up to 5 hits of 5 forms | refinement of `ProfileLog` |
| `replay_two_visitors` | 1 worker, 2 visitors of one suite | they share a record: contradicts `vcookiestore.h` 81-82 |
| `record_life` | all fields, 6 sets of them filled, lists of 0, 1 and 3 purchase ids, 3 relation ids and the end marker with 0 to 2 elements, every cut, every hit over 3 evars | the round trip, what equality sees, rejection and what it leaves, loading twice, the effect of a hit on the variables |
| `in_memory` | 5 sets of 3 visitors, 2 of them ordered by the comparison and 3 not, 2 times, every order of calls | visitors are not mixed up; loads and saves leave the records of other visitors alone, and where ids are ordered deletions do too, and each call does what `VisitorStore` says |
| `in_memory_lost` | the 3 unordered sets | a saved cookie is not found: contradicts IM 17-18 |
| `bulk` | batches of 2 and 3 cookies, with and without two of one visitor, 3 buckets with missing, cut and newer records, 2 calls besides making the cookies | responses meet their own callbacks, no mix-up whatever the dangling keys give, the callback comes once for each request and tells of every cookie that was changed, what is reported was loaded, the last cookie is saved |
| `measure` | 1 or 2 workers, up to 4 hits, 5 rates and 3 replay rates; the timers' memory holds 0, a second gone by, a time soon to come or one far ahead | no event escapes its second, pacing, totals are sums, averages are bounded by what was measured; `main` ends, or a worker is held in the loop of TH 874 |
| `fct` | programs of 2 suites of up to 3 tests: 7 forms of each fixture, 3 conditions of each suite and test, 12 command lines, 3 loggers, 0 to 2 failures expected | tests run once, in their fixtures, disabled ones never; failures reach the status; the walks end |

Where no run names the type invariant of a module, one of its invariants begins
with it: `WalksComplete`, `RecordsFollowTheirHits`, `RoundTrip`, `NoMixUpInMemory`,
`HandlersFit`, `TotalsAreSums`, `InItsFixture`. Those of `RelVarSearch` and of
`RelVars` are part of the invariants proved in `RelVars_proofs`.

Why the bounds are enough. Three files allow a damaged file to be first,
between and last, and the interactions of the source are between two
neighbouring files. Two threads give every race on the lock and the unlocked
test; the theorems of section 4 remove the bound on threads, requests and
files. Three relation ids give ids below, between and above those that are
set, and limits up to 2 with up to 2 elements reach "full", "over the limit
after it was lowered" and "no limit". Two saved purchase ids (5 in the code)
are enough for an id to move, to be evicted and to come back. A lost update
needs two workers and two hits; a third hit shows what follows it. At most two
hits meeting failures let a failure hit a record that another failure already
damaged; each call of the store can fail within them. For a record, fields are
independent of each other but for their order, so that a few sets of filled
fields show a field taken for another; variables meet in pairs. Three visitors
are the fewest for which a pair can be ordered while the third is not, and the
fewest that give the tree a root with two sides. Two calls in `bulk` are the
fewest in which a single call follows a bulk one, or a bulk save a bulk load;
the third cookie of a batch gives one response between two others. In `measure`
a second has four ticks and a unit of `usleep` two, so that divisions lose a
remainder at every step at which they can; runs are long enough for a second
without hits and for one that is closed late, and one time in a timer's memory
comes while the worker reports and another does not come at all. Three tests in a suite give the
test after one that was skipped, and two suites show what outlives a suite.

Bounds named in the modules: `Requests`, `MaxFiles`, `MaxElements`, `MaxId`,
`MaxFaulty`; `MaxRecords` (nodes of the tree), `MaxCalls` (calls on the bulk
store), `MaxList` (entries a timer may have before the clock has to move on),
`Horizon` (the latest time to come in a timer's memory that the clock is let
run to; with a later one the loop of TH 874 goes on as the stuttering step `GoOn`)
and `idle` of a scenario (how far time passes with nobody waiting for it);
`StatusLimit` is 3 in the instance and 256 in the system. `RecordLife` fills a
cookie at most twice and gives a hit to a cookie that was filled once.
`Deserialize` reads as many variables as the buffer has items, which is more
than can be there.

Fairness. `HitSource!FairSpec` assumes weak fairness of each thread's steps:
the kernel runs every runnable thread, and a thread waiting for the mutex is
only required to get it when the mutex stays free. `RelVarSearch!FairSearchSpec`
assumes that a loop that can go on goes on. `Harness!Fairness` assumes weak
fairness of `Configure`, `Create` and `Join` (`main` runs), of the steps of
each worker, and of `Tick`: the clock goes on while a thread waits for it. A
worker may take steps while the clock stands, so that any number of its steps
falls into a tick. `FctRun!Spec` assumes weak fairness of `Step`: it is one
thread in a loop. The other modules make no liveness claim.

Deadlock is checked in all runs; a `Terminated`, `Done` or `Ended` disjunct
marks the states in which the program really is over.

### Where the code and its comments disagree

Two runs end in a violation on purpose; the findings in `PROJECT.json` quote
the comment each one contradicts. The following was met while modelling and is
described here; where a property depends on it, its comment says so.

Replay. A worker that steps onto a file that cannot be opened is told that there
are no hits left, though a later file has some (TH 572: "should be good now, if
there is any data left at all"); `OneWorkerLostPerMissingFile` bounds the
damage. `Store` clears the `modified` flags also when the save was refused (VC
74-76: "save it ... and mark it unmodified"); `EachLossHasACause` has it as one
of its causes. The time of the last purchase that is saved is that of the last
hit (VC 162). A worker means to set an evar "if different from the cookie value"
(TH 830), but it uses `ALLOC_TYPE_FIRST`, which keeps a value that is there; a
record without variables never gets one; and an evar that the hit does not have
clears the next variable above it (`EvarsOfAHit`).

Variables. `Store` and the constructor never reset the `modified` flags of the
single variables (VC 60, 77), so `GetFirstModifiedVar` goes on listing
variables that are stored. `ClearVar` does not mark the cookie (VC 180),
although the comment at VC 297 counts cleared variables as modified. The count
of a relation that is not set (VC 253) is that of the next greater one.

Stores. `VCCouchbaseStore::SaveVCookies` never calls the callback it is given,
though `vcookiestore.h` 15-21 says it is called for each cookie.
`LoadVCookies` promises "a callback function to call for each cookie to track
the status of each individual cookie" (`vcookiestore.h` 37-39), but the cookie
of a response is found by its key (CB 181-201): of two cookies of one visitor
the earlier one is neither loaded nor told of, and the later one is told of once
for each response with the key. `ReportsTellTheLoad` states what is left of the
promise. A cookie that
is loaded in bulk was loaded by its constructor before, and a variable with
elements [x, y] becomes [y, x, y]; as the load leaves the cookie modified, the
destructor saves that. `VCStoreInMemory::GetVCookie` does not return for an
index above 0 (IM 113); `GetVCookieFurther` is that call. Its `operator<` (IM
37) compares the three parts of an id as alternatives, so each of two ids can be
less than the other, and of three each less than the next. A cookie that was
saved is then not found (`SavedIsFound`), is saved a second time, or is deleted
with that of another visitor, because `map::erase(vid)` (IM 81) takes everything
between the places the two searches of `equal_range` end at: with 1/1/3 to the
left of 1/1/2, where nodes of 1/1/1 and 1/2/1 that are gone can have put it,
deleting the cookie of 1/1/2 deletes that of 1/1/3 (lemma `DeleteTakesAnother`).

Measuring. `NsPerSecond` appends the second under way at every call, so the
loops that ask for the length of the list in every round go on, holding the
mutex of the console, until that second is over (TH 872-900). As the constructor
of `hiResTimer` leaves `clockPrev` unset (TH 344; the comment at 347 relies on a
zero), that second may be one still to come: then no second is closed, and the
loop of TH 874 goes on until the clock gets there, which may be never; the
other workers wait for the mutex and `main` for them (`MainEnds` names this as
the one exception). `controller->Start()` and `monitor.Start()` (TH 783) read
the clock separately. A worker preempted in between catches up within its first
listed second, so that second alone may list more than the rate; what
`NoFasterThanAsked` bounds is the number of events since the start of the
controller. Seconds of a
timer count from the first hit, those of the monitor from the start of the
thread, and the two lists are multiplied entry by entry. Without a hit, a timer
whose memory was 0 lists an entry for every second since 1970. The interval of
`rateControl` is rounded down, so a rate that does not divide a billion is
exceeded (less than twofold), and one above a billion is no limit; at replay rates below a half a
worker sleeps on for up to 1/rate - 2 seconds after the virtual clock
reached its hit, within the virtual second. `main` ignores the answer of
`Configure`: a mistake in the configuration is printed, and a run with no
threads follows.

Tests. A skipped test moves the counter twice, so the test after it never runs;
the flag of a skipped `_IF` test that is the last of its suite stays set, and
plain tests of the next suite are skipped. A failing `fct_req` in a setup
aborts the suite without the teardown, contrary to FCT 1070-1081 and 3658-3659;
a second one in the same block breaks out of the loop of the suite, which the
junit logger answers with a failed assertion. A `fct_chk` in the first setup
has no current test and fails an assertion; later ones go to the test before,
or are lost after a skipped test or a `fct_req` that passed. A fixture without
a setup or a teardown never ends (`RunEnds` assumes both). An unknown logger
ends the program with status 0, a blank argument with an assertion.

Losing a hit to a concurrent worker, to a failed load or to a visitor wrongly
declared new is what the code does; no comment promises otherwise.
`EachLossHasACause` says that nothing else loses hits.

## 4. What is proved

TLAPS checks the following for all values of the constants that satisfy the
named assumptions of the modules.

`HitSource_proofs`: for any finite or infinite set of threads, any number of
requests and any file lists, `TypeCorrect`, `EachHitOnceAlways`,
`RecordedOrder` (an action property), `OneWorkerLost` and `Refinement` of
`HitQueue`. The inductive invariant adds three parts to the types and
`EachHitOnce`. `LockInv`: a thread is between lock and unlock exactly if it
holds the mutex, so that one thread at a time moves the stream. `StreamInv`: an
open stream stands inside the file opened last, and one that is closed or at
its end has given all hits of it; without it, stepping to the next file could
drop hits. `HandInv`: what a thread has in hand is later than everything it was
given, which makes the order per thread inductive. The refinement maps reading
a hit under the lock to the abstract `Take`; every other step is a stutter. For
`OneWorkerLost`, `OpenInv` says that without read errors only a stream that is
closed sends a worker away, and `LossInv` that as many workers are lost as
missing files were passed.

`RelVars_proofs`: `IndexAlwaysOK` (types, and the index is the strictly sorted
list of all slots), `HandlesAlwaysValid`, `RelVarsImplementRelMap` (the
refinement: every call does to the map what the abstract call says),
`OnlyClearingUnmarked` and `WalksAlwaysComplete` (the walks of
`GetFirstSetVar`/`GetNextSetVar` and of the modified variables visit each
variable they are for once, in order, and end). The invariant is inductive by
itself; the work is in the lemmas that say what an insertion at the position
found does to a sorted index. `StepShape` says that every action either leaves
ids and index alone or inserts one slot, so that the proof of the invariant has
two cases instead of one for each method. `OneSlotEach`, a consequence of the
invariant, is what the refinement mapping needs: an id has one slot, so what is
written through a handle is what the map has for the id. For the search,
`SearchCorrect` follows from the loop invariant `RangeInv` (positions left of the
range hold smaller ids and those right of it greater ones; once `low` has moved,
the element at `low` is smaller than the id), and with it
`SearchIsFindRelationPos` says that the loop returns what the operator
`FindRelationPos` of `RelVars` is defined to be.

`ProfileUpdate_proofs`: for any threads, keys, hits and number of failures,
`TypeCorrect`, `RecordsFollow` (`RecordsFollowTheirHits`), `LossesHaveCauses`
(`EachLossHasACause`), and `AloneImplementsLog`: one worker without failures,
whose hits are not declared to be of new visitors, implements `ProfileLog`.
The invariant has three parts. `WorkInv`: hits in work are distinct and were
taken, and every stage of the worker loop has the cookie it needs.
`ContentInv`: each cookie and each record, also one that a time-out left to be
written late, is what the hits in its log make of it. `LossInv`: a hit that was
worked through is in the record of its key, or in what overwrote it, or has a
cause; it has to speak of the cookies in work as well, because a worker that
has loaded before another stores is going to drop the other's hit. That the
list of purchase ids after any number of hits is the one the log makes is a
fold; `SetPurchaseIdFacts` gives its step.

`Harness_proofs`: for any number of threads, requests and hits, every rate and
any clock, `TypeCorrect`, `AveragesBounded`, `EventsCounted`, `AsPaced` and
`TotalsSummed`. `Sound` has the types, where each worker can be and who holds
the mutex, that no timer holds more than the longest read times its events, and
what the totals weigh: a worker in the middle of its report has entered its
rates and not yet all its times, and without the share that is pending the
bound of the averages is no invariant. On it rest `AveragesInv` for what `main`
has returned, `MeasureInv` for what one worker has measured up to now (events of
the seconds listed and of the one under way, virtual time, and the moment
before which it must not go on, all counted from the start of the controller:
`late` ties it to the seconds of the monitor), and `SumsInv`, second by second
what each worker has added so far. `AsPaced` allows the asked rate where it
divides a second and less than twice of it elsewhere, which is what the rounded
interval comes to (`TwiceTheIntervals`, `QuotaAsked`).

`FctRun_proofs`: for every test program, `BlocksInPlace` (`InItsFixture`),
`TestsRunOnce` (`EachTestOnce`) and `NoFailureHidden`
(`StatusTellsFailures`). The properties speak of what was executed and
recorded, while the program has only a mode and two counters; `IInv` ties them
together. `WalkInv` says where the walk is in each mode: a test to come has not
been passed, and the total is the number of tests once they are counted.
`PlaceInv` says which block was the last in each mode; it is why a test finds
its setup before it. `FlagsInv`: a flag is only set by a condition that did not
hold in this suite or one before. With it `OnceInv` says, mode by mode, that
what the suite has executed are the complete rounds of the tests before and
what the mode has of the next. For the failures, `TestsInv` keeps that what the
logger was told is the sum over all tests that were made, and `ListsInv` that
in programs without skips and fixtures with a `fct_req` the lists name each of
them once.

`RecordLife_proofs`: for every set of cookies, of hits and of fields a later
version may add, `RoundTripHolds`, `RejectedHolds`, `SecondLoadHolds`,
`EqualHolds` and `EvarsHold`, which are all the properties of `RecordLife`. The
invariant `Inv` (theorem `InvHolds`) adds to the types that the buffer is a
record of its writer or the beginning of one (`BufferOfWriter`), and that the
loaded cookie is what the reader makes of such a beginning
(`LoadedFromBuffer`). What it rests on is a lemma about the operators alone,
`ReadingOf`: what `Deserialize` makes of any beginning of any writer's record,
read into any cookie. Its proof lays the record out: `IsLaidOut` gives the place of
each field, of the purchase ids and of each variable, and `LaidOut` shows that
`Serialize` puts them there. Reading then goes place by place.
`FieldsState` and `VarsState` say what a read that has come to a place has in
the cookie, either with everything before it or, if the items end earlier, with
a failed read and parts of it; `OneField`, `PurchasesRead` and `OneVar` are their
steps, `FieldsRead` and `VarsRead` the folds. In `VarsState` the variables read
so far are those of the writer, and those to come are as they were: that is
what makes a second load keep old elements in front of the saved ones, and
`Loaded` says how many. For `EvarsHold` the loop over the evars is another
fold: `HitSoFar` ties what the first ids did to the sets of the property. An
id is looked up as the least known one that is not below it, so that a variable
is cleared at most once, and never one that a later id would still find set.

`Stores_proofs`, bulk operations: for any batches of cookies, number of calls
and buckets whose records are their visitors', whatever the dangling keys turn
out to be, `HandlersAlwaysFit`, `NeverMixedUp`, and the action properties
`LastIsSaved`, `ReportsAreTrue` (`ReportsTellTheLoad`) and `LoadedAsReported`. The invariant `BulkInv`
says what ties the parts together between the calls: `CookiesInv` and
`BucketInv` (each cookie and each record has nothing of another visitor; a
record may be the beginning of one), `ConnectionInv` (the mode and the callbacks
are those the requests were made for), `PendingInv` (a request of a load has a
key of the batch or garbage, one of a save a record of the visitor under whose
key it goes). That a load keeps `CookiesInv` is `ReadingOf` of
`RecordLife_proofs` again. What a whole bulk call does needs an invariant about
the part that is done. `SaveInv`: the last request under a key has the record of
the last cookie of its visitor, and a key without requests has that record,
unless one was refused. `ReportInv`: the reports and the requests still waiting
add up to the cookies, a report of success is about a cookie whose visitor has a
record, and a cookie that has changed since the call began was reported; it
holds whatever the keys were read as. `LoadInv`: what was reported has been
loaded, and, if the keys were read right, a cookie that has its visitor for
itself is blank until then. These three say nothing outside their call, so they are
established by `BeginSave` and `BeginLoad` and used in `EndSave` and `EndLoad`.

`Stores_proofs`, in-memory store: for any visitors and times and at most three
records, `NeverMixedUpInMemory`,
`OthersStay` (`OthersUndisturbed`) and `PromiseKept` (`CallsKeepThePromise`, the
calls of `VisitorStore`). `MemoryInv` says that the map is a tree, that each of
its nodes keeps a record of the visitor whose key it has, that the cookie in use
has nothing of another visitor, and that the tree is sorted if the comparison
orders the visitors. Below it are lemmas on trees that hold for any comparison
(what `Find` gives, where `Put` puts a node, which nodes an erasure leaves, and
in which order) and lemmas on sorted ones (`Find` finds, `EqualRange` is one
node). That loads and saves leave the records of others alone needs no order,
because the node a search or an insertion takes for that of an id is neither
below nor above it, and the comparison says so of equal ids only. A deletion
does need it, which no three visitors show but the proof did:
`DeleteTakesAnother` is why `OthersUndisturbed` asks for the order where a
cookie is deleted.

`FoldLemmas` holds what the proofs need of the library's folds. The library's
induction theorems cannot be used here, because they take an operator; for a
given fold the same follows from the least place at which it would go wrong
(`LeastNatural`, `UpTo`), and `FoldSteps` and `FlattenAppend` give its steps.

Assumptions. `NoThread` is no thread; `Requests` is a natural number; file lists
are sequences of files, and a file whose last line is not terminated ends in a
line that is not blank; relation ids are natural numbers below the end marker
(an evar number is below 75); values are not empty; elements of a serialized
variable are numbered; fields that a later version adds have numbers above those
of this one ("ALWAYS add new fields to the end", `vcookiestore.cpp`); `Indexes`
are ascending. What is in the bucket at first is a record of a cookie of the
visitor under whose key it is, or a beginning of one (`BucketsAssumption`);
userids are positive numbers and garbage is none of them (`BulkAssumption`). The
parts of a visitor id are natural numbers, times of hits are positive, the map
has at most three nodes, and `NoNode` is no record (`StoreAssumption`). In
`ProfileUpdate` the list of purchase ids has room for one, and `NoRecord` is not
a cookie. In `Harness` a second has at least one unit of time, the clock was set
to at least one second after its zero when the program started, and the memory
of a timer holds any natural number as its time (`ClockIsSet`); numbers of a scenario
are natural and a replay rate is positive (`ScenariosAssumption`). In `FctRun` a
status can be 1 (`StatusLimit` > 1), a logger is one of the three, and a program
is made of finite lists of suites, tests and checks.

Model-checked only: the liveness properties `EveryThreadStops`,
`AllHitsReplayed`, `Terminates`, `MainEnds` and `RunEnds`, because fairness is
outside what the provers do, and the two violations. Every invariant and every
action property of a passing run, and the refinements of `HitQueue`, `RelMap` and
`ProfileLog`, are theorems. For `InMemoryStore` they hold for any visitors but not
for any number of records: the tree has no more than three nodes, because the
balancing of larger ones is not modelled.

## 5. What is not modelled

The no-op store returns constants and `VCookieUser` is an interface without an
implementation. The report scripts filter printed text and share no state with
the program. `test.cpp` is straight-line code. Of `Configure` what
boost::program_options accepts is external. Of `fct.h` are left out the
redirection of the standard streams, the timers, text formatting, shortage of
memory, the mock variants of the suite macros and the string checks, which all
end in the check that is modelled. Printing is left out everywhere, the widths
of the counters too: none comes near its limit. The depth of the
recursion of `NextHit` is not modelled.
