----------------------------- MODULE HitSource ------------------------------
(***************************************************************************)
(* The replay source that all worker threads of one process share:         *)
(* dwfileHitSource of src/testharness.cpp (openNextFile, NextHit), called  *)
(* from the hit loop of WorkerThread.                                      *)
(*                                                                         *)
(* NextHit locks fileReadMutex, steps to the next file if the stream is    *)
(* closed or at its end, reads one line, unlocks, and only then looks at   *)
(* the line.  A line that is no hit makes it call itself again; so pc      *)
(* "call" stands for both the first and the recursive entry.               *)
(***************************************************************************)
EXTENDS Naturals, Sequences, FiniteSets

CONSTANTS Threads,    \* the worker threads of the process
          NoThread,   \* the holder of a free mutex
          Requests,   \* options.requests: hits one thread replays at most
          FileLists   \* the lists of files a replay may be given

(***************************************************************************)
(* A file: does open succeed; what its lines are; and how it ends.         *)
(*   "hit"      as many fields as expected, all numbers readable           *)
(*   "short"    another number of fields;  "blank"  no characters at all   *)
(*   "garbled"  the right number of fields, one of which lexical_cast      *)
(*              rejects                                                    *)
(* "newline": the last line is terminated.  "bare": it is not, so getline  *)
(* returns it and sets eof at once.  "error": the read after the last line *)
(* fails without reaching the end of the file.                             *)
(***************************************************************************)
LineKinds == {"hit", "short", "blank", "garbled"}

File == [opens : BOOLEAN, lines : Seq(LineKinds),
         ends : {"newline", "bare", "error"}]

ASSUME ThreadsAssumption == NoThread \notin Threads

ASSUME RequestsAssumption == Requests \in Nat

ASSUME FileListsAssumption ==
  /\ FileLists \subseteq Seq(File)
  /\ \A fl \in FileLists : \A f \in 1..Len(fl) :
       fl[f].ends = "bare" => /\ fl[f].lines # <<>>
                              /\ fl[f].lines[Len(fl[f].lines)] # "blank"

VARIABLES files,         \* filenames: chosen once, never written again
          currFilename,  \* index of the next file to open, 1..Len(files)+1
          infile,        \* the stream: is_open, lines consumed, eof and fail bits
          mutex,         \* fileReadMutex: its holder, or NoThread
          pc,            \* where each thread is
          line,          \* the line a thread has in hand, as <<file, line>>
          count,         \* i of the hit loop: hits the thread has replayed
          delivered,     \* the hits NextHit returned to each thread
          aborted        \* an exception nobody catches ended the process

vars == <<files, currFilename, infile, mutex, pc, line, count, delivered, aborted>>

NoLine == <<0, 0>>       \* getline left the string empty

----------------------------------------------------------------------------
(* The lines of the files, and the positions of the hits among them. *)

Kind(at) == IF at = NoLine THEN "blank" ELSE files[at[1]].lines[at[2]]

Lines == UNION {{f} \X (1..Len(files[f].lines)) : f \in 1..Len(files)}

Hits == {at \in Lines : files[at[1]].opens /\ Kind(at) = "hit"}

Reading == currFilename - 1         \* the file that was opened last

Good == infile.open /\ ~infile.eof /\ ~infile.fail

----------------------------------------------------------------------------
(* Seeded bugs, part 1: forms of the definitions below that a slip in the  *)
(* code would produce.  PROJECT.json names the property that notices each. *)

\* After the last file, start over with the first.
openNextFile_WrapsAround ==
  LET next == IF currFilename <= Len(files) THEN currFilename ELSE 1
  IN IF files = <<>> THEN UNCHANGED <<currFilename, infile>>
     ELSE /\ currFilename' = next + 1
          /\ infile' = IF files[next].opens
                       THEN [open |-> TRUE, pos |-> 0, eof |-> FALSE, fail |-> FALSE]
                       ELSE [infile EXCEPT !.open = FALSE, !.fail = TRUE]

(* openNextFile: close, then open the file currFilename points at, if any. *)
(* A successful open clears the state bits; a failed one sets failbit and  *)
(* leaves eofbit as it was; close clears neither.                          *)

openNextFile ==
  IF currFilename <= Len(files)
  THEN /\ currFilename' = currFilename + 1
       /\ infile' = IF files[currFilename].opens
                    THEN [open |-> TRUE, pos |-> 0, eof |-> FALSE, fail |-> FALSE]
                    ELSE [infile EXCEPT !.open = FALSE, !.fail = TRUE]
  ELSE /\ infile' = [infile EXCEPT !.open = FALSE]
       /\ UNCHANGED currFilename

(* getline on the open, good stream: the position of the line it returns   *)
(* and the stream it leaves.                                               *)
LinesHere == Len(files[Reading].lines)

LineRead == IF infile.pos < LinesHere THEN <<Reading, infile.pos + 1>> ELSE NoLine

\* Seeded bug: a failed read leaves the stream good.
StreamAfterRead_IgnoresErrors ==
  IF infile.pos < LinesHere
  THEN [infile EXCEPT !.pos = @ + 1]
  ELSE [infile EXCEPT !.eof = files[Reading].ends # "error"]

\* Seeded bug: a second getline swallows the line after the one returned.
StreamAfterRead_SkipsLine ==
  IF infile.pos < LinesHere
  THEN [infile EXCEPT !.pos = @ + 2]
  ELSE [infile EXCEPT !.eof = files[Reading].ends # "error", !.fail = TRUE]

StreamAfterRead ==
  IF infile.pos < LinesHere
  THEN [infile EXCEPT !.pos = @ + 1,
                      !.eof = /\ infile.pos + 1 = LinesHere
                              /\ files[Reading].ends = "bare"]
  ELSE [infile EXCEPT !.eof = files[Reading].ends # "error", !.fail = TRUE]

----------------------------------------------------------------------------
Init == /\ files \in FileLists
        /\ currFilename = 1
        /\ infile = [open |-> FALSE, pos |-> 0, eof |-> FALSE, fail |-> FALSE]
        /\ mutex = NoThread
        /\ pc = [t \in Threads |-> "call"]
        /\ line = [t \in Threads |-> NoLine]
        /\ count = [t \in Threads |-> 0]
        /\ delivered = [t \in Threads |-> {}]
        /\ aborted = FALSE

(* Seeded bugs, part 2. *)

\* The hit loop runs once too often.
Enter_OneHitMore(t) ==
  /\ pc[t] = "call" /\ count[t] <= Requests
  /\ mutex = NoThread
  /\ mutex' = t
  /\ IF ~infile.open \/ infile.eof THEN openNextFile
     ELSE UNCHANGED <<currFilename, infile>>
  /\ pc' = [pc EXCEPT ![t] = "locked"]
  /\ UNCHANGED <<files, line, count, delivered, aborted>>

\* Only the end of a file, not a closed stream, makes NextHit step on.
Enter_StepsOnlyAtEof(t) ==
  /\ pc[t] = "call" /\ count[t] < Requests
  /\ mutex = NoThread
  /\ mutex' = t
  /\ IF currFilename = 1 \/ infile.eof THEN openNextFile
     ELSE UNCHANGED <<currFilename, infile>>
  /\ pc' = [pc EXCEPT ![t] = "locked"]
  /\ UNCHANGED <<files, line, count, delivered, aborted>>

\* Only a closed stream, not the end of a file, makes NextHit step on.
Enter_StepsOnlyIfClosed(t) ==
  /\ pc[t] = "call" /\ count[t] < Requests
  /\ mutex = NoThread
  /\ mutex' = t
  /\ IF ~infile.open THEN openNextFile ELSE UNCHANGED <<currFilename, infile>>
  /\ pc' = [pc EXCEPT ![t] = "locked"]
  /\ UNCHANGED <<files, line, count, delivered, aborted>>

\* The end-of-file test forgets that the last line may hold something.
CheckEof_DropsLastLine(t) ==
  /\ pc[t] = "read"
  /\ \E eof \in (IF mutex = NoThread THEN {infile.eof} ELSE BOOLEAN) :
       IF eof
       THEN /\ pc' = [pc EXCEPT ![t] = "call"]
            /\ line' = [line EXCEPT ![t] = NoLine]
       ELSE /\ pc' = [pc EXCEPT ![t] = "split"]
            /\ UNCHANGED line
  /\ UNCHANGED <<files, currFilename, infile, mutex, count, delivered, aborted>>

----------------------------------------------------------------------------
\* NextHit entered: lock the mutex and step to the next file if necessary.
Enter(t) == /\ pc[t] = "call" /\ count[t] < Requests
            /\ mutex = NoThread
            /\ mutex' = t
            /\ IF ~infile.open \/ infile.eof THEN openNextFile
               ELSE UNCHANGED <<currFilename, infile>>
            /\ pc' = [pc EXCEPT ![t] = "locked"]
            /\ UNCHANGED <<files, line, count, delivered, aborted>>

\* There is data left: read a line and unlock.
ReadLine(t) == /\ pc[t] = "locked" /\ Good
               /\ line' = [line EXCEPT ![t] = LineRead]
               /\ infile' = StreamAfterRead
               /\ mutex' = NoThread
               /\ pc' = [pc EXCEPT ![t] = "read"]
               /\ UNCHANGED <<files, currFilename, count, delivered, aborted>>

\* The file was closed, at its end, ...: unlock, return false, and the hit
\* loop of the worker breaks.
RunOut(t) == /\ pc[t] = "locked" /\ ~Good
             /\ mutex' = NoThread
             /\ pc' = [pc EXCEPT ![t] = "ranout"]
             /\ UNCHANGED <<files, currFilename, infile, line, count, delivered, aborted>>

\* The end-of-file test after the unlock.  It reads a stream that the holder
\* of the mutex may be changing: then the bit it sees can be either.
EofSeen == IF mutex = NoThread THEN {infile.eof} ELSE BOOLEAN

CheckEof(t) == /\ pc[t] = "read"
               /\ \E eof \in EofSeen :
                    IF eof /\ Kind(line[t]) = "blank"
                    THEN /\ pc' = [pc EXCEPT ![t] = "call"]
                         /\ line' = [line EXCEPT ![t] = NoLine]
                    ELSE /\ pc' = [pc EXCEPT ![t] = "split"]
                         /\ UNCHANGED line
               /\ UNCHANGED <<files, currFilename, infile, mutex, count, delivered, aborted>>

\* The field count does not match: NextHit calls itself again.
Skip(t) == /\ pc[t] = "split"
           /\ Kind(line[t]) \in {"blank", "short"}
           /\ pc' = [pc EXCEPT ![t] = "call"]
           /\ line' = [line EXCEPT ![t] = NoLine]
           /\ UNCHANGED <<files, currFilename, infile, mutex, count, delivered, aborted>>

\* All fields convert: NextHit returns true and the worker replays the hit.
Deliver(t) == /\ pc[t] = "split"
              /\ Kind(line[t]) = "hit"
              /\ delivered' = [delivered EXCEPT ![t] = @ \cup {line[t]}]
              /\ count' = [count EXCEPT ![t] = @ + 1]
              /\ line' = [line EXCEPT ![t] = NoLine]
              /\ pc' = [pc EXCEPT ![t] = "call"]
              /\ UNCHANGED <<files, currFilename, infile, mutex, aborted>>

\* lexical_cast throws; nothing above it catches, so the process ends.
Abort(t) == /\ pc[t] = "split"
            /\ Kind(line[t]) = "garbled"
            /\ aborted' = TRUE
            /\ UNCHANGED <<files, currFilename, infile, mutex, pc, line, count, delivered>>

\* The hit loop ends because all requests are done.
Finish(t) == /\ pc[t] = "call" /\ count[t] = Requests
             /\ pc' = [pc EXCEPT ![t] = "done"]
             /\ UNCHANGED <<files, currFilename, infile, mutex, line, count, delivered, aborted>>

Step(t) == /\ ~aborted
           /\ \/ Enter(t) \/ ReadLine(t) \/ RunOut(t) \/ CheckEof(t)
              \/ Skip(t) \/ Deliver(t) \/ Abort(t) \/ Finish(t)

Stopped(t) == pc[t] \in {"done", "ranout"}

\* The process is over: no step is left (not a deadlock).
Terminated == /\ aborted \/ \A t \in Threads : Stopped(t)
              /\ UNCHANGED vars

Next == (\E t \in Threads : Step(t)) \/ Terminated

Spec == Init /\ [][Next]_vars

\* The kernel schedules every thread that can run.
FairSpec == Spec /\ \A t \in Threads : WF_vars(Step(t))

----------------------------------------------------------------------------
(* Properties *)

Stream == [open : BOOLEAN, pos : Nat, eof : BOOLEAN, fail : BOOLEAN]

Positions == (Nat \ {0}) \X (Nat \ {0})

\* Every variable has its type, and the stream is where the code can put it.
TypeOK ==
  /\ files \in FileLists
  /\ currFilename \in 1..(Len(files) + 1)
  /\ infile \in Stream
  /\ mutex \in Threads \cup {NoThread}
  /\ pc \in [Threads -> {"call", "locked", "read", "split", "ranout", "done"}]
  /\ line \in [Threads -> Positions \cup {NoLine}]
  /\ count \in [Threads -> 0..Requests]
  /\ delivered \in [Threads -> SUBSET Hits]
  /\ aborted \in BOOLEAN

\* What thread t owns: the hits it was given and the one it has in hand.
Held(t) == delivered[t] \cup ({line[t]} \cap Hits)

\* The hits that lie before the read position.
Consumed == {h \in Hits : \/ h[1] < Reading
                          \/ h[1] = Reading /\ h[2] <= infile.pos}

(* No hit is lost and none is handed out twice: what the threads own,      *)
(* together, is what has been read from the files, and no two of them own  *)
(* the same hit.  NextHit unlocks before it looks at the line and reads    *)
(* eof without the lock (testharness.cpp:581-584), so this is what the     *)
(* order of lock, getline, unlock and test has to guarantee.               *)
EachHitOnce ==
  /\ Consumed = UNION {Held(t) : t \in Threads}
  /\ \A t, u \in Threads : t # u => Held(t) \cap Held(u) = {}
  /\ \A t \in Threads : line[t] \notin delivered[t]

(* A thread sees the recording in order: each hit it is given comes after  *)
(* all hits it had before.  rateControl relies on it: it computes delays   *)
(* from the time of the thread's first hit (testharness.cpp:167-194).      *)
BeforeHit(a, b) == \/ a[1] < b[1]
                   \/ a[1] = b[1] /\ a[2] < b[2]

ThreadsSeeRecordedOrder ==
  [][\A t \in Threads : \A old \in delivered[t] :
       \A new \in delivered'[t] \ delivered[t] : BeforeHit(old, new)]_vars

(* A file that cannot be opened costs the process exactly one worker: the  *)
(* caller that steps onto it gets "no more hits" and leaves its loop       *)
(* (testharness.cpp:569-573, 846); the next caller opens the next file.    *)
(* Said for files without read errors, while files are left to open.       *)
Missing == {f \in 1..Reading : ~files[f].opens}

Lost == {t \in Threads : pc[t] = "ranout" \/ (pc[t] = "locked" /\ ~infile.open)}

OneWorkerLostPerMissingFile ==
  /\ currFilename <= Len(files)
  /\ \A f \in 1..Len(files) : files[f].ends # "error"
  => Cardinality(Lost) = Cardinality(Missing)

(* Every worker leaves its hit loop, whatever the files hold: no lost      *)
(* wake-up, no lock kept on a path out of NextHit, no endless recursion.   *)
EveryThreadStops == <>(aborted \/ \A t \in Threads : Stopped(t))

(* If all files open and read to their end, every hit is replayed, unless  *)
(* the workers use up their requests first or a garbled line ends the      *)
(* process.                                                                *)
AllFilesReadable == \A f \in 1..Len(files) : files[f].opens /\ files[f].ends # "error"

AllHitsReplayed ==
  AllFilesReadable =>
    <>(\/ aborted
       \/ \A t \in Threads : count[t] = Requests
       \/ Hits = UNION {delivered[t] : t \in Threads})

(* The shared source implements the abstract queue: the read under the     *)
(* lock is the step at which a hit changes hands.                          *)
HQ == INSTANCE HitQueue WITH hits <- Hits, got <- [t \in Threads |-> Held(t)]

ImplementsHitQueue == HQ!Spec
=============================================================================
