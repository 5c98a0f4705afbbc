--------------------------- MODULE HitSource_proofs -------------------------
(***************************************************************************)
(* Proofs about HitSource, for any set of threads, any number of requests  *)
(* and any lists of files.  The inductive invariant adds to EachHitOnce    *)
(* what the code keeps true on the way: who holds the lock, where the      *)
(* stream stands, and what a thread in the middle of NextHit has in hand.  *)
(***************************************************************************)
EXTENDS HitSource, FiniteSetTheorems, TLAPS

\* The holder of the mutex is the thread between lock and unlock.
LockInv == \A t \in Threads : (pc[t] = "locked") <=> (mutex = t)

\* An open stream stands inside the file opened last; one that is closed or
\* at its end has given all hits of that file.
StreamInv ==
  /\ infile.open => /\ Reading \in 1..Len(files)
                    /\ files[Reading].opens
                    /\ infile.pos <= Len(files[Reading].lines)
  /\ ~infile.open \/ infile.eof =>
       \A h \in Hits : h[1] = Reading => h[2] <= infile.pos

\* A thread inside NextHit has a request left, and what it has in hand is a
\* line of a file that opened, later than anything it was given before.
HandInv == \A t \in Threads :
  /\ pc[t] \in {"locked", "read", "split"} => count[t] < Requests
  /\ line[t] # NoLine => /\ pc[t] \in {"read", "split"}
                         /\ line[t] \in Lines
                         /\ files[line[t][1]].opens
                         /\ \A h \in delivered[t] : BeforeHit(h, line[t])

IInv == TypeOK /\ LockInv /\ StreamInv /\ HandInv /\ EachHitOnce

----------------------------------------------------------------------------
(* Files, lines and hits *)

LEMMA FilesType ==
  ASSUME TypeOK
  PROVE  /\ files \in Seq(File)
         /\ Len(files) \in Nat
         /\ \A f \in 1..Len(files) : /\ files[f] \in File
                                     /\ Len(files[f].lines) \in Nat
<1>1. files \in Seq(File)
  BY FileListsAssumption DEF TypeOK, FileListsAssumption
<1>2. Len(files) \in Nat /\ \A f \in 1..Len(files) : files[f] \in File
  BY <1>1
<1>3. \A f \in 1..Len(files) : files[f].lines \in Seq(LineKinds)
  BY <1>2 DEF File
<1> QED BY <1>1, <1>2, <1>3

LEMMA LineFacts ==
  ASSUME TypeOK, NEW at \in Lines
  PROVE  /\ at = <<at[1], at[2]>>
         /\ at[1] \in 1..Len(files)
         /\ at[2] \in 1..Len(files[at[1]].lines)
         /\ at # NoLine
         /\ at \in Positions
BY FilesType DEF Lines, NoLine, Positions

LEMMA HitFacts ==
  ASSUME TypeOK, NEW h \in Hits
  PROVE  /\ h = <<h[1], h[2]>>
         /\ h[1] \in 1..Len(files)
         /\ h[2] \in 1..Len(files[h[1]].lines)
         /\ h \in Lines
         /\ h # NoLine
         /\ files[h[1]].opens
         /\ Kind(h) = "hit"
BY LineFacts DEF Hits

LEMMA NoLineIsNoHit == ASSUME TypeOK PROVE NoLine \notin Hits
BY HitFacts

LEMMA LinesOfFile ==
  ASSUME TypeOK, NEW f \in 1..Len(files), NEW n \in 1..Len(files[f].lines)
  PROVE  <<f, n>> \in Lines
BY DEF Lines

\* Everything the threads own lies before the read position.
LEMMA OwnedIsConsumed ==
  ASSUME IInv, NEW t \in Threads
  PROVE  /\ Held(t) \subseteq Consumed
         /\ delivered[t] \subseteq Consumed
BY DEF IInv, EachHitOnce, Held

----------------------------------------------------------------------------
(* Stepping to the next file loses nothing: what lay before the read       *)
(* position still does, and nothing else.                                  *)

LEMMA OpenNextFileStep ==
  ASSUME TypeOK, StreamInv, ~infile.open \/ infile.eof, openNextFile, UNCHANGED files
  PROVE  /\ currFilename' \in 1..(Len(files) + 1)
         /\ infile' \in Stream
         /\ StreamInv'
         /\ Consumed' = Consumed
<1>1. /\ Len(files) \in Nat
      /\ currFilename \in 1..(Len(files) + 1)
      /\ infile \in Stream
      /\ Hits' = Hits
  BY FilesType DEF TypeOK, Hits, Lines, Kind
<1>2. \A h \in Hits : h[1] = Reading => h[2] <= infile.pos
  BY DEF StreamInv
<1>3. \A h \in Hits : h[1] \in Nat /\ h[2] \in Nat \ {0} /\ files[h[1]].opens
  BY HitFacts, FilesType, <1>1
<1>4. CASE currFilename <= Len(files) /\ files[currFilename].opens
  <2>1. /\ currFilename' = currFilename + 1
        /\ infile' = [open |-> TRUE, pos |-> 0, eof |-> FALSE, fail |-> FALSE]
        /\ infile' \in Stream
    <3>1. /\ currFilename' = currFilename + 1
          /\ infile' = [open |-> TRUE, pos |-> 0, eof |-> FALSE, fail |-> FALSE]
      BY <1>4 DEF openNextFile
    <3> QED BY <3>1 DEF Stream
  <2>2. Reading' = currFilename
    BY <2>1, <1>1 DEF Reading
  <2>3. StreamInv'
    <3>1. Len(files[currFilename].lines) \in Nat
      BY <1>1, <1>4, FilesType
    <3>2. /\ infile'.open /\ infile'.pos = 0 /\ ~infile'.eof
          /\ Reading' \in 1..Len(files)
      BY <2>1, <2>2, <1>1, <1>4
    <3> QED BY <3>1, <3>2, <2>2, <1>1, <1>4 DEF StreamInv
  <2>4. \A h \in Hits : (\/ h[1] < Reading'
                         \/ h[1] = Reading' /\ h[2] <= infile'.pos)
                    <=> (\/ h[1] < Reading
                         \/ h[1] = Reading /\ h[2] <= infile.pos)
    BY <2>1, <2>2, <1>1, <1>2, <1>3 DEF Reading
  <2>5. Consumed' = Consumed
    BY <2>4, <1>1 DEF Consumed
  <2> QED BY <2>1, <2>3, <2>5, <1>1, <1>4
<1>5. CASE currFilename <= Len(files) /\ ~files[currFilename].opens
  <2>1. /\ currFilename' = currFilename + 1
        /\ infile' = [infile EXCEPT !.open = FALSE, !.fail = TRUE]
    BY <1>5 DEF openNextFile
  <2>2. /\ Reading' = currFilename
        /\ infile'.pos = infile.pos
        /\ infile'.open = FALSE
        /\ infile' \in Stream
    <3>1. Reading' = currFilename
      BY <2>1, <1>1 DEF Reading
    <3>2. /\ infile'.pos = infile.pos
          /\ infile'.open = FALSE
          /\ infile' \in Stream
      BY <2>1, <1>1 DEF Stream
    <3> QED BY <3>1, <3>2
  <2>3. \A h \in Hits : h[1] # Reading'
    BY <2>2, <1>3, <1>5
  <2>4. StreamInv'
    BY <2>2, <2>3, <1>1 DEF StreamInv
  <2>5. \A h \in Hits : (\/ h[1] < Reading'
                         \/ h[1] = Reading' /\ h[2] <= infile'.pos)
                    <=> (\/ h[1] < Reading
                         \/ h[1] = Reading /\ h[2] <= infile.pos)
    BY <2>2, <2>3, <1>1, <1>2, <1>3 DEF Reading
  <2>6. Consumed' = Consumed
    BY <2>5, <1>1 DEF Consumed
  <2> QED BY <2>1, <2>2, <2>4, <2>6, <1>1, <1>5
<1>6. CASE ~(currFilename <= Len(files))
  <2>1. /\ currFilename' = currFilename
        /\ infile' = [infile EXCEPT !.open = FALSE]
    BY <1>6 DEF openNextFile
  <2>2. /\ Reading' = Reading
        /\ infile'.pos = infile.pos
        /\ infile'.open = FALSE
        /\ infile' \in Stream
    <3>1. Reading' = Reading
      BY <2>1 DEF Reading
    <3>2. /\ infile'.pos = infile.pos
          /\ infile'.open = FALSE
          /\ infile' \in Stream
      BY <2>1, <1>1 DEF Stream
    <3> QED BY <3>1, <3>2
  <2>3. StreamInv'
    BY <2>2, <1>1, <1>2 DEF StreamInv
  <2>4. Consumed' = Consumed
    BY <2>2, <1>1 DEF Consumed
  <2> QED BY <2>1, <2>2, <2>3, <2>4, <1>1
<1> QED BY <1>4, <1>5, <1>6

\* Reading a line moves it, and nothing else, behind the read position; the
\* line is a new one.
LEMMA ReadStep ==
  ASSUME TypeOK, StreamInv, Good, infile' = StreamAfterRead,
         UNCHANGED <<files, currFilename>>
  PROVE  /\ infile' \in Stream
         /\ StreamInv'
         /\ LineRead = NoLine \/ (LineRead \in Lines /\ files[LineRead[1]].opens)
         /\ LineRead \notin Consumed
         /\ LineRead \in Hits => \A h \in Consumed : BeforeHit(h, LineRead)
         /\ LineRead \in Hits => \A h \in Hits \ Consumed :
                                    h = LineRead \/ BeforeHit(LineRead, h)
         /\ Consumed' = Consumed \cup ({LineRead} \cap Hits)
<1>1. /\ Len(files) \in Nat
      /\ currFilename \in 1..(Len(files) + 1)
      /\ infile \in Stream
      /\ Hits' = Hits
      /\ Reading' = Reading
      /\ Reading \in 1..Len(files)
      /\ files[Reading].opens
      /\ LinesHere \in Nat
      /\ infile.pos \in 0..LinesHere
  <2>1. /\ Len(files) \in Nat
        /\ currFilename \in 1..(Len(files) + 1)
        /\ infile \in Stream
        /\ Hits' = Hits
        /\ Reading' = Reading
    BY FilesType DEF TypeOK, Hits, Lines, Kind, Reading
  <2>2. /\ Reading \in 1..Len(files)
        /\ files[Reading].opens
        /\ infile.pos <= LinesHere
    BY DEF Good, StreamInv, LinesHere
  <2>3. LinesHere \in Nat
    BY <2>2, FilesType DEF LinesHere
  <2> QED BY <2>1, <2>2, <2>3 DEF Stream
<1>2. \A h \in Hits : /\ h = <<h[1], h[2]>>
                      /\ h[1] \in Nat /\ h[2] \in Nat \ {0}
                      /\ h[1] = Reading => h[2] <= LinesHere
  BY HitFacts, FilesType, <1>1 DEF LinesHere
<1>3. NoLine \notin Hits
  BY NoLineIsNoHit
<1>4. CASE infile.pos < LinesHere
  <2>1. /\ infile'.pos = infile.pos + 1
        /\ infile'.open
        /\ infile'.eof => infile'.pos = LinesHere
        /\ infile' \in Stream
    <3> DEFINE last == infile.pos + 1 = LinesHere /\ files[Reading].ends = "bare"
    <3>1. infile' = [infile EXCEPT !.pos = infile.pos + 1, !.eof = last]
      BY <1>4 DEF StreamAfterRead
    <3>2. /\ last \in BOOLEAN
          /\ last => infile.pos + 1 = LinesHere
      OBVIOUS
    <3> HIDE DEF last
    <3>3. infile.pos + 1 \in Nat
      BY <1>1 DEF Stream
    <3> QED BY <3>1, <3>2, <3>3, <1>1 DEF Good, Stream
  <2>2. LineRead = <<Reading, infile.pos + 1>>
    BY <1>4 DEF LineRead
  <2>3. /\ LineRead \in Lines
        /\ LineRead[1] = Reading
        /\ LineRead[2] = infile.pos + 1
    BY <2>2, <1>1, <1>4, LinesOfFile DEF LinesHere
  <2>4. StreamInv'
    BY <2>1, <1>1, <1>2, <1>4 DEF StreamInv, LinesHere
  <2>5. \A h \in Consumed : BeforeHit(h, LineRead)
    BY <2>3, <1>1, <1>2 DEF Consumed, BeforeHit
  <2>6. LineRead \notin Consumed
    BY <2>3, <1>1 DEF Consumed
  <2>7. \A h \in Hits \ Consumed : h = LineRead \/ BeforeHit(LineRead, h)
    <3> SUFFICES ASSUME NEW h \in Hits \ Consumed, h # LineRead
                 PROVE  BeforeHit(LineRead, h)
      OBVIOUS
    <3>1. h[1] > Reading \/ (h[1] = Reading /\ h[2] > infile.pos)
      BY <1>1, <1>2 DEF Consumed
    <3>2. ~(h[1] = Reading /\ h[2] = infile.pos + 1)
      BY <1>2, <2>2
    <3> QED BY <3>1, <3>2, <2>3, <1>1, <1>2 DEF BeforeHit
  <2>8. \A h \in Hits : (\/ h[1] < Reading
                         \/ h[1] = Reading /\ h[2] <= infile.pos + 1)
                    <=> (\/ h[1] < Reading
                         \/ h[1] = Reading /\ h[2] <= infile.pos
                         \/ h = LineRead)
    BY <1>1, <1>2, <2>2, <2>3
  <2>9. Consumed' = Consumed \cup ({LineRead} \cap Hits)
    BY <2>8, <2>1, <1>1 DEF Consumed
  <2> QED BY <2>1, <2>3, <2>4, <2>5, <2>6, <2>7, <2>9, <1>1
<1>5. CASE ~(infile.pos < LinesHere)
  <2>1. /\ infile'.pos = infile.pos
        /\ infile'.open
        /\ infile.pos = LinesHere
        /\ infile' \in Stream
    <3> DEFINE atEnd == files[Reading].ends # "error"
    <3>1. infile' = [infile EXCEPT !.eof = atEnd, !.fail = TRUE]
      BY <1>5 DEF StreamAfterRead
    <3>2. atEnd \in BOOLEAN
      OBVIOUS
    <3> HIDE DEF atEnd
    <3>3. infile.pos = LinesHere
      BY <1>1, <1>5
    <3> QED BY <3>1, <3>2, <3>3, <1>1 DEF Good, Stream
  <2>2. LineRead = NoLine
    BY <1>5 DEF LineRead
  <2>3. StreamInv'
    BY <2>1, <1>1, <1>2 DEF StreamInv, LinesHere
  <2>4. Consumed' = Consumed
    BY <2>1, <1>1 DEF Consumed
  <2> QED BY <2>1, <2>2, <2>3, <2>4, <1>3 DEF Consumed
<1> QED BY <1>4, <1>5

----------------------------------------------------------------------------
(* The inductive invariant *)

\* What the steps that do not touch the stream share: owning the same hits,
\* the threads still own what was read, once each.
LEMMA SameHoldings ==
  ASSUME EachHitOnce,
         UNCHANGED <<files, currFilename, infile>>,
         \A t \in Threads : Held(t)' = Held(t)
  PROVE  /\ Consumed' = UNION {Held(t)' : t \in Threads}
         /\ \A t, u \in Threads : t # u => Held(t)' \cap Held(u)' = {}
<1>1. Consumed' = Consumed
  BY DEF Consumed, Hits, Lines, Kind, Reading
<1> QED BY <1>1 DEF EachHitOnce

THEOREM InitIInv == Init => IInv
<1> SUFFICES ASSUME Init PROVE IInv
  OBVIOUS
<1>1. Len(files) \in Nat
  <2>1. files \in Seq(File)
    BY FileListsAssumption DEF Init, FileListsAssumption
  <2> QED BY <2>1
<1>2. TypeOK
  <2>1. infile \in Stream
    BY DEF Init, Stream
  <2>2. 0 \in 0..Requests /\ 1 \in 1..(Len(files) + 1)
    BY <1>1, RequestsAssumption DEF RequestsAssumption
  <2> QED BY <2>1, <2>2 DEF Init, TypeOK
<1>3. LockInv
  BY ThreadsAssumption DEF Init, LockInv, ThreadsAssumption
<1>4. StreamInv
  BY <1>2, HitFacts DEF Init, StreamInv, Reading
<1>5. HandInv
  BY DEF Init, HandInv
<1>6. Consumed = {}
  BY <1>2, HitFacts DEF Init, Consumed, Reading
<1>7. \A t \in Threads : Held(t) = {}
  BY <1>2, NoLineIsNoHit DEF Init, Held
<1>8. EachHitOnce
  BY <1>6, <1>7 DEF Init, EachHitOnce
<1> QED BY <1>2, <1>3, <1>4, <1>5, <1>8 DEF IInv

LEMMA EnterIInv ==
  ASSUME IInv, NEW t \in Threads, Enter(t)
  PROVE  IInv'
<1> USE DEF IInv
<1>1. /\ pc[t] = "call" /\ mutex = NoThread /\ mutex' = t
      /\ pc' = [pc EXCEPT ![t] = "locked"]
      /\ UNCHANGED <<files, line, count, delivered, aborted>>
      /\ Hits' = Hits /\ Lines' = Lines
  BY DEF Enter, Hits, Lines, Kind
<1>2. /\ currFilename' \in 1..(Len(files) + 1)
      /\ infile' \in Stream
      /\ StreamInv'
      /\ Consumed' = Consumed
  <2>1. CASE ~infile.open \/ infile.eof
    BY <2>1, OpenNextFileStep DEF Enter
  <2>2. CASE ~(~infile.open \/ infile.eof)
    BY <2>2, <1>1 DEF Enter, TypeOK, StreamInv, Consumed, Reading
  <2> QED BY <2>1, <2>2
<1>3. TypeOK'
  BY <1>1, <1>2 DEF TypeOK
<1>4. LockInv'
  BY <1>1, ThreadsAssumption DEF LockInv, TypeOK, ThreadsAssumption
<1>5. HandInv'
  <2>1. count[t] < Requests
    BY DEF Enter
  <2> QED BY <1>1, <2>1 DEF HandInv, TypeOK
<1>6. EachHitOnce'
  BY <1>1, <1>2 DEF EachHitOnce, Held
<1> QED BY <1>2, <1>3, <1>4, <1>5, <1>6

LEMMA ReadLineIInv ==
  ASSUME IInv, NEW t \in Threads, ReadLine(t)
  PROVE  IInv'
<1> USE DEF IInv
<1>1. /\ pc[t] = "locked" /\ Good
      /\ line' = [line EXCEPT ![t] = LineRead]
      /\ infile' = StreamAfterRead
      /\ mutex' = NoThread
      /\ pc' = [pc EXCEPT ![t] = "read"]
      /\ UNCHANGED <<files, currFilename, count, delivered, aborted>>
      /\ Hits' = Hits /\ Lines' = Lines
  BY DEF ReadLine, Hits, Lines, Kind
<1>2. /\ infile' \in Stream
      /\ StreamInv'
      /\ LineRead = NoLine \/ (LineRead \in Lines /\ files[LineRead[1]].opens)
      /\ LineRead \notin Consumed
      /\ LineRead \in Hits => \A h \in Consumed : BeforeHit(h, LineRead)
      /\ Consumed' = Consumed \cup ({LineRead} \cap Hits)
  BY <1>1, ReadStep
<1>3. LineRead = NoLine \/ LineRead \in Positions
  BY <1>2, LineFacts
<1>4. TypeOK'
  BY <1>1, <1>2, <1>3 DEF TypeOK
<1>5. LockInv'
  BY <1>1, ThreadsAssumption DEF LockInv, TypeOK, ThreadsAssumption
<1>6. line[t] = NoLine
  BY <1>1 DEF HandInv
<1>7. \A h \in delivered[t] : LineRead # NoLine => BeforeHit(h, LineRead)
  <2> SUFFICES ASSUME NEW h \in delivered[t], LineRead # NoLine
               PROVE  BeforeHit(h, LineRead)
    OBVIOUS
  <2>1. h \in Consumed
    BY OwnedIsConsumed
  <2>2. LineRead \in Lines
    BY <1>2
  <2>3. /\ infile.pos < LinesHere
        /\ LineRead = <<Reading, infile.pos + 1>>
    BY DEF LineRead
  <2>4. infile.pos \in Nat
    BY DEF TypeOK, Stream
  <2>5. h \in Hits /\ (h[1] < Reading \/ (h[1] = Reading /\ h[2] <= infile.pos))
    BY <2>1 DEF Consumed
  <2>6. h[2] \in Nat
    BY <2>5, HitFacts, FilesType
  <2> QED BY <2>3, <2>4, <2>5, <2>6 DEF BeforeHit
<1>8. HandInv'
  <2> SUFFICES ASSUME NEW u \in Threads
               PROVE  /\ pc'[u] \in {"locked", "read", "split"} => count'[u] < Requests
                      /\ line'[u] # NoLine => /\ pc'[u] \in {"read", "split"}
                                              /\ line'[u] \in Lines'
                                              /\ files'[line'[u][1]].opens
                                              /\ \A h \in delivered'[u] : BeforeHit(h, line'[u])
    BY DEF HandInv
  <2>1. CASE u = t
    BY <2>1, <1>1, <1>2, <1>7 DEF HandInv, TypeOK
  <2>2. CASE u # t
    BY <2>2, <1>1 DEF HandInv, TypeOK
  <2> QED BY <2>1, <2>2
<1>9. \A u \in Threads : Held(u)' = IF u = t THEN Held(t) \cup ({LineRead} \cap Hits)
                                             ELSE Held(u)
  BY <1>1, <1>6, NoLineIsNoHit DEF Held, TypeOK
<1>10. EachHitOnce'
  <2>1. \A u \in Threads : LineRead \notin Held(u) /\ LineRead \notin delivered[u]
    BY <1>2, OwnedIsConsumed
  <2>2. Consumed' = UNION {Held(u)' : u \in Threads}
    BY <1>2, <1>9 DEF EachHitOnce
  <2>3. \A u, v \in Threads : u # v => Held(u)' \cap Held(v)' = {}
    BY <1>9, <2>1 DEF EachHitOnce
  <2>4. \A u \in Threads : line'[u] \notin delivered'[u]
    BY <1>1, <2>1 DEF EachHitOnce, TypeOK
  <2> QED BY <2>2, <2>3, <2>4 DEF EachHitOnce
<1> QED BY <1>2, <1>4, <1>5, <1>8, <1>10

\* RunOut, Finish and Abort: nothing in hand, or nothing changes hands.
LEMMA LeavingIInv ==
  ASSUME IInv, NEW t \in Threads, RunOut(t) \/ Finish(t) \/ Abort(t)
  PROVE  IInv'
<1> USE DEF IInv
<1>1. /\ UNCHANGED <<files, currFilename, infile, line, count, delivered>>
      /\ Hits' = Hits /\ Lines' = Lines
  BY DEF RunOut, Finish, Abort, Hits, Lines, Kind
<1>2. /\ mutex' \in Threads \cup {NoThread}
      /\ aborted' \in BOOLEAN
      /\ pc' \in [Threads -> {"call", "locked", "read", "split", "ranout", "done"}]
  BY DEF RunOut, Finish, Abort, TypeOK
<1>3. TypeOK'
  BY <1>1, <1>2 DEF TypeOK
<1>4. LockInv'
  BY ThreadsAssumption DEF RunOut, Finish, Abort, LockInv, TypeOK, ThreadsAssumption
<1>5. StreamInv'
  BY <1>1 DEF StreamInv, Reading
<1>6. HandInv'
  BY <1>1 DEF RunOut, Finish, Abort, HandInv, TypeOK
<1>7. EachHitOnce'
  BY <1>1, SameHoldings DEF EachHitOnce, Held
<1> QED BY <1>3, <1>4, <1>5, <1>6, <1>7

\* CheckEof and Skip: a line is dropped only if it is no hit.
LEMMA DropIInv ==
  ASSUME IInv, NEW t \in Threads, CheckEof(t) \/ Skip(t)
  PROVE  IInv'
<1> USE DEF IInv
<1>1. /\ UNCHANGED <<files, currFilename, infile, mutex, count, delivered, aborted>>
      /\ Hits' = Hits /\ Lines' = Lines
      /\ pc[t] \in {"read", "split"}
  BY SMTT(40) DEF CheckEof, Skip, Hits, Lines, Kind
<1>2. \/ /\ pc' = [pc EXCEPT ![t] = "split"] /\ line' = line
      \/ /\ pc' = [pc EXCEPT ![t] = "call"]
         /\ line' = [line EXCEPT ![t] = NoLine]
         /\ Kind(line[t]) # "hit"
  BY DEF CheckEof, Skip
<1>3. TypeOK'
  BY <1>1, <1>2 DEF TypeOK
<1>4. LockInv'
  BY <1>1, <1>2 DEF LockInv, TypeOK
<1>5. StreamInv'
  BY <1>1 DEF StreamInv, Reading
<1>6. HandInv'
  BY <1>1, <1>2 DEF HandInv, TypeOK
<1>7. \A u \in Threads : Held(u)' = Held(u)
  <2>1. \A at \in Hits : Kind(at) = "hit"
    BY HitFacts
  <2> QED BY <1>1, <1>2, <2>1, NoLineIsNoHit DEF Held, TypeOK
<1>8. \A u \in Threads : line'[u] \notin delivered'[u]
  <2>1. \A u \in Threads : NoLine \notin delivered[u]
    BY NoLineIsNoHit DEF TypeOK
  <2> QED BY <1>1, <1>2, <2>1 DEF EachHitOnce, TypeOK
<1>9. EachHitOnce'
  BY <1>1, <1>7, <1>8, SameHoldings DEF EachHitOnce
<1> QED BY <1>3, <1>4, <1>5, <1>6, <1>9

LEMMA DeliverIInv ==
  ASSUME IInv, NEW t \in Threads, Deliver(t)
  PROVE  IInv'
<1> USE DEF IInv
<1>1. /\ UNCHANGED <<files, currFilename, infile, mutex, aborted>>
      /\ Hits' = Hits /\ Lines' = Lines
      /\ pc[t] = "split" /\ Kind(line[t]) = "hit"
      /\ delivered' = [delivered EXCEPT ![t] = @ \cup {line[t]}]
      /\ count' = [count EXCEPT ![t] = @ + 1]
      /\ line' = [line EXCEPT ![t] = NoLine]
      /\ pc' = [pc EXCEPT ![t] = "call"]
  BY DEF Deliver, Hits, Lines, Kind
<1>2. line[t] \in Hits
  <2>1. line[t] # NoLine
    BY <1>1 DEF Kind
  <2> QED BY <2>1, <1>1 DEF HandInv, Hits
<1>3. TypeOK'
  <2>1. count' \in [Threads -> 0..Requests]
    BY <1>1, RequestsAssumption DEF HandInv, TypeOK, RequestsAssumption
  <2>2. delivered' \in [Threads -> SUBSET Hits']
    BY <1>1, <1>2 DEF TypeOK
  <2> QED BY <1>1, <2>1, <2>2 DEF TypeOK
<1>4. LockInv'
  BY <1>1 DEF LockInv, TypeOK
<1>5. StreamInv'
  BY <1>1 DEF StreamInv, Reading
<1>6. HandInv'
  BY <1>1 DEF HandInv, TypeOK
<1>7. \A u \in Threads : Held(u)' = Held(u)
  BY <1>1, <1>2, NoLineIsNoHit DEF Held, TypeOK
<1>8. \A u \in Threads : line'[u] \notin delivered'[u]
  <2>1. \A u \in Threads : NoLine \notin delivered'[u]
    BY NoLineIsNoHit, <1>3, <1>1 DEF TypeOK
  <2> QED BY <1>1, <2>1 DEF EachHitOnce, TypeOK
<1>9. EachHitOnce'
  BY <1>1, <1>7, <1>8, SameHoldings DEF EachHitOnce
<1> QED BY <1>3, <1>4, <1>5, <1>6, <1>9

LEMMA StutterIInv == ASSUME IInv, UNCHANGED vars PROVE IInv'
BY SMTT(40) DEF vars, IInv, TypeOK, LockInv, StreamInv, HandInv, EachHitOnce, Held, Consumed,
       Hits, Lines, Kind, Reading

THEOREM NextIInv == IInv /\ [Next]_vars => IInv'
<1> SUFFICES ASSUME IInv, [Next]_vars PROVE IInv'
  OBVIOUS
<1>1. ASSUME NEW t \in Threads, Step(t) PROVE IInv'
  BY <1>1, EnterIInv, ReadLineIInv, LeavingIInv, DropIInv, DeliverIInv DEF Step
<1>2. CASE Terminated
  BY <1>2, StutterIInv DEF Terminated
<1>3. CASE UNCHANGED vars
  BY <1>3, StutterIInv
<1> QED BY <1>1, <1>2, <1>3 DEF Next

THEOREM Invariance == Spec => []IInv
BY InitIInv, NextIInv, PTL DEF Spec

\* Type correctness: the stream never leaves the file list, no thread
\* replays more than its requests.
THEOREM TypeCorrect == Spec => []TypeOK
<1>1. IInv => TypeOK
  BY DEF IInv
<1> QED BY <1>1, Invariance, PTL

\* No hit is lost between the threads and none is given to two of them
\* (NextHit's lock, getline, unlock, test sequence).
THEOREM EachHitOnceAlways == Spec => []EachHitOnce
<1>1. IInv => EachHitOnce
  BY DEF IInv
<1> QED BY <1>1, Invariance, PTL

----------------------------------------------------------------------------
(* Order, and the abstract queue *)

\* A thread is given its hits in the order of the recording, although it
\* parses them without the lock.
THEOREM RecordedOrder == Spec => ThreadsSeeRecordedOrder
<1> DEFINE InOrder == \A t \in Threads : \A old \in delivered[t] :
                        \A new \in delivered'[t] \ delivered[t] : BeforeHit(old, new)
<1>1. IInv /\ [Next]_vars => [InOrder]_vars
  <2> SUFFICES ASSUME IInv, Next PROVE InOrder
    OBVIOUS
  <2>1. ASSUME NEW t \in Threads, Deliver(t) PROVE InOrder
    <3>1. /\ delivered' = [delivered EXCEPT ![t] = @ \cup {line[t]}]
          /\ line[t] # NoLine
      BY <2>1 DEF Deliver, Kind
    <3>2. \A h \in delivered[t] : BeforeHit(h, line[t])
      BY <3>1 DEF IInv, HandInv
    <3> QED BY <3>1, <3>2 DEF IInv, TypeOK
  <2>2. CASE delivered' = delivered
    BY <2>2
  <2>3. delivered' = delivered \/ \E t \in Threads : Deliver(t)
    BY DEF Next, Step, Enter, ReadLine, RunOut, CheckEof, Skip, Abort, Finish,
           Terminated, vars
  <2> QED BY <2>1, <2>2, <2>3
<1>2. Spec => [][InOrder]_vars
  BY <1>1, Invariance, PTL DEF Spec
<1> QED BY <1>2 DEF ThreadsSeeRecordedOrder

\* The locked file reader implements the abstract queue of hits: reading a
\* hit under the lock is Take, every other step leaves the queue alone.
THEOREM Refinement == Spec => ImplementsHitQueue
<1>1. Init => HQ!Init
  <2> SUFFICES ASSUME Init PROVE HQ!Init
    OBVIOUS
  <2>1. TypeOK
    BY InitIInv DEF IInv
  <2>2. Hits \subseteq Nat \X Nat
    BY <2>1, HitFacts, FilesType
  <2>3. \A t \in Threads : Held(t) = {}
    BY <2>1, NoLineIsNoHit DEF Init, Held
  <2> QED BY <2>2, <2>3 DEF HQ!Init
<1>2. IInv /\ [Next]_vars => [HQ!Next]_HQ!qvars
  <2> SUFFICES ASSUME IInv, [Next]_vars PROVE HQ!Next \/ UNCHANGED HQ!qvars
    OBVIOUS
  <2>0. TypeOK /\ Hits' = Hits
    BY DEF IInv, Next, Step, Enter, ReadLine, RunOut, CheckEof, Skip, Deliver, Abort,
           Finish, Terminated, vars, Hits, Lines, Kind
  <2>1. ASSUME NEW t \in Threads, ReadLine(t) PROVE HQ!Next \/ UNCHANGED HQ!qvars
    <3>1. \A u \in Threads : Held(u)' = IF u = t THEN Held(t) \cup ({LineRead} \cap Hits)
                                                 ELSE Held(u)
      <4>1. line[t] = NoLine
        BY <2>1 DEF IInv, HandInv, ReadLine
      <4> QED BY <2>0, <2>1, <4>1, NoLineIsNoHit DEF Held, ReadLine, TypeOK
    <3>2. CASE LineRead \in Hits
      <4>1. /\ LineRead \notin Consumed
            /\ \A h \in Hits \ Consumed : h = LineRead \/ BeforeHit(LineRead, h)
        BY <2>1, <3>2, ReadStep DEF IInv, ReadLine
      <4>2. HQ!Taken = Consumed
        BY DEF HQ!Taken, IInv, EachHitOnce
      <4>3. [u \in Threads |-> Held(u)]' =
              [[u \in Threads |-> Held(u)] EXCEPT ![t] = @ \cup {LineRead}]
        BY <3>1, <3>2
      <4>4. HQ!Take(t)
        BY <2>0, <3>2, <4>1, <4>2, <4>3 DEF HQ!Take, HQ!Before, BeforeHit
      <4> QED BY <4>4 DEF HQ!Next
    <3>3. CASE LineRead \notin Hits
      BY <2>0, <3>1, <3>3 DEF HQ!qvars
    <3> QED BY <3>2, <3>3
  <2>2. CASE \A u \in Threads : Held(u)' = Held(u)
    BY <2>0, <2>2 DEF HQ!qvars
  <2>3. ASSUME NEW t \in Threads, CheckEof(t) \/ Skip(t) \/ Deliver(t)
        PROVE  \A u \in Threads : Held(u)' = Held(u)
    <3>1. \A at \in Hits : Kind(at) = "hit"
      BY <2>0, HitFacts
    <3>2. Deliver(t) => line[t] \in Hits
      BY DEF Deliver, IInv, HandInv, Hits, Kind
    <3> QED BY SMTT(40), <2>0, <2>3, <3>1, <3>2, NoLineIsNoHit
            DEF CheckEof, Skip, Deliver, Held, TypeOK
  <2>4. ASSUME NEW t \in Threads, Enter(t) \/ RunOut(t) \/ Abort(t) \/ Finish(t)
        PROVE  \A u \in Threads : Held(u)' = Held(u)
    BY <2>0, <2>4 DEF Enter, RunOut, Abort, Finish, Held
  <2>5. UNCHANGED vars => \A u \in Threads : Held(u)' = Held(u)
    BY <2>0 DEF vars, Held
  <2> QED BY <2>1, <2>2, <2>3, <2>4, <2>5 DEF Next, Step, Terminated
<1> QED BY <1>1, <1>2, Invariance, PTL DEF Spec, ImplementsHitQueue, HQ!Spec

----------------------------------------------------------------------------
(* One worker is lost per missing file *)

NoReadErrors == \A f \in 1..Len(files) : files[f].ends # "error"

\* Under the lock, an open stream is not at its end; without read errors,
\* one that has failed is.  So only a closed stream sends a worker away.
OpenInv ==
  /\ mutex # NoThread => ~infile.open \/ ~infile.eof
  /\ NoReadErrors => (infile.open /\ infile.fail => infile.eof)

LossInv ==
  NoReadErrors /\ currFilename <= Len(files) =>
    IsFiniteSet(Lost) /\ Cardinality(Lost) = Cardinality(Missing)

LEMMA OpenStep ==
  ASSUME IInv, OpenInv, [Next]_vars
  PROVE  OpenInv'
<1>1. infile \in Stream /\ files' = files /\ NoReadErrors' = NoReadErrors
  BY DEF IInv, TypeOK, Next, Step, Enter, ReadLine, RunOut, CheckEof, Skip, Deliver, Abort,
         Finish, Terminated, vars, NoReadErrors
<1>2. ASSUME NEW t \in Threads, Enter(t) PROVE OpenInv'
  <2>1. CASE infile.open /\ ~infile.eof
    BY <1>1, <1>2, <2>1 DEF Enter, OpenInv
  <2>2. CASE openNextFile
    <3>1. infile'.open => ~infile'.eof /\ ~infile'.fail
      <4>1. \/ infile' = [open |-> TRUE, pos |-> 0, eof |-> FALSE, fail |-> FALSE]
            \/ infile' = [infile EXCEPT !.open = FALSE, !.fail = TRUE]
            \/ infile' = [infile EXCEPT !.open = FALSE]
        BY <2>2 DEF openNextFile
      <4>2. CASE infile' = [open |-> TRUE, pos |-> 0, eof |-> FALSE, fail |-> FALSE]
        BY <4>2
      <4>3. CASE infile' = [infile EXCEPT !.open = FALSE, !.fail = TRUE]
        BY <4>3, <1>1 DEF Stream
      <4>4. CASE infile' = [infile EXCEPT !.open = FALSE]
        BY <4>4, <1>1 DEF Stream
      <4> QED BY <4>1, <4>2, <4>3, <4>4
    <3> QED BY <3>1 DEF OpenInv
  <2> QED BY <1>2, <2>1, <2>2 DEF Enter
<1>3. ASSUME NEW t \in Threads, ReadLine(t) PROVE OpenInv'
  <2>1. mutex' = NoThread /\ infile' = StreamAfterRead /\ Good
    BY <1>3 DEF ReadLine
  <2>2. Reading \in 1..Len(files)
    BY <2>1 DEF Good, IInv, StreamInv
  <2>3. NoReadErrors => (infile'.fail => infile'.eof)
    BY <1>1, <2>1, <2>2 DEF StreamAfterRead, Good, Stream, NoReadErrors
  <2> QED BY <1>1, <2>1, <2>3 DEF OpenInv
<1>4. ASSUME NEW t \in Threads, RunOut(t) PROVE OpenInv'
  BY <1>1, <1>4 DEF RunOut, OpenInv
<1>5. CASE UNCHANGED <<infile, mutex>>
  BY <1>1, <1>5 DEF OpenInv
<1> QED BY <1>2, <1>3, <1>4, <1>5
        DEF Next, Step, CheckEof, Skip, Deliver, Abort, Finish, Terminated, vars

\* Only the call that steps onto a missing file adds to Lost and to Missing.
LEMMA LossStep ==
  ASSUME IInv, OpenInv, LossInv, [Next]_vars
  PROVE  LossInv'
<1>0. /\ infile \in Stream /\ pc \in [Threads -> {"call", "locked", "read", "split", "ranout", "done"}]
      /\ currFilename \in 1..(Len(files) + 1) /\ Len(files) \in Nat
      /\ \A t \in Threads : pc[t] = "locked" <=> mutex = t
  BY FilesType DEF IInv, TypeOK, LockInv
<1>1. files' = files /\ NoReadErrors' = NoReadErrors
  BY DEF Next, Step, Enter, ReadLine, RunOut, CheckEof, Skip, Deliver, Abort,
         Finish, Terminated, vars, NoReadErrors
<1>2. ASSUME UNCHANGED currFilename, Lost' = Lost PROVE LossInv'
  <2>1. Missing' = Missing
    BY <1>1, <1>2 DEF Missing, Reading
  <2> QED BY <1>1, <1>2, <2>1 DEF LossInv
<1>3. ASSUME NEW t \in Threads, Enter(t) PROVE LossInv'
  <2>1. /\ pc[t] = "call" /\ pc' = [pc EXCEPT ![t] = "locked"]
        /\ \A u \in Threads : pc[u] # "locked"
    BY <1>0, <1>3, ThreadsAssumption DEF Enter, ThreadsAssumption
  <2>2. Lost = {u \in Threads : pc[u] = "ranout"}
    BY <2>1 DEF Lost
  <2>3. Lost' = {u \in Threads : pc'[u] = "ranout" \/ (pc'[u] = "locked" /\ ~infile'.open)}
    BY DEF Lost
  <2>4. Lost' = IF infile'.open THEN Lost ELSE Lost \cup {t}
    BY <2>1, <2>2, <2>3, <1>0
  <2>5. t \notin Lost
    BY <2>1, <2>2
  <2>6. CASE infile.open /\ ~infile.eof
    BY <1>2, <1>3, <2>4, <2>6 DEF Enter
  <2>7. CASE openNextFile /\ currFilename <= Len(files)
    <3>1. /\ currFilename' = currFilename + 1
          /\ infile'.open = files[currFilename].opens
      <4>1. /\ currFilename' = currFilename + 1
            /\ infile' = IF files[currFilename].opens
                         THEN [open |-> TRUE, pos |-> 0, eof |-> FALSE, fail |-> FALSE]
                         ELSE [infile EXCEPT !.open = FALSE, !.fail = TRUE]
        BY <2>7 DEF openNextFile
      <4>2. files[currFilename].opens \in BOOLEAN
        <5>1. currFilename \in 1..Len(files)
          BY <2>7, <1>0
        <5>2. files[currFilename] \in File
          BY <5>1, FilesType DEF IInv
        <5> QED BY <5>2 DEF File
      <4> QED BY <4>1, <4>2, <1>0 DEF Stream
    <3>2. Missing' = IF files[currFilename].opens THEN Missing ELSE Missing \cup {currFilename}
      <4>1. Reading' = currFilename /\ Reading = currFilename - 1
        BY <3>1, <1>0 DEF Reading
      <4>2. 1..currFilename = 1..(currFilename - 1) \cup {currFilename}
        BY <1>0
      <4> QED BY <4>1, <4>2, <1>1 DEF Missing
    <3>3. IsFiniteSet(Missing) /\ currFilename \notin Missing
      <4>1. 1 \in Int /\ currFilename - 1 \in Int /\ currFilename \notin 1..(currFilename - 1)
        BY <1>0
      <4>2. IsFiniteSet(1..(currFilename - 1))
        BY <4>1, FS_Interval
      <4>3. Missing \subseteq 1..(currFilename - 1)
        BY DEF Missing, Reading
      <4> QED BY <4>1, <4>2, <4>3, FS_Subset
    <3> SUFFICES ASSUME NoReadErrors
                 PROVE  IsFiniteSet(Lost') /\ Cardinality(Lost') = Cardinality(Missing')
      BY <1>1 DEF LossInv
    <3>4. IsFiniteSet(Lost) /\ Cardinality(Lost) = Cardinality(Missing)
      BY <2>7 DEF LossInv
    <3>5. CASE files[currFilename].opens
      BY <3>1, <3>2, <3>4, <3>5, <2>4
    <3>6. CASE ~files[currFilename].opens
      <4>1. Lost' = Lost \cup {t} /\ Missing' = Missing \cup {currFilename}
        BY <3>1, <3>2, <3>6, <2>4
      <4>2. IsFiniteSet(Lost \cup {t}) /\ Cardinality(Lost \cup {t}) = Cardinality(Lost) + 1
        BY <3>4, <2>5, FS_AddElement
      <4>3. Cardinality(Missing \cup {currFilename}) = Cardinality(Missing) + 1
        BY <3>3, FS_AddElement
      <4> QED BY <4>1, <4>2, <4>3, <3>4
    <3> QED BY <3>5, <3>6
  <2>8. CASE openNextFile /\ currFilename > Len(files)
    <3>1. currFilename' = currFilename
      BY <2>8, <1>0 DEF openNextFile
    <3> QED BY <3>1, <2>8, <1>0, <1>1 DEF LossInv
  <2> QED BY <1>0, <1>3, <2>6, <2>7, <2>8 DEF Enter
<1>4. ASSUME NEW t \in Threads, ReadLine(t) PROVE LossInv'
  <2>1. /\ pc[t] = "locked" /\ pc' = [pc EXCEPT ![t] = "read"] /\ infile.open
        /\ infile'.open = infile.open
    BY <1>0, <1>4 DEF ReadLine, Good, StreamAfterRead, Stream
  <2>2. Lost' = Lost
    BY <2>1, <1>0 DEF Lost
  <2> QED BY <1>2, <1>4, <2>2 DEF ReadLine
<1>5. ASSUME NEW t \in Threads, RunOut(t) PROVE LossInv'
  <2>1. /\ pc[t] = "locked" /\ pc' = [pc EXCEPT ![t] = "ranout"] /\ ~Good
        /\ UNCHANGED <<infile, currFilename>> /\ mutex = t /\ mutex # NoThread
    BY <1>0, <1>5, ThreadsAssumption DEF RunOut, ThreadsAssumption
  <2>2. CASE NoReadErrors
    <3>1. ~infile.open
      BY <2>1, <2>2 DEF OpenInv, Good
    <3>2. Lost' = Lost
      BY <2>1, <3>1, <1>0 DEF Lost
    <3> QED BY <1>2, <2>1, <3>2
  <2>3. CASE ~NoReadErrors
    BY <2>3, <1>1 DEF LossInv
  <2> QED BY <2>2, <2>3
<1>6. ASSUME NEW t \in Threads, CheckEof(t) \/ Skip(t) \/ Deliver(t) \/ Abort(t) \/ Finish(t)
      PROVE  LossInv'
  <2>1. /\ UNCHANGED <<infile, currFilename>> /\ \A u \in Threads : u # t => pc'[u] = pc[u]
        /\ pc[t] \notin {"locked", "ranout"} /\ pc'[t] \notin {"locked", "ranout"}
    BY <1>0, <1>6 DEF CheckEof, Skip, Deliver, Abort, Finish
  <2>2. Lost' = Lost
    BY <2>1 DEF Lost
  <2> QED BY <1>2, <2>1, <2>2
<1>7. CASE UNCHANGED vars
  <2>1. Lost' = Lost /\ currFilename' = currFilename
    BY <1>7 DEF vars, Lost
  <2> QED BY <1>2, <2>1
<1> QED BY <1>3, <1>4, <1>5, <1>6, <1>7 DEF Next, Step, Terminated

\* OneWorkerLostPerMissingFile: whatever the order of the calls of NextHit,
\* as many workers have got "no more hits" as files could not be opened.
THEOREM OneWorkerLost == Spec => []OneWorkerLostPerMissingFile
<1>1. Init => OpenInv /\ LossInv
  <2> SUFFICES ASSUME Init PROVE OpenInv /\ LossInv
    OBVIOUS
  <2>1. Lost = {} /\ Missing = {}
    BY DEF Init, Lost, Missing, Reading
  <2>2. OpenInv
    BY DEF Init, OpenInv
  <2> QED BY <2>1, <2>2, FS_EmptySet DEF LossInv
<1>2. IInv /\ OpenInv /\ LossInv /\ [Next]_vars => OpenInv' /\ LossInv'
  BY OpenStep, LossStep
<1>3. LossInv => OneWorkerLostPerMissingFile
  BY DEF LossInv, OneWorkerLostPerMissingFile, NoReadErrors
<1> QED BY <1>1, <1>2, <1>3, Invariance, PTL DEF Spec
=============================================================================
