------------------------------- MODULE DayStore -------------------------------
(***************************************************************************)
(* The day store: the batch that converts archives to day files            *)
(* (examples/convert.cpp over write_vfday) and the program that replays    *)
(* them (VfdaySource and VfdaySession), sharing a directory.  The batch    *)
(* can be killed anywhere, a disk can refuse bytes or damage them, and the *)
(* reader may have a day open while the batch writes it again.             *)
(*                                                                         *)
(* Archives are numbered in the order the batch takes them.  A day file is *)
(* known by the archive it was made from, by how many of its parts have    *)
(* reached the disk, and by the parts damaged since.  A part's checksum    *)
(* tells the parts of different archives apart: collisions are left out.   *)
(* Files have identities apart from their names, as a stream keeps reading *)
(* the file it opened when its name is removed.                            *)
(***************************************************************************)
EXTENDS Integers, Sequences, FiniteSets

CONSTANTS
  DateOf,      \* for each archive, the date of the day it holds
  Blobs,       \* number of instruments in a day, each with a blob
  MaxRuns,     \* bound: runs of the batch
  MaxScans,    \* bound: readers constructed
  MaxDamage    \* bound: parts damaged

Archives == DOMAIN DateOf
Days     == {DateOf[a] : a \in Archives}

ASSUME StoreAssumption ==
  /\ DateOf \in Seq(Nat) /\ DateOf # <<>>
  /\ Blobs \in Nat
  /\ {MaxRuns, MaxScans, MaxDamage} \subseteq Nat

\* The parts of a file in the order they are put.
Header    == 1
Blob(b)   == 1 + b
Table     == Blobs + 2
Strings   == Blobs + 3
Timeline  == Blobs + 4
Directory == Blobs + 5
Whole     == Blobs + 5
Parts     == 1 .. Whole

\* The parts open reads, in its order; blobs wait for their first use.
ReadOrder == <<Header, Table, Strings, Directory, Timeline>>

File == [of : Archives, written : 0 .. Whole, damaged : SUBSET Parts]

VARIABLES
  files,      \* every file there has been
  path,       \* path[d]: the file that has day d's name, 0 if none
  run,        \* the batch
  runs,       \* number of runs started
  scan,       \* the reader's scan of the directory
  sessions,   \* sessions[d]: the day as the reader has it open
  abandoned,  \* history: days whose file a kill, or a failed removal, left behind
  found,      \* history: days on disk when the run started, none if it was forced
  damage      \* number of parts damaged

store  == <<files, path, damage>>
batch  == <<run, runs, abandoned, found>>
reader == <<scan, sessions>>
vars   == <<files, path, run, runs, scan, sessions, abandoned, found, damage>>

Exists(d) == path[d] # 0
FileAt(d) == files[path[d]]
HalfWritten(d) == Exists(d) /\ FileAt(d).written < Whole

-----------------------------------------------------------------------------
(* The batch.                                                               *)

Phases == {"none", "load", "write", "verify", "caught", "killed", "done"}
Idle   == {"none", "killed", "done"}
Run    == [phase : Phases, at : Archives, force : BOOLEAN, verify : BOOLEAN, failed : BOOLEAN]

Archive == run.at
Day     == DateOf[Archive]

\* On to the next archive, the run over after the last; the exit status says whether one failed.
Advanced(failed) ==
  [run EXCEPT !.phase  = IF run.at = Len(DateOf) THEN "done" ELSE "load",
              !.at     = IF run.at = Len(DateOf) THEN run.at ELSE run.at + 1,
              !.failed = @ \/ failed]

StartRun ==
  /\ run.phase \in Idle
  /\ runs < MaxRuns
  /\ \E force, verify \in BOOLEAN :
       /\ run' = [phase |-> "load", at |-> 1, force |-> force, verify |-> verify, failed |-> FALSE]
       /\ found' = IF force THEN {} ELSE {d \in Days : Exists(d)}
  /\ runs' = runs + 1
  /\ UNCHANGED <<abandoned, store, reader>>

\* The archive cannot be read, or has no rows.
LoadFails ==
  /\ run.phase = "load"
  /\ run' = Advanced(TRUE)
  /\ UNCHANGED <<runs, abandoned, found, store, reader>>

Skips_Bug(d) == FALSE
SkipsForced_Bug(d) == Exists(d)

Skips(d) == ~run.force /\ Exists(d)

SkipExisting ==
  /\ run.phase = "load"
  /\ Skips(Day)
  /\ run' = Advanced(FALSE)
  /\ UNCHANGED <<runs, abandoned, found, store, reader>>

\* The name is opened for writing and what it named is truncated.
Truncate ==
  LET empty == [of |-> Archive, written |-> 0, damaged |-> {}]
  IN  /\ run.phase = "load"
      /\ ~Skips(Day)
      /\ IF Exists(Day)
         THEN /\ files' = [files EXCEPT ![path[Day]] = empty]
              /\ UNCHANGED path
         ELSE /\ files' = Append(files, empty)
              /\ path'  = [path EXCEPT ![Day] = Len(files) + 1]
      /\ run' = [run EXCEPT !.phase = "write"]
      /\ abandoned' = abandoned \ {Day}
      /\ UNCHANGED <<runs, found, damage, reader>>

CannotOpen ==
  /\ run.phase = "load"
  /\ ~Skips(Day)
  /\ run' = [run EXCEPT !.phase = "caught"]
  /\ UNCHANGED <<runs, abandoned, found, store, reader>>

\* What is put reaches the disk in order.
PutPart ==
  /\ run.phase = "write"
  /\ FileAt(Day).written < Whole
  /\ files' = [files EXCEPT ![path[Day]].written = @ + 1]
  /\ UNCHANGED <<path, damage, batch, reader>>

\* The disk takes no more; seen at the flush.
WriteFails ==
  /\ run.phase = "write"
  /\ FileAt(Day).written < Whole
  /\ run' = [run EXCEPT !.phase = "caught"]
  /\ UNCHANGED <<runs, abandoned, found, store, reader>>

\* What comes of an archive whose day is written.  The archive's size is asked for
\* outside the try: a directory of CSVs has none, nor has an archive gone meanwhile,
\* and the exception ends the run like a kill.
Succeeded == {Advanced(FALSE), [run EXCEPT !.phase = "killed"]}

CloseFile ==
  /\ run.phase = "write"
  /\ FileAt(Day).written = Whole
  /\ run' \in IF run.verify THEN {[run EXCEPT !.phase = "verify"]} ELSE Succeeded
  /\ UNCHANGED <<runs, abandoned, found, store, reader>>

\* The file is opened, decoded in full and compared with the archive.
Verify ==
  /\ run.phase = "verify"
  /\ run' \in IF FileAt(Day).damaged = {} THEN Succeeded ELSE {[run EXCEPT !.phase = "caught"]}
  /\ UNCHANGED <<runs, abandoned, found, store, reader>>

Removed_Bug(d) == path

Removed(d) == [path EXCEPT ![d] = 0]

\* The handler: the name is removed, and a removal that fails is not noticed.
Caught_Bug ==
  /\ run.phase = "caught"
  /\ run' = Advanced(FALSE)
  /\ path' = Removed(Day)
  /\ abandoned' = abandoned \ {Day}
  /\ UNCHANGED <<files, damage, runs, found, reader>>

Caught ==
  /\ run.phase = "caught"
  /\ run' = Advanced(TRUE)
  /\ \/ /\ path' = Removed(Day)
        /\ abandoned' = abandoned \ {Day}
     \/ /\ abandoned' = IF HalfWritten(Day) THEN abandoned \cup {Day} ELSE abandoned
        /\ UNCHANGED path
  /\ UNCHANGED <<files, damage, runs, found, reader>>

\* External: the process is killed.
Kill ==
  /\ run.phase \notin Idle
  /\ run' = [run EXCEPT !.phase = "killed"]
  /\ abandoned' = IF HalfWritten(Day) THEN abandoned \cup {Day} ELSE abandoned
  /\ UNCHANGED <<runs, found, store, reader>>

\* External: bytes on the disk change.
Damage ==
  /\ damage < MaxDamage
  /\ \E f \in DOMAIN files : \E p \in (1 .. files[f].written) \ files[f].damaged :
       files' = [files EXCEPT ![f].damaged = @ \cup {p}]
  /\ damage' = damage + 1
  /\ UNCHANGED <<path, batch, reader>>

-----------------------------------------------------------------------------
(* The reader.  A stream is the file it reads, 0 before it is opened.       *)

NoSession == [header |-> 0, from |-> {}, stream |-> 0, bad |-> FALSE, blobs |-> [b \in 1 .. Blobs |-> 0]]
NotOpening == [day |-> 0, size |-> 0, stream |-> 0, header |-> 0, from |-> {}, next |-> 1]

Opening == [day : Nat, size : 0 .. Whole, stream : Nat, header : Archives \cup {0},
            from : SUBSET Int, next : DOMAIN ReadOrder]
Session == [header : Archives \cup {0}, from : SUBSET Int, stream : Nat, bad : BOOLEAN,
            blobs : [1 .. Blobs -> Int]]

Present(f, p) == f.written >= p

\* What the bytes of part p are: an archive's, or damaged.
Garbage == -1
Content(f, p) == IF p \in f.damaged THEN Garbage ELSE f.of

ChecksumHolds_Bug(f, p, header) == TRUE

\* The checksum of part p, which the file the header is from recorded.
ChecksumHolds(f, p, header) == Content(f, p) = header

\* VfdaySource's constructor: the day files there are, then each of them opened.
Scan ==
  /\ scan.scans < MaxScans
  /\ scan' = [scans |-> scan.scans + 1, listing |-> {d \in Days : Exists(d)}, opening |-> NotOpening]
  /\ sessions' = [d \in Days |-> NoSession]
  /\ UNCHANGED <<store, batch>>

Dropped == [scan EXCEPT !.opening = NotOpening, !.listing = @ \ {scan.opening.day}]

\* The size is asked for before anything is read.
OpenDay ==
  /\ scan.opening = NotOpening
  /\ \E d \in scan.listing :
       /\ \A e \in scan.listing : d <= e
       /\ scan' = IF Exists(d)
                    THEN [scan EXCEPT !.opening =
                            [NotOpening EXCEPT !.day = d, !.size = FileAt(d).written, !.stream = path[d]]]
                    ELSE [scan EXCEPT !.listing = @ \ {d}]
  /\ UNCHANGED <<store, batch, sessions>>

\* One part is read and checked; the last one completes the session.
ReadPart ==
  LET o == scan.opening
      p == ReadOrder[o.next]
      f == files[o.stream]
      header == IF p = Header THEN f.of ELSE o.header
      ok     == /\ Present(f, p) /\ ChecksumHolds(f, p, header)
                /\ p = Header => o.size = Whole
      from   == o.from \cup {Content(f, p)}
  IN  /\ o # NotOpening
      /\ scan' = IF ok /\ o.next < Len(ReadOrder)
                   THEN [scan EXCEPT !.opening =
                           [o EXCEPT !.header = header, !.from = from, !.next = @ + 1]]
                   ELSE Dropped
      /\ sessions' = IF ok /\ o.next = Len(ReadOrder)
                     THEN [sessions EXCEPT ![o.day] = [NoSession EXCEPT !.header = header, !.from = from]]
                     ELSE sessions
      /\ UNCHANGED <<store, batch>>

\* materialise: the first use of an instrument.  The stream is opened once and
\* kept; a short read leaves it failed, and every later read of it fails.
Use ==
  /\ scan.opening = NotOpening /\ scan.listing = {}
  /\ \E d \in Days, b \in 1 .. Blobs :
       LET s      == sessions[d]
           stream == IF s.stream = 0 THEN path[d] ELSE s.stream
           f      == files[stream]
           short  == s.bad \/ ~Present(f, Blob(b))
       IN  /\ s.header # 0 /\ s.blobs[b] = 0
           /\ stream # 0
           /\ sessions' =
                [sessions EXCEPT ![d] =
                   [s EXCEPT !.stream = stream,
                             !.bad = short,
                             !.blobs[b] = IF ~short /\ ChecksumHolds(f, Blob(b), s.header)
                                            THEN Content(f, Blob(b)) ELSE 0]]
  /\ UNCHANGED <<store, batch, scan>>

-----------------------------------------------------------------------------

Init ==
  /\ files = <<>>
  /\ path = [d \in Days |-> 0]
  /\ run = [phase |-> "none", at |-> 1, force |-> FALSE, verify |-> FALSE, failed |-> FALSE]
  /\ runs = 0
  /\ scan = [scans |-> 0, listing |-> {}, opening |-> NotOpening]
  /\ sessions = [d \in Days |-> NoSession]
  /\ abandoned = {} /\ found = {}
  /\ damage = 0

Batch ==
  \/ StartRun \/ LoadFails \/ SkipExisting \/ Truncate \/ CannotOpen
  \/ PutPart \/ WriteFails \/ CloseFile \/ Verify \/ Caught

Reader == Scan \/ OpenDay \/ ReadPart \/ Use

Next == Batch \/ Reader \/ Kill \/ Damage

Spec == Init /\ [][Next]_vars

-----------------------------------------------------------------------------
(* Properties.                                                              *)

TypeOK ==
  /\ files \in Seq(File)
  /\ path \in [Days -> 0 .. Len(files)]
  /\ run \in Run
  /\ runs \in 0 .. MaxRuns
  /\ scan \in [scans : 0 .. MaxScans, listing : SUBSET Days, opening : Opening]
  /\ scan.opening # NotOpening =>
       /\ scan.opening.day \in scan.listing
       /\ scan.opening.stream \in DOMAIN files
  /\ sessions \in [Days -> Session]
  /\ \A d \in Days : sessions[d].stream <= Len(files)
  /\ abandoned \subseteq Days /\ found \subseteq Days
  /\ damage \in 0 .. MaxDamage

\* Everything a session is made of, and every instrument it ever serves, comes
\* undamaged from the one archive its header is of: whether the day was written
\* again, removed or damaged between open's reads, or between open and the first
\* use, the reader refuses or serves the day it opened, never a mixture.
ServedAsOpened ==
  \A d \in Days :
    sessions[d].header # 0 =>
      sessions[d].from \cup {sessions[d].blobs[b] : b \in 1 .. Blobs} \subseteq {0, sessions[d].header}

\* A file that is not whole is the one being written, or was left by a killed
\* run or a removal that failed: an error on the way never leaves half a day.
HalfDaysWereAbandoned ==
  \A d \in Days :
    HalfWritten(d) => d \in abandoned \/ (run.phase \in {"write", "caught"} /\ d = Day)

\* A run that reports no failure leaves every day of its archives on disk, and
\* whole unless an earlier run was cut off inside it.
CleanRunLeavesDays ==
  run.phase = "done" /\ ~run.failed =>
    \A d \in Days : Exists(d) /\ (HalfWritten(d) => d \in abandoned)

\* Forced, it leaves them whole whatever was there, each from the last of the
\* archives that hold it.
ForcedRunRepairs ==
  run.phase = "done" /\ ~run.failed /\ run.force =>
    \A d \in Days :
      /\ Exists(d)
      /\ FileAt(d).written = Whole
      /\ \A a \in Archives : DateOf[a] = d => a <= FileAt(d).of

\* Unless forced, a run leaves every day it found as it was, from its start to its
\* end: not written again, whatever archives hold it, and not removed by the handler
\* of another one's failure.
UnforcedRunKeepsDays ==
  [][run.phase \notin Idle => \A d \in found :
       /\ path'[d] = path[d]
       /\ files'[path[d]].of = FileAt(d).of
       /\ files'[path[d]].written = FileAt(d).written]_vars

\* convert.cpp: "Conversion is resumable ... an interrupted run picks up where
\* it stopped": after a run without failures every day is whole.
Resumable ==
  run.phase = "done" /\ ~run.failed => \A d \in Days : Exists(d) /\ ~HalfWritten(d)
=============================================================================
