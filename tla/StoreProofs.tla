----------------------------- MODULE StoreProofs -----------------------------
(***************************************************************************)
(* Theorems of the day store, for any archives, any number of instruments  *)
(* and of runs, readers and damaged parts: types, what a reader serves,    *)
(* which days a batch leaves half written, and what a clean run has done.  *)
(* And of the codec its columns go through, for any sizes of word, byte    *)
(* and block: a column comes back as it went in.                           *)
(***************************************************************************)
EXTENDS DayStore, Codec, FiniteLemmas

\* What makes TypeOK inductive: the day being written has a file.
Typed ==
  /\ TypeOK
  /\ run.phase = "write" => Exists(Day)

-----------------------------------------------------------------------------
(* Facts about the constants and the batch's steps.                         *)

\* The first archive and the day of each.
LEMMA ArchiveFacts ==
  /\ Len(DateOf) \in Nat \ {0} /\ Archives = 1 .. Len(DateOf)
  /\ \A a \in Archives : DateOf[a] \in Days
  /\ Days \subseteq Nat
  /\ DOMAIN ReadOrder = 1 .. 5 /\ Len(ReadOrder) = 5
  /\ Blobs \in Nat /\ Whole \in Nat /\ Whole = Blobs + 5
BY StoreAssumption DEF Archives, Days, Whole, ReadOrder

\* Changes of single fields keep the batch's state well typed.
LEMMA RunChanges ==
  ASSUME NEW r \in Run, NEW p \in Phases, NEW a \in Archives, NEW f \in BOOLEAN
  PROVE  /\ [r EXCEPT !.phase = p] \in Run
         /\ [r EXCEPT !.phase = p, !.at = a, !.failed = f] \in Run
BY DEF Run

\* Advanced, which closes every turn of convert.cpp's loop: the next archive or
\* the end.
LEMMA AdvancedTyped ==
  ASSUME NEW failed \in BOOLEAN, run \in Run
  PROVE  /\ Advanced(failed) \in Run
         /\ Advanced(failed).phase \in {"load", "done"}
<1> DEFINE p == IF run.at = Len(DateOf) THEN "done" ELSE "load"
           a == IF run.at = Len(DateOf) THEN run.at ELSE run.at + 1
<1>1. p \in Phases /\ p \in {"load", "done"} /\ a \in Archives
  BY ArchiveFacts DEF Run, Phases
<1>2. (run.failed \/ failed) \in BOOLEAN
  OBVIOUS
<1>3. Advanced(failed) = [run EXCEPT !.phase = p, !.at = a, !.failed = run.failed \/ failed]
  BY Zenon DEF Advanced
<1>4. [run EXCEPT !.phase = p, !.at = a, !.failed = run.failed \/ failed] \in Run
  <2> HIDE DEF p, a
  <2> QED BY <1>1, <1>2, RunChanges
<1>5. Advanced(failed).phase = p
  BY <1>3 DEF Run
<1> QED
  BY <1>1, <1>3, <1>4, <1>5

\* A sequence with one element replaced, or one more.
LEMMA Replaced ==
  ASSUME NEW S, NEW s \in Seq(S), NEW x \in S
  PROVE  /\ \A i \in DOMAIN s : /\ [s EXCEPT ![i] = x] \in Seq(S)
                                /\ Len([s EXCEPT ![i] = x]) = Len(s)
         /\ Append(s, x) \in Seq(S) /\ Len(Append(s, x)) = Len(s) + 1
OBVIOUS

\* A file with one part more, or one damaged, is a file.
LEMMA FileChanges ==
  ASSUME NEW f \in File
  PROVE  /\ f.written < Whole => [f EXCEPT !.written = @ + 1] \in File
         /\ \A p \in Parts : [f EXCEPT !.damaged = @ \cup {p}] \in File
BY ArchiveFacts DEF File, Parts

-----------------------------------------------------------------------------
(* Types.                                                                   *)

\* What a typed state says of the batch and its day.
LEMMA BatchFacts ==
  ASSUME Typed
  PROVE  /\ run \in Run /\ Archive \in Archives /\ Day \in Days
         /\ files \in Seq(File) /\ Len(files) \in Nat /\ DOMAIN files = 1 .. Len(files)
         /\ path \in [Days -> 0 .. Len(files)]
         /\ abandoned \subseteq Days /\ found \subseteq Days
         /\ runs \in 0 .. MaxRuns /\ MaxRuns \in Nat /\ damage \in 0 .. MaxDamage /\ MaxDamage \in Nat
<1>1. run \in Run /\ files \in Seq(File)
  BY DEF Typed, TypeOK
<1>2. Archive \in Archives
  BY <1>1 DEF Archive, Run
<1>3. Day \in Days
  BY <1>2, ArchiveFacts DEF Day
<1> QED
  BY <1>1, <1>2, <1>3, StoreAssumption DEF Typed, TypeOK

\* No file, no run, no reader.
LEMMA InitTyped == Init => Typed
<1>1. SUFFICES ASSUME Init PROVE Typed
  OBVIOUS
<1>2. NotOpening \in Opening /\ NoSession \in Session
  BY ArchiveFacts DEF NotOpening, NoSession, Opening, Session
<1>3. run \in Run
  BY <1>1, ArchiveFacts DEF Init, Phases, Run
<1>4. \A d \in Days : sessions[d].stream = 0
  BY <1>1 DEF Init, NoSession
<1> QED
  BY <1>1, <1>2, <1>3, <1>4, ArchiveFacts, StoreAssumption DEF Init, Typed, TypeOK, File, Run

\* Batch steps that touch no file.
LEMMA BatchTyped ==
  Typed /\ (StartRun \/ LoadFails \/ SkipExisting \/ CannotOpen \/ WriteFails
              \/ CloseFile \/ Verify \/ Kill) => Typed'
<1> USE DEF store, reader
<1>1. SUFFICES ASSUME Typed,
                      StartRun \/ LoadFails \/ SkipExisting \/ CannotOpen \/ WriteFails
                        \/ CloseFile \/ Verify \/ Kill
               PROVE Typed'
  OBVIOUS
<1>2. UNCHANGED <<files, path, damage, scan, sessions>>
  BY <1>1 DEF StartRun, LoadFails, SkipExisting, CannotOpen, WriteFails, CloseFile, Verify, Kill
<1>3. abandoned' \in {abandoned, abandoned \cup {Day}}
  BY <1>1 DEF StartRun, LoadFails, SkipExisting, CannotOpen, WriteFails, CloseFile, Verify, Kill
<1>4. abandoned' \subseteq Days
  BY <1>1, <1>3, BatchFacts
<1>0. found' \subseteq Days
  BY <1>1, BatchFacts DEF StartRun, LoadFails, SkipExisting, CannotOpen, WriteFails, CloseFile, Verify, Kill
<1>5. runs' \in 0 .. MaxRuns
  <2>1. runs' = runs \/ (runs < MaxRuns /\ runs' = runs + 1)
    BY <1>1 DEF StartRun, LoadFails, SkipExisting, CannotOpen, WriteFails, CloseFile, Verify, Kill
  <2> QED
    BY <1>1, <2>1, BatchFacts
<1>6. /\ run' \in Run
      /\ run'.phase # "write"
  <2>0. run \in Run
    BY <1>1 DEF Typed, TypeOK
  <2>1. \A failed \in BOOLEAN : Advanced(failed) \in Run /\ Advanced(failed).phase # "write"
    BY <2>0, AdvancedTyped
  <2>2. \A p \in {"verify", "caught", "killed"} :
          [run EXCEPT !.phase = p] \in Run /\ [run EXCEPT !.phase = p].phase # "write"
    BY <2>0 DEF Run, Phases
  <2>3. CASE StartRun
    <3>1. PICK force \in BOOLEAN, verify \in BOOLEAN :
            run' = [phase |-> "load", at |-> 1, force |-> force, verify |-> verify, failed |-> FALSE]
      BY <2>3 DEF StartRun
    <3>2. 1 \in Archives
      BY ArchiveFacts
    <3> QED
      BY <3>1, <3>2 DEF Run, Phases
  <2>4. CASE LoadFails \/ SkipExisting
    BY <2>1, <2>4 DEF LoadFails, SkipExisting
  <2>5. CASE CannotOpen \/ WriteFails \/ Kill
    BY <2>2, <2>5 DEF CannotOpen, WriteFails, Kill
  <2>6. CASE CloseFile \/ Verify
    BY <2>1, <2>2, <2>6 DEF CloseFile, Verify, Succeeded
  <2> QED
    BY <1>1, <2>3, <2>4, <2>5, <2>6
<1> QED
  BY <1>0, <1>1, <1>2, <1>4, <1>5, <1>6 DEF Typed, TypeOK, Exists, Day, Archive

\* Truncate keeps the types: there is a file, named by the day.
LEMMA TruncateTyped == Typed /\ Truncate => Typed'
<1> USE DEF store, reader
<1>1. SUFFICES ASSUME Typed, Truncate PROVE Typed'
  OBVIOUS
<1> DEFINE empty == [of |-> Archive, written |-> 0, damaged |-> {}]
<1>2. empty \in File /\ Archive \in Archives /\ Day \in Days
  BY <1>1, BatchFacts, ArchiveFacts DEF File
<1>3. /\ files' \in Seq(File)
      /\ Len(files') >= Len(files)
      /\ path' \in [Days -> 0 .. Len(files')]
      /\ path'[Day] # 0
  <2>1. CASE Exists(Day)
    <3>1. path[Day] \in DOMAIN files
      BY <1>1, <1>2, <2>1, BatchFacts DEF Exists
    <3>2. files' = [files EXCEPT ![path[Day]] = empty] /\ path' = path
      BY <1>1, <2>1 DEF Truncate
    <3> HIDE DEF empty
    <3>3. files' \in Seq(File) /\ Len(files') = Len(files)
      BY <1>1, <1>2, <3>1, <3>2, Replaced, BatchFacts
    <3> QED
      BY <1>1, <2>1, <3>2, <3>3, BatchFacts DEF Exists
  <2>2. CASE ~Exists(Day)
    <3>1. files' = Append(files, empty) /\ path' = [path EXCEPT ![Day] = Len(files) + 1]
      BY <1>1, <2>2 DEF Truncate
    <3> HIDE DEF empty
    <3>2. files' \in Seq(File) /\ Len(files') = Len(files) + 1
      BY <1>1, <1>2, <3>1, Replaced, BatchFacts
    <3> QED
      BY <1>1, <1>2, <3>1, <3>2, BatchFacts
  <2> QED
    BY <2>1, <2>2
<1>4. /\ run' \in Run
      /\ run'.at = run.at
  BY <1>1, BatchFacts DEF Truncate, Run, Phases
<1>5. Day' = Day
  BY <1>4 DEF Day, Archive
<1>6. UNCHANGED <<runs, found, damage, scan, sessions>> /\ abandoned' \subseteq Days
  BY <1>1 DEF Typed, TypeOK, Truncate
<1>7. DOMAIN files \subseteq DOMAIN files'
  BY <1>1, <1>3, BatchFacts
<1>8. \A d \in Days : sessions[d].stream <= Len(files')
  <2>1. \A d \in Days : sessions[d].stream \in Nat /\ sessions[d].stream <= Len(files)
    BY <1>1 DEF Typed, TypeOK, Session
  <2> QED
    BY <1>1, <1>3, <2>1, BatchFacts
<1> QED
  BY <1>1, <1>3, <1>4, <1>5, <1>6, <1>7, <1>8 DEF Typed, TypeOK, Exists

\* PutPart and Damage change one file each.
LEMMA FileTyped == Typed /\ (PutPart \/ Damage) => Typed'
<1> USE DEF batch, reader
<1>1. SUFFICES ASSUME Typed, PutPart \/ Damage PROVE Typed'
  OBVIOUS
<1>2. UNCHANGED <<path, run, runs, abandoned, found, scan, sessions>> /\ damage' \in 0 .. MaxDamage
  BY <1>1, StoreAssumption DEF Typed, TypeOK, PutPart, Damage
<1>3. files' \in Seq(File) /\ Len(files') = Len(files)
  <2>1. CASE PutPart
    <3>1. path[Day] \in DOMAIN files
      BY <1>1, <2>1, BatchFacts DEF Typed, Exists, PutPart
    <3>2. [files[path[Day]] EXCEPT !.written = @ + 1] \in File
      BY <1>1, <2>1, <3>1, FileChanges DEF Typed, TypeOK, PutPart, FileAt
    <3>3. files' = [files EXCEPT ![path[Day]] = [files[path[Day]] EXCEPT !.written = @ + 1]]
      BY <2>1 DEF PutPart
    <3> QED
      BY <1>1, <3>1, <3>2, <3>3, Replaced, BatchFacts
  <2>2. CASE Damage
    <3>1. PICK f \in DOMAIN files : \E p \in (1 .. files[f].written) \ files[f].damaged :
            files' = [files EXCEPT ![f].damaged = @ \cup {p}]
      BY <2>2 DEF Damage
    <3>2. PICK p \in 1 .. files[f].written : files' = [files EXCEPT ![f].damaged = @ \cup {p}]
      BY <3>1
    <3>3. files[f] \in File /\ p \in Parts
      <4>1. files[f] \in File
        BY <1>1, <3>1, BatchFacts
      <4> QED
        BY <3>2, <4>1, ArchiveFacts DEF File, Parts
    <3> DEFINE worse == [files[f] EXCEPT !.damaged = @ \cup {p}]
    <3>4. worse \in File
      BY <3>3, FileChanges
    <3>5. files' = [files EXCEPT ![f] = worse]
      BY <3>2
    <3> HIDE DEF worse
    <3> QED
      BY <1>1, <3>4, <3>5, Replaced, BatchFacts
  <2> QED
    BY <1>1, <2>1, <2>2
<1> QED
  BY <1>1, <1>2, <1>3 DEF Typed, TypeOK, Exists, Day, Archive

\* Caught removes the name or not.
LEMMA CaughtTyped == Typed /\ Caught => Typed'
<1> USE DEF reader
<1>1. SUFFICES ASSUME Typed, Caught PROVE Typed'
  OBVIOUS
<1>2. UNCHANGED <<files, damage, runs, found, scan, sessions>>
  BY <1>1 DEF Caught
<1>3. path' \in [Days -> 0 .. Len(files)]
  <2>1. path \in [Days -> 0 .. Len(files)] /\ 0 \in 0 .. Len(files)
    BY <1>1, BatchFacts
  <2>2. [path EXCEPT ![Day] = 0] \in [Days -> 0 .. Len(files)]
    BY <2>1
  <2>3. path' = path \/ path' = [path EXCEPT ![Day] = 0]
    BY <1>1 DEF Caught, Removed
  <2> QED
    BY <2>1, <2>2, <2>3
<1>4. abandoned' \subseteq Days
  BY <1>1, BatchFacts DEF Caught
<1>5. /\ run' \in Run
      /\ run'.phase # "write"
  BY <1>1, AdvancedTyped DEF Typed, TypeOK, Caught
<1> QED
  BY <1>1, <1>2, <1>3, <1>4, <1>5 DEF Typed, TypeOK

\* The reader's steps up to an open session.
LEMMA OpeningTyped == Typed /\ (Scan \/ OpenDay) => Typed'
<1> USE DEF store, batch
<1>1. SUFFICES ASSUME Typed, Scan \/ OpenDay PROVE Typed'
  OBVIOUS
<1>2. UNCHANGED <<files, path, damage, run, runs, abandoned, found>>
  BY <1>1 DEF Scan, OpenDay
<1>3. NotOpening \in Opening /\ NoSession \in Session
  BY ArchiveFacts DEF NotOpening, NoSession, Opening, Session
<1>4. CASE Scan
  <2>1. scan' \in [scans : 0 .. MaxScans, listing : SUBSET Days, opening : Opening]
        /\ scan'.opening = NotOpening
    BY <1>1, <1>3, <1>4, StoreAssumption DEF Typed, TypeOK, Scan
  <2>2. sessions' \in [Days -> Session] /\ \A d \in Days : sessions'[d].stream = 0
    BY <1>3, <1>4 DEF Scan, NoSession
  <2> QED
    BY <1>1, <1>2, <2>1, <2>2 DEF Typed, TypeOK, Exists, Day, Archive
<1>5. CASE OpenDay
  <2>1. PICK d \in scan.listing :
          scan' = IF Exists(d)
                    THEN [scan EXCEPT !.opening =
                            [NotOpening EXCEPT !.day = d, !.size = FileAt(d).written, !.stream = path[d]]]
                    ELSE [scan EXCEPT !.listing = @ \ {d}]
    BY <1>5 DEF OpenDay
  <2>2. d \in Days /\ scan.opening = NotOpening
    BY <1>1, <1>5 DEF Typed, TypeOK, OpenDay
  <2>3. UNCHANGED sessions
    BY <1>5 DEF OpenDay
  <2>4. CASE Exists(d)
    <3> DEFINE o == [NotOpening EXCEPT !.day = d, !.size = FileAt(d).written, !.stream = path[d]]
    <3>1. path[d] \in DOMAIN files
      BY <1>1, <2>2, <2>4 DEF Typed, TypeOK, Exists
    <3>2. o \in Opening /\ o.day = d /\ o.stream = path[d]
      <4>1. files[path[d]] \in File /\ path[d] \in Nat
        BY <1>1, <3>1, BatchFacts
      <4>2. FileAt(d).written \in 0 .. Whole
        BY <4>1 DEF File, FileAt
      <4> QED
        BY <1>3, <2>2, <4>1, <4>2, ArchiveFacts DEF NotOpening, Opening
    <3>3. scan' = [scan EXCEPT !.opening = o]
      BY <2>1, <2>4
    <3> QED
      BY <1>1, <1>2, <2>1, <2>3, <3>1, <3>2, <3>3 DEF Typed, TypeOK, Exists, Day, Archive
  <2>5. CASE ~Exists(d)
    <3>1. scan' = [scan EXCEPT !.listing = @ \ {d}]
      BY <2>1, <2>5
    <3> QED
      BY <1>1, <1>2, <2>2, <2>3, <3>1 DEF Typed, TypeOK, Exists, Day, Archive
  <2> QED
    BY <2>4, <2>5
<1> QED
  BY <1>1, <1>4, <1>5

\* A step further in open, and the session at its end.
LEMMA OpeningChanges ==
  ASSUME NEW o \in Opening, NEW h \in Archives \cup {0}, NEW g \in SUBSET Int, o.next < Len(ReadOrder)
  PROVE  /\ [o EXCEPT !.header = h, !.from = g, !.next = @ + 1] \in Opening
         /\ [o EXCEPT !.header = h, !.from = g, !.next = @ + 1].day = o.day
         /\ [o EXCEPT !.header = h, !.from = g, !.next = @ + 1].stream = o.stream
<1>1. o.next + 1 \in DOMAIN ReadOrder
  BY ArchiveFacts DEF Opening
<1> QED
  BY <1>1 DEF Opening

LEMMA OpenedSession ==
  ASSUME NEW h \in Archives \cup {0}, NEW g \in SUBSET Int
  PROVE  /\ [NoSession EXCEPT !.header = h, !.from = g] \in Session
         /\ [NoSession EXCEPT !.header = h, !.from = g].stream = 0
<1>1. /\ NoSession.stream = 0 /\ NoSession \in Session
  BY ArchiveFacts DEF NoSession, Session
<1> QED
  BY <1>1 DEF Session

\* What a step of open reads is an archive's or garbage, and the session it ends in is typed.
LEMMA ReadPartTyped == Typed /\ ReadPart => Typed'
<1> USE DEF store, batch
<1>1. SUFFICES ASSUME Typed, ReadPart PROVE Typed'
  OBVIOUS
<1>2. UNCHANGED <<files, path, damage, run, runs, abandoned, found>>
  BY <1>1 DEF ReadPart
<1> DEFINE o == scan.opening
           p == ReadOrder[o.next]
           f == files[o.stream]
           h == IF p = Header THEN f.of ELSE o.header
           from == o.from \cup {Content(f, p)}
<1>3. /\ o \in Opening /\ o # NotOpening
      /\ o.day \in scan.listing /\ o.day \in Days
      /\ o.stream \in DOMAIN files /\ f \in File
  BY <1>1, BatchFacts DEF Typed, TypeOK, ReadPart
<1>4. h \in Archives \cup {0} /\ from \in SUBSET Int
  BY <1>3, ArchiveFacts DEF Opening, File, Content, Garbage
<1>5. /\ scan' \in [scans : 0 .. MaxScans, listing : SUBSET Days, opening : Opening]
      /\ scan'.opening # NotOpening =>
           scan'.opening.day \in scan'.listing /\ scan'.opening.stream \in DOMAIN files
  <2>1. CASE scan' = Dropped
    <3>1. NotOpening \in Opening
      BY ArchiveFacts DEF NotOpening, Opening
    <3>2. scan \in [scans : 0 .. MaxScans, listing : SUBSET Days, opening : Opening]
      BY <1>1 DEF Typed, TypeOK
    <3> HIDE DEF o
    <3> QED
      BY <2>1, <3>1, <3>2 DEF Dropped
  <2>2. CASE o.next < Len(ReadOrder)
             /\ scan' = [scan EXCEPT !.opening = [o EXCEPT !.header = h, !.from = from, !.next = @ + 1]]
    <3> DEFINE read == [o EXCEPT !.header = h, !.from = from, !.next = @ + 1]
    <3>1. read \in Opening /\ read.day = o.day /\ read.stream = o.stream
      <4> HIDE DEF o, h, from
      <4> QED BY <1>3, <1>4, <2>2, OpeningChanges
    <3>2. scan' = [scan EXCEPT !.opening = read]
      BY <2>2
    <3> HIDE DEF read, o
    <3> QED
      BY <1>1, <1>3, <3>1, <3>2 DEF Typed, TypeOK
  <2> QED
    BY <1>1, <2>1, <2>2 DEF ReadPart
<1>6. /\ sessions' \in [Days -> Session]
      /\ \A d \in Days : sessions'[d].stream <= Len(files)
  <2>0. /\ sessions \in [Days -> Session]
        /\ \A d \in Days : sessions[d].stream <= Len(files)
        /\ Len(files) \in Nat
    BY <1>1, BatchFacts DEF Typed, TypeOK
  <2> DEFINE new == [NoSession EXCEPT !.header = h, !.from = from]
  <2>1. new \in Session /\ new.stream = 0
    <3> HIDE DEF h, from
    <3> QED BY <1>4, OpenedSession
  <2>2. sessions' = sessions \/ sessions' = [sessions EXCEPT ![o.day] = new]
    BY <1>1 DEF ReadPart
  <2> HIDE DEF new, o
  <2> QED
    BY <1>3, <2>0, <2>1, <2>2
<1> QED
  BY <1>1, <1>2, <1>5, <1>6 DEF Typed, TypeOK, Exists, Day, Archive

\* Use touches one session, whose stream becomes the file there is.
LEMMA UseTyped == Typed /\ Use => Typed'
<1> USE DEF store, batch
<1>1. SUFFICES ASSUME Typed, Use PROVE Typed'
  OBVIOUS
<1>2. UNCHANGED <<files, path, damage, run, runs, abandoned, found, scan>>
  BY <1>1 DEF Use
<1>3. PICK d \in Days, b \in 1 .. Blobs :
        LET s      == sessions[d]
            stream == IF s.stream = 0 THEN path[d] ELSE s.stream
            f      == files[stream]
            short  == s.bad \/ ~Present(f, Blob(b))
        IN  /\ stream # 0
            /\ sessions' =
                 [sessions EXCEPT ![d] =
                    [s EXCEPT !.stream = stream,
                              !.bad = short,
                              !.blobs[b] = IF ~short /\ ChecksumHolds(f, Blob(b), s.header)
                                             THEN Content(f, Blob(b)) ELSE 0]]
  BY <1>1 DEF Use
<1> DEFINE s == sessions[d]
           stream == IF s.stream = 0 THEN path[d] ELSE s.stream
           f == files[stream]
           short == s.bad \/ ~Present(f, Blob(b))
           value == IF ~short /\ ChecksumHolds(f, Blob(b), s.header) THEN Content(f, Blob(b)) ELSE 0
           new == [s EXCEPT !.stream = stream, !.bad = short, !.blobs[b] = value]
<1>4. /\ s \in Session /\ sessions \in [Days -> Session] /\ s.stream <= Len(files)
      /\ \A e \in Days : sessions[e].stream <= Len(files)
  BY <1>1 DEF Typed, TypeOK
<1>5. stream \in 1 .. Len(files) /\ f \in File
  BY <1>1, <1>3, <1>4, BatchFacts DEF Session
<1>6. value \in Int
  BY <1>5, ArchiveFacts DEF File, Content, Garbage
<1>7. short \in BOOLEAN
  BY <1>4 DEF Session
<1>8. sessions' = [sessions EXCEPT ![d] = new]
  BY <1>3
<1>9. new \in Session /\ new.stream = stream
  <2> HIDE DEF s, stream, short, value
  <2>1. stream \in Nat
    BY <1>1, <1>5, BatchFacts
  <2>2. \A t \in Nat, x \in BOOLEAN, v \in Int :
          /\ [s EXCEPT !.stream = t, !.bad = x, !.blobs[b] = v] \in Session
          /\ [s EXCEPT !.stream = t, !.bad = x, !.blobs[b] = v].stream = t
    BY <1>4 DEF Session
  <2> QED BY <1>6, <1>7, <2>1, <2>2, Zenon
<1>10. sessions' \in [Days -> Session] /\ \A e \in Days : sessions'[e].stream <= Len(files)
  <2> HIDE DEF new, stream
  <2> QED BY <1>4, <1>5, <1>8, <1>9
<1> QED
  BY <1>1, <1>2, <1>10 DEF Typed, TypeOK, Exists, Day, Archive

LEMMA StepTyped == Typed /\ [Next]_vars => Typed'
<1>1. Typed /\ UNCHANGED vars => Typed'
  BY DEF Typed, TypeOK, vars, Exists, Day, Archive
<1> QED
  BY <1>1, BatchTyped, TruncateTyped, FileTyped, CaughtTyped, OpeningTyped, ReadPartTyped, UseTyped
     DEF Next, Batch, Reader

LEMMA AlwaysTyped == Spec => []Typed
BY InitTyped, StepTyped, PTL DEF Spec

\* Every state of the store, batch and reader is well typed: no index of a file,
\* archive or part is ever out of its range.
THEOREM StoreTypes == Spec => []TypeOK
<1>1. Typed => TypeOK
  BY DEF Typed
<1> QED
  BY <1>1, AlwaysTyped, PTL

-----------------------------------------------------------------------------
(* What a reader serves.                                                    *)

\* What open has read so far, and what a session holds, is of one archive.
Untorn ==
  /\ \A d \in Days :
       /\ sessions[d].from \subseteq {sessions[d].header}
       /\ \A b \in 1 .. Blobs : sessions[d].blobs[b] \in {0, sessions[d].header}
  /\ scan.opening.from \subseteq
       (IF scan.opening.next = 1 THEN {} ELSE {scan.opening.header})

\* The header is what open reads first, and once.
LEMMA HeaderFirst ==
  \A i \in 1 .. 5 : ReadOrder[i] = Header <=> i = 1
<1>1. Blobs \in Nat
  BY ArchiveFacts
<1> QED
  BY <1>1 DEF ReadOrder, Header, Table, Strings, Directory, Timeline

LEMMA ReadPartUntorn == Typed /\ Untorn /\ ReadPart => Untorn'
<1>1. SUFFICES ASSUME Typed, Untorn, ReadPart PROVE Untorn'
  OBVIOUS
<1> DEFINE o == scan.opening
           p == ReadOrder[o.next]
           f == files[o.stream]
           h == IF p = Header THEN f.of ELSE o.header
           from == o.from \cup {Content(f, p)}
           ok == /\ Present(f, p) /\ ChecksumHolds(f, p, h)
                 /\ p = Header => o.size = Whole
<1>2. /\ scan \in [scans : 0 .. MaxScans, listing : SUBSET Days, opening : Opening]
      /\ sessions \in [Days -> Session]
      /\ o \in Opening /\ o.next \in 1 .. 5
  BY <1>1, ArchiveFacts DEF Typed, TypeOK, Opening
<1>3. ok => from \subseteq {h}
  <2>1. ok => Content(f, p) = h
    BY DEF ChecksumHolds
  <2>2. o.from \subseteq {h}
    BY <1>1, <1>2, HeaderFirst DEF Untorn
  <2> QED
    BY <2>1, <2>2
<1>4. scan'.opening.from \subseteq
        (IF scan'.opening.next = 1 THEN {} ELSE {scan'.opening.header})
  <2>1. CASE scan' = Dropped
    BY <1>2, <2>1 DEF Dropped, NotOpening
  <2>2. CASE ok /\ scan' = [scan EXCEPT !.opening = [o EXCEPT !.header = h, !.from = from, !.next = @ + 1]]
    <3> DEFINE read == [o EXCEPT !.header = h, !.from = from, !.next = @ + 1]
    <3>1. read.header = h /\ read.from = from /\ read.next = o.next + 1
      <4> HIDE DEF h, from, o
      <4> QED BY <1>2 DEF Opening
    <3>2. scan'.opening = read
      BY <1>2, <2>2
    <3> HIDE DEF read, o, ok, h, from
    <3> QED
      BY <1>2, <1>3, <2>2, <3>1, <3>2
  <2> QED
    BY <1>1, <2>1, <2>2 DEF ReadPart
<1>5. \A d \in Days :
        /\ sessions'[d].from \subseteq {sessions'[d].header}
        /\ \A b \in 1 .. Blobs : sessions'[d].blobs[b] \in {0, sessions'[d].header}
  <2> DEFINE new == [NoSession EXCEPT !.header = h, !.from = from]
  <2>1. new.header = h /\ new.from = from /\ \A b \in 1 .. Blobs : new.blobs[b] = 0
    <3> HIDE DEF h, from
    <3> QED BY DEF NoSession
  <2>2. sessions' = sessions \/ (ok /\ sessions' = [sessions EXCEPT ![o.day] = new])
    BY <1>1 DEF ReadPart
  <2> HIDE DEF new, o, ok, h, from
  <2> QED
    BY <1>1, <1>2, <1>3, <2>1, <2>2 DEF Untorn
<1> QED
  BY <1>4, <1>5 DEF Untorn

LEMMA UseUntorn == Typed /\ Untorn /\ Use => Untorn'
<1>1. SUFFICES ASSUME Typed, Untorn, Use PROVE Untorn'
  OBVIOUS
<1>2. PICK d \in Days, b \in 1 .. Blobs :
        \E t, x, v : /\ sessions' = [sessions EXCEPT ![d] =
                           [sessions[d] EXCEPT !.stream = t, !.bad = x, !.blobs[b] = v]]
                    /\ v \in {0, sessions[d].header}
  <2>1. PICK d \in Days, b \in 1 .. Blobs :
          LET s      == sessions[d]
              stream == IF s.stream = 0 THEN path[d] ELSE s.stream
              f      == files[stream]
              short  == s.bad \/ ~Present(f, Blob(b))
          IN  sessions' =
                [sessions EXCEPT ![d] =
                   [s EXCEPT !.stream = stream,
                             !.bad = short,
                             !.blobs[b] = IF ~short /\ ChecksumHolds(f, Blob(b), s.header)
                                            THEN Content(f, Blob(b)) ELSE 0]]
    BY <1>1 DEF Use
  <2> DEFINE s      == sessions[d]
             stream == IF s.stream = 0 THEN path[d] ELSE s.stream
             f      == files[stream]
             short  == s.bad \/ ~Present(f, Blob(b))
             value  == IF ~short /\ ChecksumHolds(f, Blob(b), s.header) THEN Content(f, Blob(b)) ELSE 0
  <2>2. value \in {0, s.header}
    BY DEF ChecksumHolds
  <2>3. sessions' = [sessions EXCEPT ![d] = [s EXCEPT !.stream = stream, !.bad = short, !.blobs[b] = value]]
    BY <2>1
  <2> HIDE DEF stream, short, value
  <2> QED
    BY <2>2, <2>3, Zenon
<1>3. PICK t, x, v : /\ sessions' = [sessions EXCEPT ![d] =
                          [sessions[d] EXCEPT !.stream = t, !.bad = x, !.blobs[b] = v]]
                     /\ v \in {0, sessions[d].header}
  BY <1>2
<1>4. sessions \in [Days -> Session] /\ UNCHANGED scan
  BY <1>1 DEF Typed, TypeOK, Use
<1> DEFINE new == [sessions[d] EXCEPT !.stream = t, !.bad = x, !.blobs[b] = v]
<1>5. /\ new.header = sessions[d].header /\ new.from = sessions[d].from
      /\ \A c \in 1 .. Blobs : new.blobs[c] = IF c = b THEN v ELSE sessions[d].blobs[c]
  BY <1>4 DEF Session
<1>6. sessions' = [sessions EXCEPT ![d] = new]
  BY <1>3
<1> HIDE DEF new
<1> QED
  BY <1>1, <1>3, <1>4, <1>5, <1>6 DEF Untorn

LEMMA StepUntorn == Typed /\ Untorn /\ [Next]_vars => Untorn'
<1>1. SUFFICES ASSUME Typed, Untorn, [Next]_vars PROVE Untorn'
  OBVIOUS
<1>2. CASE UNCHANGED reader
  BY <1>1, <1>2 DEF Untorn, reader
<1>3. CASE Scan
  <2>1. scan'.opening = NotOpening /\ sessions' = [d \in Days |-> NoSession]
    BY <1>3 DEF Scan
  <2>2. /\ NotOpening.next = 1 /\ NotOpening.from = {}
        /\ NoSession.from = {} /\ \A b \in 1 .. Blobs : NoSession.blobs[b] = 0
    BY DEF NotOpening, NoSession
  <2> QED
    BY <2>1, <2>2 DEF Untorn
<1>4. CASE OpenDay
  <2>1. /\ UNCHANGED sessions
        /\ scan \in [scans : 0 .. MaxScans, listing : SUBSET Days, opening : Opening]
    BY <1>1, <1>4 DEF OpenDay, Typed, TypeOK
  <2>2. scan'.opening.from = {} /\ scan'.opening.next = 1
    BY <1>4, <2>1 DEF OpenDay, NotOpening
  <2> QED
    BY <1>1, <2>1, <2>2 DEF Untorn
<1>5. [Next]_vars => UNCHANGED reader \/ Scan \/ OpenDay \/ ReadPart \/ Use
  BY DEF Next, Batch, Reader, vars, reader, store, batch, StartRun, LoadFails, SkipExisting,
     Truncate, CannotOpen, PutPart, WriteFails, CloseFile, Verify, Caught, Kill, Damage
<1> QED
  BY <1>1, <1>2, <1>3, <1>4, <1>5, ReadPartUntorn, UseUntorn

\* However often days are rewritten, removed or damaged around open and
\* materialise, all a session holds is of the archive its header is of.
THEOREM ReaderServesOneDay == Spec => []ServedAsOpened
<1>1. Init => Untorn
  <2>1. /\ NotOpening.next = 1 /\ NotOpening.from = {}
        /\ NoSession.from = {} /\ \A b \in 1 .. Blobs : NoSession.blobs[b] = 0
    BY DEF NotOpening, NoSession
  <2>2. Init => scan.opening = NotOpening /\ sessions = [d \in Days |-> NoSession]
    BY DEF Init
  <2> QED
    BY <2>1, <2>2 DEF Untorn
<1>2. Typed /\ Untorn => ServedAsOpened
  BY DEF Untorn, ServedAsOpened
<1> QED
  BY <1>1, <1>2, StepUntorn, AlwaysTyped, PTL DEF Spec

-----------------------------------------------------------------------------
(* What the batch leaves.                                                   *)

NamesDiffer == \A d, e \in Days : d # e /\ Exists(d) => path[d] # path[e]

\* Archives this run has dealt with, or is writing.
Reached(a) == a < run.at \/ run.phase = "done" \/ (a = run.at /\ run.phase \in {"write", "verify"})

\* While nothing failed, every archive reached has its day on disk.
Converted == ~run.failed => \A a \in Archives : Reached(a) => Exists(DateOf[a])

\* Forced, the day is whole but for the one being written, and of no earlier archive.
Repaired ==
  ~run.failed /\ run.force /\ run.phase \notin {"caught", "killed"} =>
    \A a \in Archives : Reached(a) =>
      /\ a <= FileAt(DateOf[a]).of
      /\ FileAt(DateOf[a]).written = Whole \/ (run.phase = "write" /\ DateOf[a] = Day)

BatchInv == NamesDiffer /\ HalfDaysWereAbandoned /\ Converted /\ Repaired

\* What truncating does to the files: the day's file is the archive's, and empty.
LEMMA TruncateEffect ==
  ASSUME Typed, NamesDiffer, Truncate
  PROVE  /\ NamesDiffer'
         /\ \A d \in Days :
              /\ d # Day => path'[d] = path[d] /\ (Exists(d) => files'[path[d]] = files[path[d]])
              /\ d = Day => path'[d] # 0 /\ files'[path'[d]].of = Archive /\ files'[path'[d]].written = 0
<1> DEFINE empty == [of |-> Archive, written |-> 0, damaged |-> {}]
<1>1. /\ Day \in Days /\ path \in [Days -> 0 .. Len(files)] /\ Len(files) \in Nat
      /\ files \in Seq(File) /\ DOMAIN files = 1 .. Len(files)
  BY BatchFacts
<1>2. empty.of = Archive /\ empty.written = 0
  OBVIOUS
<1>3. CASE Exists(Day)
  <2>1. files' = [files EXCEPT ![path[Day]] = empty] /\ path' = path
    BY <1>3 DEF Truncate
  <2>2. path[Day] \in DOMAIN files
    BY <1>1, <1>3 DEF Exists
  <2> HIDE DEF empty
  <2> QED
    BY <1>1, <1>2, <1>3, <2>1, <2>2 DEF NamesDiffer, Exists
<1>4. CASE ~Exists(Day)
  <2>1. files' = Append(files, empty) /\ path' = [path EXCEPT ![Day] = Len(files) + 1]
    BY <1>4 DEF Truncate
  <2> HIDE DEF empty
  <2>2. /\ \A i \in 1 .. Len(files) : files'[i] = files[i]
        /\ files'[Len(files) + 1] = empty
    BY <1>1, <2>1
  <2>3. \A d \in Days : d # Day => path'[d] = path[d]
    BY <1>1, <2>1
  <2>4. path'[Day] = Len(files) + 1
    BY <1>1, <2>1
  <2>5. NamesDiffer'
    BY <1>1, <2>3, <2>4 DEF NamesDiffer, Exists
  <2> QED
    BY <1>1, <1>2, <2>2, <2>3, <2>4, <2>5 DEF Exists
<1> QED
  BY <1>3, <1>4

\* What reaches the disk, and what is damaged there, changes no file's archive
\* and takes nothing of any file away.
LEMMA FileEffect ==
  ASSUME Typed, NamesDiffer, PutPart \/ Damage
  PROVE  /\ path' = path
         /\ \A d \in Days : Exists(d) =>
              /\ files'[path[d]].of = FileAt(d).of
              /\ files'[path[d]].written \in {FileAt(d).written, FileAt(d).written + 1}
              /\ run.phase # "write" \/ d # Day => files'[path[d]].written = FileAt(d).written
<1>1. /\ Day \in Days /\ path \in [Days -> 0 .. Len(files)] /\ Len(files) \in Nat
      /\ files \in Seq(File) /\ DOMAIN files = 1 .. Len(files)
  BY BatchFacts
<1>2. CASE PutPart
  <2>1. /\ files' = [files EXCEPT ![path[Day]].written = @ + 1]
        /\ path' = path /\ run.phase = "write" /\ Exists(Day)
    BY <1>2 DEF PutPart, Typed
  <2>2. path[Day] \in DOMAIN files /\ files[path[Day]] \in File
    BY <1>1, <2>1 DEF Exists
  <2> QED
    BY <1>1, <2>1, <2>2 DEF NamesDiffer, Exists, FileAt, File
<1>3. CASE Damage
  <2>1. PICK f \in DOMAIN files : \E p : files' = [files EXCEPT ![f].damaged = @ \cup {p}]
    BY <1>3 DEF Damage
  <2>2. files[f] \in File /\ path' = path
    BY <1>1, <1>3 DEF Damage
  <2> QED
    <3>1. PICK p : files' = [files EXCEPT ![f].damaged = @ \cup {p}]
      BY <2>1
    <3> QED
      BY <1>1, <2>2, <3>1 DEF Exists, FileAt, File
<1> QED
  BY <1>2, <1>3

LEMMA NamesStay == Typed /\ NamesDiffer /\ [Next]_vars => NamesDiffer'
<1>1. SUFFICES ASSUME Typed, NamesDiffer, [Next]_vars PROVE NamesDiffer'
  OBVIOUS
<1>2. CASE Truncate
  BY <1>1, <1>2, TruncateEffect
<1>3. CASE Caught
  <2>1. path' \in {path, [path EXCEPT ![Day] = 0]}
    BY <1>3 DEF Caught, Removed
  <2> QED
    BY <1>1, <2>1, BatchFacts DEF NamesDiffer, Exists
<1>4. [Next]_vars => UNCHANGED path \/ Truncate \/ Caught
  BY DEF Next, Batch, Reader, vars, reader, store, batch, StartRun, LoadFails, SkipExisting,
     CannotOpen, PutPart, WriteFails, CloseFile, Verify, Kill, Damage, Scan, OpenDay, ReadPart, Use
<1> QED
  BY <1>1, <1>2, <1>3, <1>4 DEF NamesDiffer, Exists

\* Where a step of the batch that touches no file takes its state.
LEMMA BatchMoves ==
  ASSUME Typed, StartRun \/ LoadFails \/ SkipExisting \/ CannotOpen \/ WriteFails
                  \/ CloseFile \/ Verify \/ Kill
  PROVE  /\ UNCHANGED <<files, path>>
         /\ \/ /\ run.phase \in Idle /\ run'.phase = "load" /\ run'.at = 1 /\ ~run'.failed
               /\ UNCHANGED abandoned
            \/ /\ run' = Advanced(TRUE) /\ run.phase = "load" /\ UNCHANGED abandoned
            \/ /\ run' = Advanced(FALSE) /\ run.phase = "load" /\ UNCHANGED abandoned
               /\ ~run.force /\ Exists(Day)
            \/ /\ run' = Advanced(FALSE) /\ run.phase \in {"write", "verify"} /\ UNCHANGED abandoned
               /\ run.phase = "write" => FileAt(Day).written = Whole
            \/ /\ run' = [run EXCEPT !.phase = "verify"] /\ UNCHANGED abandoned
               /\ run.phase = "write" /\ FileAt(Day).written = Whole
            \/ /\ run' = [run EXCEPT !.phase = "caught"] /\ UNCHANGED abandoned
               /\ run.phase \in {"load", "write", "verify"}
            \/ /\ run' = [run EXCEPT !.phase = "killed"] /\ run.phase \in {"write", "verify"} /\ UNCHANGED abandoned
               /\ run.phase = "write" => FileAt(Day).written = Whole
            \/ /\ run' = [run EXCEPT !.phase = "killed"] /\ run.phase \notin Idle
               /\ abandoned' = IF HalfWritten(Day) THEN abandoned \cup {Day} ELSE abandoned
<1> USE DEF store, reader
<1>1. UNCHANGED <<files, path>>
  BY DEF StartRun, LoadFails, SkipExisting, CannotOpen, WriteFails, CloseFile, Verify, Kill
<1>2. CASE StartRun
  <2>1. PICK force, verify :
          run' = [phase |-> "load", at |-> 1, force |-> force, verify |-> verify, failed |-> FALSE]
    BY <1>2 DEF StartRun
  <2>2. run'.phase = "load" /\ run'.at = 1 /\ run'.failed = FALSE
    BY <2>1
  <2> QED
    BY <1>1, <1>2, <2>2 DEF StartRun
<1>3. CASE LoadFails
  BY <1>1, <1>3 DEF LoadFails
<1>4. CASE SkipExisting
  BY <1>1, <1>4 DEF SkipExisting, Skips
<1>5. CASE CannotOpen
  BY <1>1, <1>5 DEF CannotOpen
<1>6. CASE WriteFails
  BY <1>1, <1>6 DEF WriteFails
<1>7. CASE CloseFile
  BY <1>1, <1>7 DEF CloseFile, Succeeded, Idle
<1>8. CASE Verify
  BY <1>1, <1>8 DEF Verify, Succeeded, Idle
<1>9. CASE Kill
  BY <1>1, <1>9 DEF Kill
<1> QED
  BY <1>2, <1>3, <1>4, <1>5, <1>6, <1>7, <1>8, <1>9

\* Advanced, field by field.
LEMMA AdvancedFields ==
  ASSUME run \in Run, NEW failed \in BOOLEAN
  PROVE  /\ Advanced(failed).force = run.force
         /\ Advanced(failed).failed = (run.failed \/ failed)
         /\ \/ /\ run.at = Len(DateOf) /\ Advanced(failed).phase = "done" /\ Advanced(failed).at = run.at
            \/ /\ run.at < Len(DateOf) /\ Advanced(failed).phase = "load" /\ Advanced(failed).at = run.at + 1
<1>1. run.at \in 1 .. Len(DateOf)
  BY ArchiveFacts DEF Run
<1>2. /\ Advanced(failed).force = run.force
      /\ Advanced(failed).phase = IF run.at = Len(DateOf) THEN "done" ELSE "load"
      /\ Advanced(failed).at = IF run.at = Len(DateOf) THEN run.at ELSE run.at + 1
  BY DEF Advanced, Run
<1>3. Advanced(failed).failed = (run.failed \/ failed)
  BY Zenon DEF Advanced, Run
<1> QED
  BY <1>1, <1>2, <1>3, ArchiveFacts

\* Which archives a step of the batch that touches no file adds to those reached:
\* the one passed over because its day is there, in a run not forced, and none
\* in a run without failures otherwise.
LEMMA ReachedMoves ==
  ASSUME Typed, StartRun \/ LoadFails \/ SkipExisting \/ CannotOpen \/ WriteFails
                  \/ CloseFile \/ Verify \/ Kill,
         ~run'.failed, NEW a \in Archives, Reached(a)'
  PROVE  /\ ~run.failed
         /\ run'.force = run.force
         /\ Reached(a) \/ (a = run.at /\ Exists(Day) /\ ~run.force)
         /\ \/ run.phase \in {"write", "verify"} /\ (run.phase = "write" => FileAt(Day).written = Whole)
            \/ run'.phase \in {"caught", "killed"}
            \/ ~run.force
<1>1. run \in Run /\ run.at \in 1 .. Len(DateOf) /\ Len(DateOf) \in Nat /\ a \in 1 .. Len(DateOf)
  BY BatchFacts, ArchiveFacts DEF Run
<1>2. /\ Advanced(TRUE).failed = TRUE /\ Advanced(FALSE).failed = run.failed
      /\ Advanced(FALSE).force = run.force
      /\ \/ /\ run.at = Len(DateOf) /\ Advanced(FALSE).phase = "done" /\ Advanced(FALSE).at = run.at
         \/ /\ run.at < Len(DateOf) /\ Advanced(FALSE).phase = "load" /\ Advanced(FALSE).at = run.at + 1
  <2>1. run.failed \in BOOLEAN
    BY <1>1 DEF Run
  <2> QED
    BY <1>1, <2>1, AdvancedFields
<1>3. \A p \in {"verify", "caught", "killed"} :
        /\ [run EXCEPT !.phase = p].phase = p /\ [run EXCEPT !.phase = p].at = run.at
        /\ [run EXCEPT !.phase = p].failed = run.failed /\ [run EXCEPT !.phase = p].force = run.force
  BY <1>1 DEF Run
<1>4. CASE run.phase \in Idle /\ run'.phase = "load" /\ run'.at = 1
  BY <1>1, <1>4 DEF Reached
<1>5. CASE run' = Advanced(TRUE)
  BY <1>2, <1>5
<1>6. CASE run' = Advanced(FALSE) /\ run.phase = "load" /\ ~run.force /\ Exists(Day)
  <2>1. /\ run'.force = run.force
        /\ \/ run.at = Len(DateOf) /\ run'.phase = "done" /\ run'.at = run.at
           \/ run.at < Len(DateOf) /\ run'.phase = "load" /\ run'.at = run.at + 1
    BY <1>2, <1>6
  <2>2. ~run.failed
    BY <1>2, <1>6, Zenon
  <2>3. a < run.at \/ a = run.at
    BY <1>1, <2>1 DEF Reached
  <2>4. Reached(a) \/ (a = run.at /\ Exists(Day) /\ ~run.force)
    BY <1>6, <2>3 DEF Reached
  <2> QED
    BY <1>6, <2>1, <2>2, <2>4
<1>7. CASE /\ run' = Advanced(FALSE) /\ run.phase \in {"write", "verify"}
           /\ run.phase = "write" => FileAt(Day).written = Whole
  <2>1. /\ run'.force = run.force
        /\ \/ run.at = Len(DateOf) /\ run'.phase = "done" /\ run'.at = run.at
           \/ run.at < Len(DateOf) /\ run'.phase = "load" /\ run'.at = run.at + 1
    BY <1>2, <1>7
  <2>2. ~run.failed
    BY <1>2, <1>7, Zenon
  <2>3. a < run.at \/ a = run.at
    BY <1>1, <2>1 DEF Reached
  <2>4. Reached(a) \/ (a = run.at /\ Exists(Day) /\ ~run.force)
    BY <1>7, <2>3 DEF Reached
  <2> QED
    BY <1>7, <2>1, <2>2, <2>4
<1>8. CASE run' = [run EXCEPT !.phase = "verify"] /\ run.phase = "write" /\ FileAt(Day).written = Whole
  BY <1>1, <1>3, <1>8 DEF Reached
<1>9. CASE run' = [run EXCEPT !.phase = "caught"] /\ run.phase \in {"load", "write", "verify"}
  BY <1>1, <1>3, <1>9 DEF Reached
<1>10. CASE run' = [run EXCEPT !.phase = "killed"]
  BY <1>1, <1>3, <1>10 DEF Reached
<1> QED
  BY <1>4, <1>5, <1>6, <1>7, <1>8, <1>9, <1>10, BatchMoves

\* A file that is not whole is being written or was left by a kill.
LEMMA HalfStays ==
  Typed /\ NamesDiffer /\ HalfDaysWereAbandoned /\ [Next]_vars => HalfDaysWereAbandoned'
<1>1. SUFFICES ASSUME Typed, NamesDiffer, HalfDaysWereAbandoned, [Next]_vars
               PROVE HalfDaysWereAbandoned'
  OBVIOUS
<1>2. run \in Run /\ Day \in Days /\ abandoned \subseteq Days
      /\ path \in [Days -> 0 .. Len(files)] /\ Len(files) \in Nat
  BY <1>1, BatchFacts
<1>3. CASE StartRun \/ LoadFails \/ SkipExisting \/ CannotOpen \/ WriteFails
             \/ CloseFile \/ Verify \/ Kill
  <2>1. \A d : HalfWritten(d)' = HalfWritten(d)
    BY <1>1, <1>3, BatchMoves DEF HalfWritten, Exists, FileAt
  <2>2. \A d \in Days : HalfWritten(d) /\ run.phase \notin {"write", "caught"} => d \in abandoned
    BY <1>1 DEF HalfDaysWereAbandoned
  <2>3. \A d \in Days : HalfWritten(d) /\ d # Day => d \in abandoned
    BY <1>1 DEF HalfDaysWereAbandoned
  <2>4. \A phase \in {"verify", "caught", "killed"} :
          run' = [run EXCEPT !.phase = phase] => run'.phase = phase /\ run'.at = run.at
    BY <1>2 DEF Run
  <2>5. CASE run.phase \notin {"write", "caught"}
    <3>1. abandoned \subseteq abandoned'
      BY <1>1, <1>3, BatchMoves
    <3> QED
      BY <2>1, <2>2, <2>5, <3>1 DEF HalfDaysWereAbandoned
  <2>6. CASE run.phase \in {"write", "caught"}
    <3>1. \/ /\ abandoned' = abandoned /\ FileAt(Day).written = Whole
          \/ /\ abandoned' = abandoned /\ run'.phase = "caught" /\ run'.at = run.at
          \/ abandoned' = IF HalfWritten(Day) THEN abandoned \cup {Day} ELSE abandoned
      BY <1>1, <1>3, <2>4, <2>6, BatchMoves DEF Idle
    <3>2. CASE abandoned' = abandoned /\ FileAt(Day).written = Whole
      <4>1. ~HalfWritten(Day)
        BY <3>2, ArchiveFacts DEF HalfWritten
      <4> QED
        BY <2>1, <2>3, <3>2, <4>1 DEF HalfDaysWereAbandoned
    <3>3. CASE abandoned' = abandoned /\ run'.phase = "caught" /\ run'.at = run.at
      <4>1. Day' = Day
        BY <3>3 DEF Day, Archive
      <4> QED
        BY <2>1, <2>3, <3>3, <4>1 DEF HalfDaysWereAbandoned
    <3>4. CASE abandoned' = IF HalfWritten(Day) THEN abandoned \cup {Day} ELSE abandoned
      BY <2>1, <2>3, <3>4 DEF HalfDaysWereAbandoned
    <3> QED
      BY <3>1, <3>2, <3>3, <3>4
  <2> QED
    BY <2>5, <2>6
<1>4. CASE Truncate
  <2>1. /\ abandoned' = abandoned \ {Day} /\ Day' = Day
        /\ run'.phase = "write" /\ run.phase = "load"
    BY <1>2, <1>4 DEF Truncate, Run, Day, Archive
  <2>2. \A d \in Days : d # Day /\ HalfWritten(d)' => HalfWritten(d)
    BY <1>1, <1>4, TruncateEffect DEF HalfWritten, Exists, FileAt
  <2> QED
    BY <1>1, <2>1, <2>2 DEF HalfDaysWereAbandoned
<1>5. CASE PutPart \/ Damage
  <2>1. UNCHANGED <<run, abandoned>> /\ UNCHANGED Day
    BY <1>5 DEF PutPart, Damage, batch, Day, Archive
  <2>2. \A d \in Days : (run.phase # "write" \/ d # Day) /\ HalfWritten(d)' => HalfWritten(d)
    BY <1>1, <1>5, FileEffect DEF HalfWritten, Exists, FileAt
  <2> QED
    BY <1>1, <2>1, <2>2 DEF HalfDaysWereAbandoned
<1>6. CASE Caught
  <2>1. /\ UNCHANGED files
        /\ \/ path' = [path EXCEPT ![Day] = 0] /\ abandoned' = abandoned \ {Day}
           \/ UNCHANGED path /\ abandoned' = IF HalfWritten(Day) THEN abandoned \cup {Day} ELSE abandoned
    BY <1>6 DEF Caught, Removed
  <2>2. \A d \in Days : HalfWritten(d) /\ d # Day => d \in abandoned
    BY <1>1 DEF HalfDaysWereAbandoned
  <2> QED
    BY <1>2, <2>1, <2>2 DEF HalfDaysWereAbandoned, HalfWritten, Exists, FileAt
<1>7. CASE UNCHANGED <<store, batch>>
  BY <1>1, <1>7 DEF HalfDaysWereAbandoned, HalfWritten, Exists, FileAt, store, batch, Day, Archive
<1>8. Reader \/ UNCHANGED vars => UNCHANGED <<store, batch>>
  BY DEF Reader, vars, store, batch, Scan, OpenDay, ReadPart, Use
<1> QED
  BY <1>1, <1>3, <1>4, <1>5, <1>6, <1>7, <1>8 DEF Next, Batch

\* While nothing failed, each archive reached has its day.
LEMMA ConvertedStays == Typed /\ NamesDiffer /\ Converted /\ [Next]_vars => Converted'
<1>1. SUFFICES ASSUME Typed, NamesDiffer, Converted, [Next]_vars PROVE Converted'
  OBVIOUS
<1>2. /\ run \in Run /\ run.at \in Archives /\ Archives = 1 .. Len(DateOf) /\ Len(DateOf) \in Nat
      /\ Day \in Days /\ Day = DateOf[run.at] /\ \A a \in Archives : DateOf[a] \in Days
  BY <1>1, BatchFacts, ArchiveFacts DEF Day, Archive
<1>3. CASE StartRun \/ LoadFails \/ SkipExisting \/ CannotOpen \/ WriteFails
             \/ CloseFile \/ Verify \/ Kill
  <2>1. \A d : Exists(d)' = Exists(d)
    BY <1>1, <1>3, BatchMoves DEF Exists
  <2> QED
    BY <1>1, <1>2, <1>3, <2>1, ReachedMoves DEF Converted
<1>4. CASE Truncate
  <2>1. run'.at = run.at /\ run'.phase = "write" /\ run'.failed = run.failed /\ run.phase = "load"
    BY <1>2, <1>4 DEF Truncate, Run
  <2>2. \A d \in Days : Exists(d) \/ d = Day => Exists(d)'
    BY <1>1, <1>4, TruncateEffect DEF Exists
  <2> QED
    BY <1>1, <1>2, <2>1, <2>2 DEF Converted, Reached
<1>5. CASE Caught
  BY <1>2, <1>5, AdvancedFields DEF Caught, Converted
<1>6. CASE UNCHANGED <<run, path>>
  BY <1>1, <1>6 DEF Converted, Reached, Exists
<1>7. PutPart \/ Damage \/ Reader \/ UNCHANGED vars => UNCHANGED <<run, path>>
  BY DEF Reader, vars, store, batch, Scan, OpenDay, ReadPart, Use, PutPart, Damage
<1> QED
  BY <1>1, <1>3, <1>4, <1>5, <1>6, <1>7 DEF Next, Batch

\* A forced run without failures has written each day it reached in full, from
\* the last archive of that day it reached.
LEMMA RepairedStays == Typed /\ NamesDiffer /\ Converted /\ Repaired /\ [Next]_vars => Repaired'
<1>1. SUFFICES ASSUME Typed, NamesDiffer, Converted, Repaired, [Next]_vars PROVE Repaired'
  OBVIOUS
<1>2. /\ run \in Run /\ run.at \in Archives /\ Archives = 1 .. Len(DateOf) /\ Len(DateOf) \in Nat
      /\ Day \in Days /\ Day = DateOf[run.at] /\ \A a \in Archives : DateOf[a] \in Days
      /\ Archive = run.at
  BY <1>1, BatchFacts, ArchiveFacts DEF Day, Archive
<1>3. CASE StartRun \/ LoadFails \/ SkipExisting \/ CannotOpen \/ WriteFails
             \/ CloseFile \/ Verify \/ Kill
  <2>1. \A d : FileAt(d)' = FileAt(d)
    BY <1>1, <1>3, BatchMoves DEF FileAt
  <2>2. SUFFICES ASSUME ~run'.failed, run'.force, run'.phase \notin {"caught", "killed"},
                        NEW a \in Archives, Reached(a)'
                 PROVE  a <= FileAt(DateOf[a]).of /\ FileAt(DateOf[a]).written = Whole
    BY <2>1 DEF Repaired
  <2>3. /\ ~run.failed /\ run.force /\ run.phase \in {"write", "verify"} /\ Reached(a)
        /\ run.phase = "write" => FileAt(Day).written = Whole
    BY <1>1, <1>3, <2>2, ReachedMoves
  <2> QED
    BY <1>1, <2>3 DEF Repaired
<1>4. CASE Truncate
  <2>1. /\ run'.at = run.at /\ run'.phase = "write" /\ run'.failed = run.failed /\ run'.force = run.force
        /\ run.phase = "load" /\ Day' = Day
    BY <1>2, <1>4 DEF Truncate, Run, Day, Archive
  <2>2. SUFFICES ASSUME ~run.failed, run.force, NEW a \in Archives, Reached(a)'
                 PROVE  /\ a <= FileAt(DateOf[a])'.of
                        /\ FileAt(DateOf[a])'.written = Whole \/ DateOf[a] = Day
    BY <2>1 DEF Repaired
  <2>3. CASE DateOf[a] = Day
    BY <1>1, <1>2, <1>4, <2>1, <2>2, <2>3, TruncateEffect DEF FileAt, Reached
  <2>4. CASE DateOf[a] # Day
    <3>1. Reached(a)
      BY <1>2, <2>1, <2>2, <2>4 DEF Reached
    <3>2. Exists(DateOf[a])
      BY <1>1, <2>2, <3>1 DEF Converted
    <3>3. FileAt(DateOf[a])' = FileAt(DateOf[a])
      BY <1>1, <1>2, <1>4, <2>4, <3>2, TruncateEffect DEF FileAt
    <3> QED
      BY <1>1, <2>1, <2>2, <2>4, <3>1, <3>3 DEF Repaired
  <2> QED
    BY <2>3, <2>4
<1>5. CASE PutPart \/ Damage
  <2>1. UNCHANGED run /\ Day' = Day
    BY <1>5 DEF PutPart, Damage, batch, Day, Archive
  <2>2. \A d \in Days : Exists(d) =>
          /\ FileAt(d)'.of = FileAt(d).of
          /\ run.phase # "write" \/ d # Day => FileAt(d)'.written = FileAt(d).written
    BY <1>1, <1>5, FileEffect DEF FileAt
  <2> QED
    BY <1>1, <1>2, <2>1, <2>2 DEF Repaired, Converted, Reached
<1>6. CASE Caught
  BY <1>2, <1>6, AdvancedFields DEF Caught, Repaired
<1>7. CASE UNCHANGED <<run, path, files>>
  BY <1>1, <1>7 DEF Repaired, Reached, FileAt, Day, Archive
<1>8. Reader \/ UNCHANGED vars => UNCHANGED <<run, path, files>>
  BY DEF Reader, vars, store, batch, Scan, OpenDay, ReadPart, Use
<1> QED
  BY <1>1, <1>3, <1>4, <1>5, <1>6, <1>7, <1>8 DEF Next, Batch

LEMMA BatchInvariant == Spec => [](Typed /\ BatchInv)
<1>1. Init => BatchInv
  <2>1. Init => /\ \A d \in Days : path[d] = 0
                /\ run.at = 1 /\ run.phase = "none" /\ run.force = FALSE
    BY DEF Init
  <2> QED
    BY <2>1, ArchiveFacts
       DEF BatchInv, NamesDiffer, HalfDaysWereAbandoned, HalfWritten, Converted, Repaired, Reached, Exists
<1>2. Typed /\ BatchInv /\ [Next]_vars => BatchInv'
  BY NamesStay, HalfStays, ConvertedStays, RepairedStays DEF BatchInv
<1> QED
  BY <1>1, <1>2, AlwaysTyped, PTL DEF Spec

\* No error inside convert.cpp leaves half a day: only a kill, or a removal that
\* fails, does.
THEOREM OnlyAbandonedDaysAreHalf == Spec => []HalfDaysWereAbandoned
BY BatchInvariant, PTL DEF BatchInv

\* After a run that reports no failure, each archive's day is there, and is whole
\* unless an earlier run was cut off inside it and this one passed it over.
THEOREM CleanRuns == Spec => []CleanRunLeavesDays
<1>1. Typed /\ BatchInv => CleanRunLeavesDays
  BY ArchiveFacts
     DEF BatchInv, Converted, Reached, HalfDaysWereAbandoned, CleanRunLeavesDays, Days
<1> QED
  BY <1>1, BatchInvariant, PTL

\* With --force it is whole, and of the last archive that holds the day.
THEOREM ForcedRuns == Spec => []ForcedRunRepairs
<1>1. Typed /\ BatchInv => ForcedRunRepairs
  BY ArchiveFacts DEF BatchInv, Converted, Repaired, Reached, ForcedRunRepairs, Days
<1> QED
  BY <1>1, BatchInvariant, PTL

\* The days an unforced run found are on disk, and the one being written is none.
KeepsFound ==
  run.phase \notin Idle =>
    /\ run.force => found = {}
    /\ \A d \in found : Exists(d)
    /\ run.phase \in {"write", "verify", "caught"} => Day \notin found

\* What a run does to the days it found.
LEMMA FoundStays ==
  ASSUME Typed, NamesDiffer, KeepsFound, run.phase \notin Idle, [Next]_vars, NEW d \in found
  PROVE  /\ path'[d] = path[d] /\ Exists(d)'
         /\ files'[path[d]].of = FileAt(d).of
         /\ files'[path[d]].written = FileAt(d).written
<1>1. d \in Days /\ Exists(d) /\ ~run.force /\ Day \in Days /\ path \in [Days -> 0 .. Len(files)]
  BY BatchFacts DEF KeepsFound
<1>2. CASE UNCHANGED <<files, path>>
  BY <1>1, <1>2 DEF FileAt, Exists
<1>3. CASE Truncate
  <2>1. d # Day
    BY <1>1, <1>3 DEF Truncate, Skips
  <2> QED
    BY <1>1, <1>3, <2>1, TruncateEffect DEF FileAt, Exists
<1>4. CASE PutPart \/ Damage
  <2>1. run.phase # "write" \/ d # Day
    BY DEF KeepsFound
  <2> QED
    BY <1>1, <1>4, <2>1, FileEffect DEF FileAt, Exists
<1>5. CASE Caught
  <2>1. d # Day /\ UNCHANGED files
    BY <1>5 DEF KeepsFound, Caught
  <2>2. path' = path \/ path' = [path EXCEPT ![Day] = 0]
    BY <1>5 DEF Caught, Removed
  <2> QED
    BY <1>1, <2>1, <2>2 DEF FileAt, Exists
<1>6. UNCHANGED <<files, path>> \/ Truncate \/ PutPart \/ Damage \/ Caught
  BY DEF Next, Batch, Reader, vars, store, reader, batch, StartRun, LoadFails, SkipExisting,
     CannotOpen, WriteFails, CloseFile, Verify, Kill, Scan, OpenDay, ReadPart, Use
<1> QED
  BY <1>2, <1>3, <1>4, <1>5, <1>6

\* How the batch's phase moves on the day it is at.
LEMMA FoundMoves ==
  ASSUME Typed, [Next]_vars, run.phase \notin Idle
  PROVE  /\ found' = found /\ run'.force = run.force
         /\ run'.phase \in {"write", "verify", "caught"} =>
              /\ Day' = Day
              /\ run.phase \in {"write", "verify", "caught"} \/ ~Skips(Day)
<1>1. run \in Run
  BY BatchFacts
<1>2. \A p \in Phases :
        LET r == [run EXCEPT !.phase = p] IN r.phase = p /\ r.at = run.at /\ r.force = run.force
  BY <1>1 DEF Run, Phases
<1>3. \A failed \in BOOLEAN : Advanced(failed).force = run.force /\ Advanced(failed).phase \in {"load", "done"}
  BY <1>1, AdvancedFields, AdvancedTyped
<1>4. CASE StartRun
  BY <1>4 DEF StartRun
<1>5. CASE LoadFails \/ SkipExisting \/ Caught
  BY <1>3, <1>5 DEF LoadFails, SkipExisting, Caught
<1>6. CASE Truncate \/ CannotOpen
  <2>1. run'.phase \in {"write", "caught"} /\ run'.at = run.at /\ run'.force = run.force /\ ~Skips(Day) /\ found' = found
    BY <1>2, <1>6 DEF Truncate, CannotOpen, Phases
  <2> QED
    BY <2>1 DEF Day, Archive
<1>7. CASE WriteFails \/ CloseFile \/ Verify \/ Kill
  <2>1. /\ found' = found
        /\ \/ run' = Advanced(FALSE)
           \/ run' = [run EXCEPT !.phase = "killed"]
           \/ run.phase \in {"write", "verify"} /\ \E p \in {"verify", "caught"} : run' = [run EXCEPT !.phase = p]
    BY <1>7 DEF WriteFails, CloseFile, Verify, Kill, Succeeded
  <2>2. CASE run' = Advanced(FALSE) \/ run' = [run EXCEPT !.phase = "killed"]
    BY <1>2, <1>3, <2>1, <2>2 DEF Phases
  <2>3. CASE run.phase \in {"write", "verify"} /\ \E p \in {"verify", "caught"} : run' = [run EXCEPT !.phase = p]
    BY <1>2, <2>1, <2>3 DEF Day, Archive, Phases
  <2> QED
    BY <2>1, <2>2, <2>3
<1>8. CASE UNCHANGED <<run, found>>
  BY <1>8 DEF Day, Archive
<1>9. PutPart \/ Damage \/ Reader \/ UNCHANGED vars => UNCHANGED <<run, found>>
  BY DEF Reader, vars, store, batch, Scan, OpenDay, ReadPart, Use, PutPart, Damage
<1> QED
  BY <1>4, <1>5, <1>6, <1>7, <1>8, <1>9 DEF Next, Batch

\* What a run found stays with it.
LEMMA KeepsFoundStays == Typed /\ NamesDiffer /\ KeepsFound /\ [Next]_vars => KeepsFound'
<1>1. SUFFICES ASSUME Typed, NamesDiffer, KeepsFound, [Next]_vars, run'.phase \notin Idle PROVE KeepsFound'
  BY DEF KeepsFound
<1>2. CASE run.phase \notin Idle
  <2>1. /\ found' = found /\ run'.force = run.force
        /\ run'.phase \in {"write", "verify", "caught"} =>
             /\ Day' = Day
             /\ run.phase \in {"write", "verify", "caught"} \/ ~Skips(Day)
    BY <1>1, <1>2, FoundMoves
  <2>2. (run.force => found = {}) /\ \A d \in found : Exists(d)
    BY <1>1, <1>2 DEF KeepsFound
  <2>3. \A d \in found : Exists(d)'
    BY <1>1, <1>2, FoundStays
  <2>4. ~Skips(Day) => Day \notin found
    BY <2>2 DEF Skips
  <2>5. run.phase \in {"write", "verify", "caught"} => Day \notin found
    BY <1>1, <1>2 DEF KeepsFound
  <2> QED
    BY <2>1, <2>2, <2>3, <2>4, <2>5 DEF KeepsFound
<1>3. CASE run.phase \in Idle
  <2>1. CASE StartRun
    <3>1. PICK force \in BOOLEAN, verify \in BOOLEAN :
            /\ run' = [phase |-> "load", at |-> 1, force |-> force, verify |-> verify, failed |-> FALSE]
            /\ found' = IF force THEN {} ELSE {d \in Days : Exists(d)}
      BY <2>1 DEF StartRun
    <3>2. run'.phase = "load" /\ run'.force = force
      BY <3>1
    <3>3. \A d : Exists(d)' = Exists(d)
      BY <2>1 DEF StartRun, store, Exists
    <3> QED
      BY <3>1, <3>2, <3>3 DEF KeepsFound
  <2>2. CASE ~StartRun
    <3>1. UNCHANGED run
      BY <1>1, <1>3, <2>2 DEF Next, Batch, Reader, vars, batch, LoadFails, SkipExisting, Truncate, CannotOpen,
         PutPart, WriteFails, CloseFile, Verify, Caught, Kill, Damage, Scan, OpenDay, ReadPart, Use, Idle
    <3> QED
      BY <1>1, <1>3, <3>1
  <2> QED
    BY <2>1, <2>2
<1> QED
  BY <1>2, <1>3

\* Without --force a run leaves every day it found, from its start to its end: it
\* writes none of them again, and no failure of another's removes one.
THEOREM UnforcedRunsKeepDays == Spec => UnforcedRunKeepsDays
<1>1. Init => KeepsFound
  BY DEF Init, KeepsFound, Idle
<1>2. Typed /\ BatchInv /\ KeepsFound /\ [Next]_vars => KeepsFound'
  BY KeepsFoundStays DEF BatchInv
<1>3. Typed /\ BatchInv /\ KeepsFound /\ [Next]_vars =>
        (run.phase \notin Idle => \A d \in found :
           /\ path'[d] = path[d]
           /\ files'[path[d]].of = FileAt(d).of
           /\ files'[path[d]].written = FileAt(d).written)
  BY FoundStays DEF BatchInv
<1> QED
  BY <1>1, <1>2, <1>3, BatchInvariant, PTL DEF Spec, UnforcedRunKeepsDays

-----------------------------------------------------------------------------
(* The codec.  Every stream is followed to its end or to where it breaks    *)
(* off: what was written is read back, or nothing is.                       *)

(* Powers of two.                                                           *)

\* The recursive function is one: its value at zero, and twice the value before.
LEMMA PowersAre ==
  /\ Pow2 \in [Nat -> Nat]
  /\ Pow2[0] = 1
  /\ \A n \in Nat \ {0} : Pow2[n] = 2 * Pow2[n - 1]
<1> DEFINE step(n) == [x \in Nat \X (1 .. n) |-> 2 * x[1]]
           Rec(f, n) == Recursion(f, n, Nat, 1, step(n))
           upTo(n) == CHOOSE f : Rec(f, n)
           whole == [n \in Nat |-> upTo(n)[n]]
<1>1. ASSUME NEW n \in Nat
      PROVE  Rec(upTo(n), n)
  <2>1. step(n) \in [Nat \X (1 .. n) -> Nat]
    OBVIOUS
  <2>2. \E f : Rec(f, n)
    <3> HIDE DEF step
    <3> QED
      BY <2>1, RecursionExists
  <2>3. QED
    <3> HIDE DEF Rec
    <3> QED
      BY <2>2
<1>2. ASSUME NEW n \in Nat
      PROVE  /\ upTo(n) \in [0 .. n -> Nat] /\ upTo(n)[0] = 1
             /\ \A k \in 1 .. n : upTo(n)[k] = 2 * upTo(n)[k - 1]
  <2>1. upTo(n) \in [0 .. n -> Nat] /\ upTo(n)[0] = 1 /\ \A k \in 1 .. n : upTo(n)[k] = step(n)[<<upTo(n)[k - 1], k>>]
    <3> HIDE DEF upTo, step
    <3> QED
      BY <1>1 DEF Recursion
  <2> HIDE DEF upTo
  <2>2. ASSUME NEW k \in 1 .. n PROVE upTo(n)[k] = 2 * upTo(n)[k - 1]
    <3>1. upTo(n)[k - 1] \in Nat
      BY <2>1
    <3>2. <<upTo(n)[k - 1], k>> \in Nat \X (1 .. n)
      BY <3>1
    <3>3. QED
      BY <2>1, <3>1, <3>2
  <2>3. QED
    BY <2>1, <2>2
<1>3. ASSUME NEW n \in Nat \ {0} PROVE upTo(n)[n - 1] = upTo(n - 1)[n - 1]
  <2> DEFINE f == upTo(n)
             g == upTo(n - 1)
             P == {k \in 0 .. n - 1 : f[k] = g[k]}
  <2>1. n - 1 \in Nat
    OBVIOUS
  <2>2. f[0] = 1 /\ g[0] = 1 /\ (\A k \in 1 .. n : f[k] = 2 * f[k - 1]) /\ (\A k \in 1 .. n - 1 : g[k] = 2 * g[k - 1])
    <3> HIDE DEF upTo
    <3> QED
      BY <1>2, <2>1
  <2> HIDE DEF f, g
  <2>3. 0 \in P /\ \A k \in 1 .. n - 1 : k - 1 \in P => k \in P
    BY <2>2
  <2>4. \A k \in 0 .. n - 1 : k \in P
    <3> HIDE DEF P
    <3> QED
      BY <2>1, <2>3, NatUpTo
  <2>5. f[n - 1] = g[n - 1]
    BY <2>4
  <2>6. QED
    BY <2>5 DEF f, g
<1> HIDE DEF upTo
<1>4. whole \in [Nat -> Nat]
  BY <1>2
<1>5. whole[0] = 1
  BY <1>2
<1>6. ASSUME NEW n \in Nat \ {0} PROVE whole[n] = 2 * whole[n - 1]
  <2>1. upTo(n)[n] = 2 * upTo(n)[n - 1]
    BY <1>2
  <2>2. QED
    BY <1>3, <2>1
<1> HIDE DEF whole
<1> DEFINE Is(f) == f = [n \in Nat |-> IF n = 0 THEN 1 ELSE 2 * f[n - 1]]
<1>7. Is(whole)
  BY <1>4, <1>5, <1>6
<1>8. Pow2 = CHOOSE f : Is(f)
  BY DEF Pow2
<1>9. Is(Pow2)
  <2> HIDE DEF Is
  <2> QED
    BY <1>7, <1>8
<1>10. Pow2[0] = 1 /\ \A n \in Nat \ {0} : Pow2[n] = 2 * Pow2[n - 1]
  <2> HIDE DEF Pow2
  <2> QED
    BY <1>9
<1>11. Pow2 \in [Nat -> Nat]
  <2> HIDE DEF Pow2
  <2>1. Pow2 = [n \in Nat |-> IF n = 0 THEN 1 ELSE 2 * Pow2[n - 1]]
    BY <1>9
  <2>2. ASSUME NEW n \in Nat PROVE Pow2[n] \in Nat
    <3> DEFINE P == {k \in 0 .. n : Pow2[k] \in Nat}
    <3>1. 0 \in P /\ \A k \in 1 .. n : k - 1 \in P => k \in P
      BY <1>10
    <3>2. \A k \in 0 .. n : k \in P
      <4> HIDE DEF P
      <4> QED
        BY <3>1, NatUpTo
    <3>3. QED
      BY <3>2
  <2>3. QED
    BY <2>1, <2>2
<1>12. QED
  BY <1>10, <1>11

\* The power of a sum.
LEMMA PowersAdd ==
  ASSUME NEW m \in Nat, NEW n \in Nat
  PROVE  Pow2[m + n] = Pow2[m] * Pow2[n]
<1> DEFINE P == {k \in 0 .. n : Pow2[m + k] = Pow2[m] * Pow2[k]}
<1>1. 0 \in P
  BY PowersAre
<1>2. ASSUME NEW k \in 1 .. n, k - 1 \in P PROVE k \in P
  <2>1. Pow2[m + k] = 2 * Pow2[m + (k - 1)] /\ Pow2[k] = 2 * Pow2[k - 1]
    <3>1. m + k \in Nat \ {0} /\ k \in Nat \ {0} /\ (m + k) - 1 = m + (k - 1)
      OBVIOUS
    <3>2. QED
      BY <3>1, PowersAre
  <2>2. Pow2[m] \in Nat /\ Pow2[k - 1] \in Nat /\ Pow2[m + (k - 1)] = Pow2[m] * Pow2[k - 1]
    BY <1>2, PowersAre
  <2>3. QED
    BY <2>1, <2>2
<1>3. \A k \in 0 .. n : k \in P
  <2> HIDE DEF P
  <2> QED
    BY <1>1, <1>2, NatUpTo
<1>4. QED
  BY <1>3

\* Powers are positive, and twice a lower one is at most a higher one.
LEMMA PowersGrow ==
  ASSUME NEW n \in Nat
  PROVE  /\ Pow2[n] \in Nat \ {0}
         /\ \A m \in Nat : m < n => 2 * Pow2[m] <= Pow2[n]
<1>1. ASSUME NEW m \in Nat PROVE Pow2[m] > 0
  <2> DEFINE P == {k \in 0 .. m : Pow2[k] > 0}
  <2>1. 0 \in P /\ \A k \in 1 .. m : k - 1 \in P => k \in P
    BY PowersAre
  <2>2. \A k \in 0 .. m : k \in P
    <3> HIDE DEF P
    <3> QED
      BY <2>1, NatUpTo
  <2>3. QED
    BY <2>2
<1>2. ASSUME NEW m \in Nat, m < n PROVE 2 * Pow2[m] <= Pow2[n]
  <2>1. n - 1 - m \in Nat /\ n - 1 \in Nat /\ n = 1 + (n - 1) /\ n - 1 = m + (n - 1 - m)
    BY <1>2
  <2>2. Pow2[n - 1] = Pow2[m] * Pow2[n - 1 - m] /\ Pow2[n] = 2 * Pow2[n - 1]
    <3> DEFINE d == n - 1 - m
    <3>1. d \in Nat /\ n - 1 = m + d
      BY <2>1
    <3> HIDE DEF d
    <3>2. Pow2[m + d] = Pow2[m] * Pow2[d]
      BY <3>1, PowersAdd
    <3>3. Pow2[n] = 2 * Pow2[n - 1]
      BY <1>2, PowersAre
    <3>4. QED
      BY <3>1, <3>2, <3>3 DEF d
  <2>3. Pow2[n - 1 - m] \in Nat /\ Pow2[n - 1 - m] >= 1 /\ Pow2[m] \in Nat
    BY <1>1, <2>1, PowersAre
  <2>4. \A a \in Nat, b \in Nat : b >= 1 => a * b >= a
    OBVIOUS
  <2>5. QED
    BY <2>2, <2>3, <2>4
<1>3. QED
  BY <1>1, <1>2, PowersAre

-----------------------------------------------------------------------------
(* Numbers and digits.                                                      *)

\* Number is a sum of as many terms as there are digits.
SumsDigits(f, d, w, n) ==
  /\ f \in [0 .. n -> Nat] /\ Number(d, w, n) = f[n] /\ f[0] = 0
  /\ \A k \in 1 .. n : f[k] = f[k - 1] + d[k] * Pow2[w * (k - 1)]

\* The sums of the digits up to each of them.
LEMMA NumberIs ==
  ASSUME NEW n \in Nat, NEW w \in Nat, NEW d, \A k \in 1 .. n : d[k] \in Nat
  PROVE  \E f : SumsDigits(f, d, w, n)
<1> DEFINE step  == [x \in Nat \X (1 .. n) |-> x[1] + d[x[2]] * Pow2[w * (x[2] - 1)]]
           Is(f) == f = [k \in 0 .. n |-> IF k = 0 THEN 0 ELSE f[k - 1] + d[k] * Pow2[w * (k - 1)]]
           upto  == CHOOSE f : Is(f)
<1>1. ASSUME NEW k \in 1 .. n PROVE Pow2[w * (k - 1)] \in Nat
  <2>1. w * (k - 1) \in Nat
    OBVIOUS
  <2>2. QED
    BY <2>1, PowersAre
<1>2. step \in [Nat \X (1 .. n) -> Nat]
  <2>1. ASSUME NEW x \in Nat \X (1 .. n) PROVE x[1] + d[x[2]] * Pow2[w * (x[2] - 1)] \in Nat
    <3>1. x[1] \in Nat /\ d[x[2]] \in Nat /\ Pow2[w * (x[2] - 1)] \in Nat
      BY <1>1
    <3>2. QED
      BY <3>1
  <2>2. QED
    BY <2>1
<1>3. PICK f : Recursion(f, n, Nat, 0, step)
  <2> HIDE DEF step
  <2> QED
    BY <1>2, RecursionExists
<1>4. f \in [0 .. n -> Nat] /\ f[0] = 0 /\ \A k \in 1 .. n : f[k] = step[<<f[k - 1], k>>]
  <2> HIDE DEF step
  <2> QED
    BY <1>3 DEF Recursion
<1>5. ASSUME NEW k \in 1 .. n PROVE f[k] = f[k - 1] + d[k] * Pow2[w * (k - 1)]
  <2>1. <<f[k - 1], k>> \in Nat \X (1 .. n)
    BY <1>4
  <2>2. QED
    BY <1>4, <2>1
<1>6. Is(f)
  BY <1>4, <1>5
<1>7. Is(upto)
  <2> HIDE DEF Is
  <2> QED
    BY <1>6
<1>8. Number(d, w, n) = upto[n]
  BY DEF Number
<1> HIDE DEF upto
<1>9. upto[0] = 0 /\ \A k \in 1 .. n : upto[k] = upto[k - 1] + d[k] * Pow2[w * (k - 1)]
  BY <1>7
<1>10. ASSUME NEW m \in 0 .. n PROVE upto[m] \in Nat
  <2> DEFINE P == {k \in 0 .. n : upto[k] \in Nat}
  <2>1. 0 \in P
    BY <1>9
  <2>2. ASSUME NEW k \in 1 .. n, k - 1 \in P PROVE k \in P
    <3>1. upto[k] = upto[k - 1] + d[k] * Pow2[w * (k - 1)]
      BY <1>9
    <3>2. upto[k - 1] \in Nat /\ d[k] \in Nat /\ Pow2[w * (k - 1)] \in Nat
      BY <1>1, <2>2
    <3>3. QED
      BY <3>1, <3>2
  <2>3. \A k \in 0 .. n : k \in P
    <3> HIDE DEF P
    <3> QED
      BY <2>1, <2>2, NatUpTo
  <2>4. QED
    BY <2>3
<1>11. upto \in [0 .. n -> Nat]
  BY <1>7, <1>10
<1>12. QED
  BY <1>8, <1>9, <1>11 DEF SumsDigits

\* Digit by digit, and only the digits counted matter.
LEMMA NumberNext ==
  ASSUME NEW n \in Nat, NEW w \in Nat, NEW d, \A k \in 1 .. n : d[k] \in Nat
  PROVE  /\ Number(d, w, n) \in Nat
         /\ n = 0 => Number(d, w, n) = 0
         /\ n # 0 => Number(d, w, n) = Number(d, w, n - 1) + d[n] * Pow2[w * (n - 1)]
<1>1. PICK f : SumsDigits(f, d, w, n)
  BY NumberIs
<1>2. /\ f \in [0 .. n -> Nat] /\ Number(d, w, n) = f[n] /\ f[0] = 0
      /\ \A k \in 1 .. n : f[k] = f[k - 1] + d[k] * Pow2[w * (k - 1)]
  BY <1>1 DEF SumsDigits
<1>3. Number(d, w, n) \in Nat /\ (n = 0 => Number(d, w, n) = 0)
  BY <1>2
<1>4. ASSUME n # 0 PROVE Number(d, w, n) = Number(d, w, n - 1) + d[n] * Pow2[w * (n - 1)]
  <2>1. n - 1 \in Nat /\ \A k \in 1 .. n - 1 : d[k] \in Nat
    BY <1>4
  <2>2. PICK g : SumsDigits(g, d, w, n - 1)
    BY <2>1, NumberIs
  <2>3. /\ g \in [0 .. n - 1 -> Nat] /\ Number(d, w, n - 1) = g[n - 1] /\ g[0] = 0
        /\ \A k \in 1 .. n - 1 : g[k] = g[k - 1] + d[k] * Pow2[w * (k - 1)]
    BY <2>2 DEF SumsDigits
  <2> DEFINE P == {k \in 0 .. n - 1 : f[k] = g[k]}
  <2>4. 0 \in P
    BY <1>2, <2>1, <2>3
  <2>5. ASSUME NEW k \in 1 .. n - 1, k - 1 \in P PROVE k \in P
    <3>1. f[k] = f[k - 1] + d[k] * Pow2[w * (k - 1)]
      BY <1>2
    <3>2. g[k] = g[k - 1] + d[k] * Pow2[w * (k - 1)]
      BY <2>3
    <3>3. QED
      BY <2>5, <3>1, <3>2
  <2>6. \A k \in 0 .. n - 1 : k \in P
    <3> HIDE DEF P
    <3> QED
      BY <2>1, <2>4, <2>5, NatUpTo
  <2>7. f[n - 1] = g[n - 1] /\ n \in 1 .. n
    BY <2>1, <2>6
  <2>8. QED
    BY <1>2, <2>3, <2>7
<1>5. QED
  BY <1>3, <1>4

\* The same digits make the same number.
LEMMA NumberSame ==
  ASSUME NEW n \in Nat, NEW w \in Nat, NEW d, NEW e, \A k \in 1 .. n : d[k] \in Nat /\ e[k] = d[k]
  PROVE  Number(e, w, n) = Number(d, w, n)
<1> DEFINE P == {m \in 0 .. n : Number(e, w, m) = Number(d, w, m)}
<1>1. 0 \in P
  BY NumberNext
<1>2. ASSUME NEW m \in 1 .. n, m - 1 \in P PROVE m \in P
  <2>1. m \in Nat /\ m # 0 /\ (\A k \in 1 .. m : d[k] \in Nat) /\ (\A k \in 1 .. m : e[k] \in Nat)
    OBVIOUS
  <2>2. Number(d, w, m) = Number(d, w, m - 1) + d[m] * Pow2[w * (m - 1)]
    BY <2>1, NumberNext
  <2>3. Number(e, w, m) = Number(e, w, m - 1) + e[m] * Pow2[w * (m - 1)]
    BY <2>1, NumberNext
  <2>4. QED
    BY <1>2, <2>2, <2>3
<1>3. \A m \in 0 .. n : m \in P
  <2> HIDE DEF P
  <2> QED
    BY <1>1, <1>2, NatUpTo
<1>4. QED
  BY <1>3

\* The digits of a number that fits are the number again.
LEMMA DigitsOfNumber ==
  ASSUME NEW n \in Nat, NEW w \in Nat, NEW u \in Nat, u < Pow2[w * n]
  PROVE  /\ \A k \in 1 .. n : Digits(u, w, n)[k] \in 0 .. Pow2[w] - 1
         /\ Number(Digits(u, w, n), w, n) = u
<1> DEFINE d == Digits(u, w, n)
           P == {m \in 0 .. n : Number(d, w, m) = u % Pow2[w * m]}
<1>1. Pow2[w] \in Nat \ {0} /\ \A m \in 0 .. n : Pow2[w * m] \in Nat \ {0}
  <2>1. \A m \in 0 .. n : w * m \in Nat
    OBVIOUS
  <2>2. QED
    BY <2>1, PowersGrow
<1>2. ASSUME NEW k \in 1 .. n PROVE d[k] = (u \div Pow2[w * (k - 1)]) % Pow2[w]
  BY DEF Digits
<1>3. ASSUME NEW k \in 1 .. n PROVE d[k] \in 0 .. Pow2[w] - 1 /\ d[k] \in Nat
  <2> DEFINE a == Pow2[w * (k - 1)]
  <2>1. a \in Nat \ {0}
    <3>1. k - 1 \in 0 .. n
      OBVIOUS
    <3>2. QED
      BY <1>1, <3>1
  <2>2. u \div a \in Int
    <3> HIDE DEF a
    <3> QED
      BY <2>1, DivMod
  <2>3. (u \div a) % Pow2[w] \in 0 .. Pow2[w] - 1
    <3> HIDE DEF a
    <3> QED
      BY <1>1, <2>2, DivMod
  <2>4. QED
    BY <1>1, <1>2, <2>3
<1> HIDE DEF d
<1>4. 0 \in P
  <2>1. Number(d, w, 0) = 0
    BY NumberNext
  <2>2. w * 0 = 0 /\ Pow2[0] = 1 /\ u % 1 = 0
    BY PowersAre
  <2>3. QED
    BY <2>1, <2>2
<1>5. ASSUME NEW m \in 1 .. n, m - 1 \in P PROVE m \in P
  <2> DEFINE a == Pow2[w * (m - 1)]
  <2>1. Number(d, w, m) = Number(d, w, m - 1) + d[m] * a
    BY <1>3, NumberNext
  <2>2. Pow2[w * m] = a * Pow2[w]
    <3>1. w * (m - 1) \in Nat /\ w * m = w * (m - 1) + w
      OBVIOUS
    <3>2. QED
      BY <3>1, PowersAdd
  <2>3. a \in Nat \ {0}
    <3>1. m - 1 \in 0 .. n
      OBVIOUS
    <3>2. QED
      BY <1>1, <3>1
  <2>4. u % (a * Pow2[w]) = (u % a) + a * ((u \div a) % Pow2[w])
    <3> DEFINE p == Pow2[w]
    <3>1. p \in Nat \ {0} /\ u \in Int
      BY <1>1
    <3> HIDE DEF a, p
    <3>2. u % (a * p) = (u % a) + a * ((u \div a) % p)
      BY <2>3, <3>1, ModProduct
    <3>3. QED
      BY <3>2 DEF p
  <2>5. d[m] = (u \div a) % Pow2[w] /\ Number(d, w, m - 1) = u % a
    BY <1>2, <1>5
  <2> HIDE DEF a
  <2>6. d[m] * a = a * d[m]
    BY <1>3, <2>3
  <2>7. QED
    BY <2>1, <2>2, <2>4, <2>5, <2>6
<1>6. \A m \in 0 .. n : m \in P
  <2> HIDE DEF P
  <2> QED
    BY <1>4, <1>5, NatUpTo
<1>7. u % Pow2[w * n] = u
  BY <1>1
<1>8. QED
  BY <1>3, <1>6, <1>7 DEF d

\* What lies above the first m digits: a multiple of the power after them.
Above(d, w, n, m) == \E t \in Nat : Number(d, w, n) = Number(d, w, m) + Pow2[w * m] * t

\* So a number of n digits differs from its lowest m by such a multiple.
LEMMA NumberAbove ==
  ASSUME NEW n \in Nat, NEW w \in Nat, NEW d, \A k \in 1 .. n : d[k] \in Nat, NEW m \in 0 .. n
  PROVE  Above(d, w, n, m)
<1> DEFINE P == {i \in 0 .. n : i >= m => \E t \in Nat : Number(d, w, i) = Number(d, w, m) + Pow2[w * m] * t}
<1>1. ASSUME NEW i \in 0 .. n PROVE Number(d, w, i) \in Nat /\ w * i \in Nat /\ Pow2[w * i] \in Nat
  <2>1. w * i \in Nat
    OBVIOUS
  <2>2. QED
    BY <2>1, PowersAre, NumberNext
<1>2. m \in P
  <2>1. Number(d, w, m) = Number(d, w, m) + Pow2[w * m] * 0
    BY <1>1
  <2>2. QED
    BY <2>1
<1>3. 0 \in P
  <2>1. CASE m = 0
    BY <1>2, <2>1
  <2>2. CASE m # 0
    BY <2>2
  <2>3. QED
    BY <2>1, <2>2
<1>4. ASSUME NEW i \in 1 .. n, i - 1 \in P PROVE i \in P
  <2>1. CASE i <= m
    <3>1. i = m \/ ~(i >= m)
      BY <2>1
    <3>2. QED
      BY <1>2, <3>1
  <2>2. CASE i > m
    <3>1. PICK t \in Nat : Number(d, w, i - 1) = Number(d, w, m) + Pow2[w * m] * t
      BY <1>4, <2>2
    <3> DEFINE j == w * ((i - 1) - m)
               a == Pow2[w * m]
               b == Pow2[j]
    <3>2. j \in Nat /\ w * m \in Nat /\ w * (i - 1) = w * m + j
      BY <2>2
    <3>3. Pow2[w * (i - 1)] = a * b /\ a \in Nat /\ b \in Nat
      <4> HIDE DEF j
      <4>1. Pow2[w * m + j] = Pow2[w * m] * Pow2[j]
        BY <3>2, PowersAdd
      <4>2. Pow2[w * m] \in Nat /\ Pow2[j] \in Nat
        BY <3>2, PowersAre
      <4>3. QED
        BY <3>2, <4>1, <4>2
    <3>4. Number(d, w, i) = Number(d, w, i - 1) + d[i] * Pow2[w * (i - 1)]
      BY NumberNext
    <3> DEFINE x == Number(d, w, m)
    <3>5. x \in Nat /\ d[i] \in Nat
      BY <1>1
    <3> HIDE DEF a, b, j, x
    <3>6. (x + a * t) + d[i] * (a * b) = x + a * (t + d[i] * b) /\ t + d[i] * b \in Nat
      BY <3>3, <3>5
    <3>7. QED
      BY <3>1, <3>3, <3>4, <3>6 DEF a, x
  <2>3. QED
    BY <2>1, <2>2
<1>5. \A i \in 0 .. n : i \in P
  <2> HIDE DEF P
  <2> QED
    BY <1>3, <1>4, NatUpTo
<1>6. QED
  BY <1>5 DEF Above

-----------------------------------------------------------------------------
(* Varints.                                                                 *)

\* What was written lies in the stream from a position on, as far as the stream goes.
Lies(piece, s, pos) == \A i \in 1 .. Len(piece) : pos + i - 1 <= Len(s) => s[pos + i - 1] = piece[i]

\* It is read as the value it was made of, unless the stream ends before it does.
Reads(r, s, value, next) == r = IF next <= Len(s) + 1 THEN Read(value, next) ELSE Malformed

\* What the code takes for granted of 64, 8 and 128.
LEMMA Sizes ==
  /\ WordBits \in Nat \ {0} /\ ByteBits \in Nat \ {0} /\ ByteBits - 1 \in Nat \ {0}
  /\ WordBits - 1 \in Nat /\ WordBits - ByteBits \in Nat \ {0}
  /\ Block \in Nat \ {0} /\ MaxLength \in Nat \ {0}
  /\ Word \in Nat \ {0} /\ Byte \in Nat \ {0} /\ Half \in Nat \ {0}
  /\ Word = 2 * Pow2[WordBits - 1] /\ Pow2[WordBits - 1] \in Nat \ {0}
<1>1. /\ WordBits \in Nat \ {0} /\ ByteBits \in Nat \ {0} /\ ByteBits - 1 \in Nat \ {0}
      /\ WordBits - 1 \in Nat /\ WordBits - ByteBits \in Nat \ {0}
      /\ Block \in Nat \ {0} /\ MaxLength \in Nat \ {0}
  BY CodecAssumption
<1>2. Word \in Nat \ {0} /\ Byte \in Nat \ {0} /\ Half \in Nat \ {0} /\ Pow2[WordBits - 1] \in Nat \ {0}
  BY <1>1, PowersGrow DEF Word, Byte, Half
<1>3. Word = 2 * Pow2[WordBits - 1]
  BY <1>1, PowersAre DEF Word
<1>4. QED
  BY <1>1, <1>2, <1>3

\* A lower power is not above a higher one.
LEMMA PowerOrder ==
  ASSUME NEW m \in Nat, NEW n \in Nat, m <= n
  PROVE  Pow2[m] <= Pow2[n]
<1>1. CASE m = n
  BY <1>1, PowersAre
<1>2. CASE m < n
  BY <1>2, PowersGrow
<1>3. QED
  BY <1>1, <1>2

\* bits_for: so many bits hold the number.
LEMMA BitsAre ==
  ASSUME NEW u \in 0 .. Word - 1
  PROVE  BitsFor(u) \in 0 .. WordBits /\ u < Pow2[BitsFor(u)]
<1> DEFINE T == {b \in 0 .. WordBits : u < Pow2[b]}
           Is(b) == u < Pow2[b] /\ (b = 0 \/ u >= Pow2[b - 1])
<1>1. WordBits \in T
  BY Sizes DEF Word
<1>2. T \subseteq Nat /\ T # {}
  BY <1>1
<1>3. PICK m \in T : \A k \in T : ~(k < m)
  <2> HIDE DEF T
  <2> QED
    BY <1>2, LeastNatural
<1>4. m \in 0 .. WordBits /\ Is(m)
  <2>1. CASE m = 0
    BY <2>1
  <2>2. CASE m # 0
    <3>1. m - 1 \in 0 .. WordBits /\ m - 1 < m
      BY <2>2, Sizes
    <3>2. ~(u < Pow2[m - 1]) /\ Pow2[m - 1] \in Nat
      BY <1>3, <3>1, PowersAre
    <3>3. QED
      BY <3>2
  <2>3. QED
    BY <2>1, <2>2
<1>5. BitsFor(u) = CHOOSE b \in 0 .. WordBits : Is(b)
  BY DEF BitsFor
<1>6. BitsFor(u) \in 0 .. WordBits /\ Is(BitsFor(u))
  <2> HIDE DEF Is
  <2> QED
    BY <1>4, <1>5
<1>7. QED
  BY <1>6

\* The larger of two numbers.
LEMMA LargestOfTwo == ASSUME NEW a \in Int, NEW b \in Int PROVE Max({a, b}) \in {a, b} /\ Max({a, b}) >= a /\ Max({a, b}) >= b
<1>1. \E x \in {a, b} : \A y \in {a, b} : x >= y
  <2>1. CASE a >= b
    BY <2>1
  <2>2. CASE b >= a
    BY <2>2
  <2>3. QED
    BY <2>1, <2>2
<1>2. QED
  BY <1>1 DEF Max

\* A varint has enough bytes, and no more than are read.
LEMMA VarintLength ==
  ASSUME NEW u \in 0 .. Word - 1
  PROVE  LET n == Max({1, (BitsFor(u) + ByteBits - 2) \div (ByteBits - 1)})
         IN  n \in 1 .. MaxVarint /\ u < Pow2[(ByteBits - 1) * n]
<1> DEFINE b == BitsFor(u)
           w == ByteBits - 1
           q == (b + ByteBits - 2) \div (ByteBits - 1)
           n == Max({1, q})
<1>1. b \in 0 .. WordBits /\ u < Pow2[b] /\ w \in Nat \ {0} /\ WordBits \in Nat \ {0}
  BY BitsAre, Sizes
<1>2. q = (b + w - 1) \div w /\ MaxVarint = ((WordBits - 1) \div w) + 1
  BY Sizes DEF MaxVarint
<1> HIDE DEF b, w, q
<1>3. q \in Nat /\ w * q >= b /\ w * q <= b + w - 1
  <2> DEFINE r == (b + w - 1) % w
  <2>1. b + w - 1 \in Int
    BY <1>1
  <2>2. q \in Int /\ r \in 0 .. w - 1 /\ b + w - 1 = w * q + r
    BY <1>1, <1>2, <2>1, DivMod
  <2> HIDE DEF r
  <2>3. w * q >= b /\ w * q <= b + w - 1
    BY <1>1, <2>2
  <2>4. q >= 0
    <3>1. ASSUME q <= -1 PROVE FALSE
      <4>1. w * q <= -w /\ w * q \in Int /\ b \in Nat
        BY <1>1, <2>2, <3>1
      <4>2. QED
        BY <1>1, <2>3, <4>1
    <3>2. QED
      BY <2>2, <3>1
  <2>5. QED
    BY <2>2, <2>3, <2>4
<1>4. MaxVarint \in Nat /\ MaxVarint >= 1 /\ w * MaxVarint >= WordBits
  <2> DEFINE x == (WordBits - 1) \div w
             r == (WordBits - 1) % w
  <2>1. WordBits - 1 \in Nat
    BY <1>1
  <2>2. x \in Int /\ r \in 0 .. w - 1 /\ WordBits - 1 = w * x + r
    BY <1>1, <2>1, DivMod
  <2>3. MaxVarint = x + 1
    BY <1>2
  <2> HIDE DEF x, r
  <2>4. w * (x + 1) = w * x + w /\ w * x \in Int
    BY <1>1, <2>2
  <2>5. w * (x + 1) >= WordBits
    BY <1>1, <2>2, <2>4
  <2>6. x >= 0
    <3>1. ASSUME x <= -1 PROVE FALSE
      <4>1. w * (x + 1) <= 0 /\ w * (x + 1) \in Int
        BY <1>1, <2>2, <3>1
      <4>2. QED
        BY <1>1, <2>5, <4>1
    <3>2. QED
      BY <2>2, <3>1
  <2>7. QED
    BY <2>2, <2>3, <2>5, <2>6
<1>5. q <= MaxVarint
  <2>1. ASSUME q >= MaxVarint + 1 PROVE FALSE
    <3>1. w * q >= w * (MaxVarint + 1)
      BY <1>1, <1>3, <1>4, <2>1
    <3>2. w * (MaxVarint + 1) = w * MaxVarint + w /\ w * MaxVarint \in Nat
      BY <1>1, <1>4
    <3>3. QED
      BY <1>1, <1>3, <1>4, <3>1, <3>2
  <2>2. QED
    BY <1>3, <1>4, <2>1
<1>6. n \in {1, q} /\ n >= q /\ n >= 1
  <2>1. 1 \in Int /\ q \in Int
    BY <1>3
  <2>2. Max({1, q}) \in {1, q} /\ Max({1, q}) >= 1 /\ Max({1, q}) >= q
    BY <2>1, LargestOfTwo
  <2>3. QED
    BY <2>2
<1> HIDE DEF n
<1>7. n \in 1 .. MaxVarint
  BY <1>3, <1>4, <1>5, <1>6
<1>8. w * n >= b /\ w * n \in Nat
  <2>1. w * n >= w * q
    BY <1>1, <1>3, <1>6
  <2>2. QED
    BY <1>1, <1>3, <1>7, <2>1
<1>9. Pow2[b] <= Pow2[w * n] /\ Pow2[b] \in Nat /\ Pow2[w * n] \in Nat
  BY <1>1, <1>8, PowerOrder, PowersAre
<1>10. u < Pow2[w * n]
  BY <1>1, <1>9
<1>11. QED
  BY <1>7, <1>10 DEF n, w, q, b

\* put_varint: the digits of the number, all but the last one marked.
LEMMA VarintIs ==
  ASSUME NEW u \in 0 .. Word - 1
  PROVE  \E n \in 1 .. MaxVarint : \E d :
            /\ PutVarint(u) = [k \in 1 .. n |-> IF k < n THEN Half + d[k] ELSE d[k]]
            /\ \A k \in 1 .. n : d[k] \in 0 .. Half - 1
            /\ Number(d, ByteBits - 1, n) = u
<1> DEFINE n == Max({1, (BitsFor(u) + ByteBits - 2) \div (ByteBits - 1)})
           w == ByteBits - 1
           d == Digits(u, w, n)
<1>1. n \in 1 .. MaxVarint /\ u < Pow2[w * n]
  BY VarintLength
<1>2. PutVarint(u) = [k \in 1 .. n |-> IF k < n THEN Half + d[k] ELSE d[k]]
  BY DEF PutVarint
<1>3. w \in Nat /\ u \in Nat /\ n \in Nat
  BY <1>1, Sizes
<1>4. (\A k \in 1 .. n : d[k] \in 0 .. Pow2[w] - 1) /\ Number(d, w, n) = u
  <2> HIDE DEF n, w
  <2> QED
    BY <1>1, <1>3, DigitsOfNumber
<1>5. Pow2[w] = Half
  BY DEF Half
<1> HIDE DEF n, d
<1>6. QED
  BY <1>1, <1>2, <1>4, <1>5

\* What is in the set and below all of it is its smallest.
LEMMA LeastIs ==
  ASSUME NEW S, NEW m \in S, m \in Int, S \subseteq Int, \A x \in S : x >= m
  PROVE  Min(S) = m
<1>1. Min(S) \in S /\ \A y \in S : Min(S) <= y
  <2>1. \E x \in S : \A y \in S : x <= y
    OBVIOUS
  <2>2. QED
    BY <2>1 DEF Min
<1>2. Min(S) \in Int /\ Min(S) <= m /\ m <= Min(S)
  BY <1>1
<1>3. QED
  BY <1>2

\* get_varint reads what put_varint wrote, or the stream ends first.
LEMMA VarintRead ==
  ASSUME NEW u \in 0 .. Word - 1, NEW s \in Seq(Nat), NEW pos \in Nat \ {0}, Lies(PutVarint(u), s, pos)
  PROVE  /\ PutVarint(u) \in Seq(Nat) /\ Len(PutVarint(u)) > 0
         /\ Reads(GetVarint(s, pos), s, u, pos + Len(PutVarint(u)))
<1> DEFINE w == ByteBits - 1
<1>1. PICK n \in 1 .. MaxVarint : \E d :
        /\ PutVarint(u) = [k \in 1 .. n |-> IF k < n THEN Half + d[k] ELSE d[k]]
        /\ \A k \in 1 .. n : d[k] \in 0 .. Half - 1
        /\ Number(d, w, n) = u
  BY VarintIs
<1>2. PICK d :
        /\ PutVarint(u) = [k \in 1 .. n |-> IF k < n THEN Half + d[k] ELSE d[k]]
        /\ \A k \in 1 .. n : d[k] \in 0 .. Half - 1
        /\ Number(d, w, n) = u
  BY <1>1
<1> DEFINE e == PutVarint(u)
           ends == {k \in 1 .. MaxVarint : pos + k - 1 <= Len(s) /\ s[pos + k - 1] < Half}
           low == [k \in 1 .. n |-> s[pos + k - 1] % Half]
<1>3. Half \in Nat \ {0} /\ w \in Nat /\ MaxVarint \in Int /\ n \in Nat \ {0} /\ Len(s) \in Nat
  <2>1. Half \in Nat \ {0} /\ w \in Nat \ {0} /\ WordBits - 1 \in Int
    BY Sizes
  <2>2. MaxVarint \in Int
    <3> HIDE DEF w
    <3>1. (WordBits - 1) \div w \in Int
      BY <2>1, DivMod
    <3>2. QED
      BY <3>1 DEF MaxVarint, w
  <2>3. QED
    BY <2>1, <2>2
<1>4. e \in Seq(Nat) /\ Len(e) = n /\ \A k \in 1 .. n : e[k] = IF k < n THEN Half + d[k] ELSE d[k]
  <2>1. ASSUME NEW k \in 1 .. n PROVE (IF k < n THEN Half + d[k] ELSE d[k]) \in Nat
    BY <1>3, <1>2
  <2>2. QED
    BY <1>3, <1>2, <2>1
<1> HIDE DEF e
<1>5. ASSUME NEW k \in 1 .. n, pos + k - 1 <= Len(s)
      PROVE  s[pos + k - 1] = (IF k < n THEN Half + d[k] ELSE d[k]) /\ s[pos + k - 1] % Half = d[k]
  <2>1. s[pos + k - 1] = IF k < n THEN Half + d[k] ELSE d[k]
    BY <1>4, <1>5 DEF Lies, e
  <2>2. d[k] \in 0 .. Half - 1 /\ (Half + d[k]) % Half = d[k] /\ d[k] % Half = d[k]
    <3>1. d[k] \in 0 .. Half - 1
      BY <1>2
    <3>2. QED
      BY <1>3, <3>1, ModBelow
  <2>3. QED
    BY <2>1, <2>2
<1>6. ASSUME NEW k \in ends PROVE k >= n
  <2>1. SUFFICES ASSUME k < n PROVE FALSE
    BY <1>3
  <2>2. k \in 1 .. n /\ pos + k - 1 <= Len(s) /\ s[pos + k - 1] < Half
    BY <1>3, <2>1
  <2>3. s[pos + k - 1] = Half + d[k] /\ d[k] >= 0 /\ d[k] \in Int
    BY <1>3, <1>2, <1>5, <2>1, <2>2
  <2>4. QED
    BY <1>3, <2>2, <2>3
<1>7. GetVarint(s, pos) = IF ends = {} THEN Malformed
        ELSE Read(Unsigned(Number([k \in 1 .. Min(ends) |-> s[pos + k - 1] % Half], w, Min(ends))), pos + Min(ends))
  BY DEF GetVarint
<1>8. CASE pos + n <= Len(s) + 1
  <2>1. n \in ends
    <3>1. pos + n - 1 <= Len(s) /\ n \in 1 .. n
      BY <1>3, <1>8
    <3>2. s[pos + n - 1] = d[n] /\ d[n] < Half
      BY <1>3, <1>2, <1>5, <3>1
    <3>3. QED
      BY <3>1, <3>2
  <2>2. ends \subseteq Int
    OBVIOUS
  <2> HIDE DEF ends
  <2>3. Min(ends) = n
    BY <1>3, <1>6, <2>1, <2>2, LeastIs
  <2>4. Number(low, w, n) = Number(d, w, n)
    <3>1. \A k \in 1 .. n : d[k] \in Nat /\ low[k] = d[k]
      BY <1>3, <1>2, <1>5, <1>8
    <3> HIDE DEF low, w
    <3>2. QED
      BY <1>3, <3>1, NumberSame
  <2>5. Unsigned(u) = u
    BY Sizes, ModBelow DEF Unsigned
  <2>6. GetVarint(s, pos) = Read(u, pos + n)
    BY <1>2, <1>7, <2>1, <2>3, <2>4, <2>5
  <2>7. QED
    BY <1>3, <1>4, <1>8, <2>6 DEF Reads, e
<1>9. CASE ~(pos + n <= Len(s) + 1)
  <2>1. ASSUME NEW k \in ends PROVE FALSE
    <3>1. k >= n /\ k \in Int /\ pos + k - 1 <= Len(s)
      BY <1>6
    <3>2. QED
      BY <1>3, <1>9, <3>1
  <2>2. ends = {}
    BY <2>1
  <2>3. QED
    BY <1>3, <1>4, <1>7, <1>9, <2>2 DEF Reads, e
<1>10. QED
  BY <1>8, <1>9

-----------------------------------------------------------------------------
(* Blocks too wide to pack.                                                 *)

\* Whole words: read back as written, or the stream ends first.
LEMMA RawRead ==
  ASSUME NEW n \in Nat \ {0}, NEW values \in [1 .. n -> 0 .. Word - 1],
         NEW s \in Seq(Nat), NEW pos \in Nat \ {0}, Lies(PutRaw(values), s, pos)
  PROVE  /\ PutRaw(values) \in Seq(Nat)
         /\ Reads(GetRaw(s, pos, n), s, values, pos + Len(PutRaw(values)))
<1> DEFINE m == WordBytes
           e == PutRaw(values)
           digit(i) == Digits(values[i], ByteBits, m)
           of(k) == digit(((k - 1) \div m) + 1)[((k - 1) % m) + 1]
<1>1. m \in Nat \ {0} /\ WordBits <= ByteBits * m /\ ByteBits * m \in Nat
  <2> DEFINE w == ByteBits
             r == (WordBits + w - 1) % w
  <2>1. w \in Nat \ {0} /\ WordBits \in Nat \ {0} /\ WordBits + w - 1 \in Int
    BY Sizes
  <2>2. m = (WordBits + w - 1) \div w
    BY DEF WordBytes
  <2> HIDE DEF m, w
  <2>3. m \in Int /\ r \in 0 .. w - 1 /\ WordBits + w - 1 = w * m + r
    BY <2>1, <2>2, DivMod
  <2> HIDE DEF r
  <2>4. w * m >= WordBits /\ w * m \in Int
    BY <2>1, <2>3
  <2>5. ASSUME m <= 0 PROVE FALSE
    <3>1. w * m <= 0
      BY <2>1, <2>3, <2>5
    <3>2. QED
      BY <2>1, <2>4, <3>1
  <2>6. m \in Nat \ {0}
    BY <2>3, <2>5
  <2>7. QED
    BY <2>1, <2>4, <2>6 DEF w
<1>2. ASSUME NEW i \in 1 .. n
      PROVE  /\ \A b \in 1 .. m : digit(i)[b] \in 0 .. Byte - 1
             /\ Number(digit(i), ByteBits, m) = values[i]
  <2>1. Word <= Pow2[ByteBits * m] /\ Word \in Nat /\ Pow2[ByteBits * m] \in Nat
    BY <1>1, Sizes, PowerOrder, PowersAre DEF Word
  <2> DEFINE u == values[i]
  <2>2. u \in 0 .. Word - 1
    OBVIOUS
  <2> HIDE DEF u, m
  <2>3. u \in Nat /\ u < Pow2[ByteBits * m] /\ ByteBits \in Nat /\ m \in Nat
    BY <1>1, <2>1, <2>2, Sizes
  <2>4. /\ \A b \in 1 .. m : Digits(u, ByteBits, m)[b] \in 0 .. Pow2[ByteBits] - 1
        /\ Number(Digits(u, ByteBits, m), ByteBits, m) = u
    BY <2>3, DigitsOfNumber
  <2>5. QED
    BY <2>4 DEF Byte, u
<1>3. e = [k \in 1 .. n * m |-> of(k)]
  <2>1. Len(values) = n
    OBVIOUS
  <2>2. QED
    BY <2>1 DEF PutRaw
<1>4. ASSUME NEW i \in 1 .. n, NEW b \in 1 .. m
      PROVE  LET k == (i - 1) * m + b IN k \in 1 .. n * m /\ of(k) = digit(i)[b]
  <2> DEFINE k == (i - 1) * m + b
  <2> HIDE DEF m, digit
  <2>1. (i - 1) * m + m <= n * m /\ (i - 1) * m \in Nat /\ n * m \in Nat
    <3>1. i * m <= n * m /\ (i - 1) * m + m = i * m
      BY <1>1
    <3>2. QED
      BY <1>1, <3>1
  <2>2. k \in 1 .. n * m
    <3>1. b \in 1 .. m /\ m \in Nat
      BY <1>1
    <3>2. k \in Int /\ 1 <= k /\ k <= n * m
      BY <2>1, <3>1
    <3>3. QED
      BY <2>1, <3>2
  <2>3. k - 1 = m * (i - 1) + (b - 1) /\ k - 1 \in Int /\ i - 1 \in Int /\ b - 1 \in 0 .. m - 1
    BY <1>1
  <2> HIDE DEF k
  <2>4. (k - 1) \div m = i - 1 /\ (k - 1) % m = b - 1
    BY <1>1, <2>3, DivModIs
  <2>5. ((k - 1) \div m) + 1 = i /\ ((k - 1) % m) + 1 = b
    BY <2>4
  <2>6. of(k) = digit(i)[b]
    BY <2>5
  <2>7. QED
    BY <2>2, <2>6 DEF k
<1>5. ASSUME NEW k \in 1 .. n * m PROVE of(k) \in Nat
  <2> DEFINE i == ((k - 1) \div m) + 1
             b == ((k - 1) % m) + 1
             q == (k - 1) \div m
             r == (k - 1) % m
  <2>1. r \in 0 .. m - 1 /\ q \in Int /\ k - 1 = m * q + r
    <3>1. k - 1 \in Int
      BY <1>1
    <3>2. QED
      <4> HIDE DEF m
      <4> QED
        BY <1>1, <3>1, DivMod
  <2>2. q >= 0 /\ q < n
    <3> HIDE DEF m, q, r
    <3>1. ASSUME q <= -1 PROVE FALSE
      <4>1. m * q <= -m /\ m * q \in Int
        BY <1>1, <2>1, <3>1
      <4>2. QED
        BY <1>1, <2>1, <4>1
    <3>2. ASSUME q >= n PROVE FALSE
      <4>1. m * q >= n * m /\ m * q \in Int
        BY <1>1, <2>1, <3>2
      <4>2. QED
        BY <1>1, <2>1, <4>1
    <3>3. QED
      BY <2>1, <3>1, <3>2
  <2>3. i \in 1 .. n /\ b \in 1 .. m
    <3> HIDE DEF m, q, r
    <3>1. q + 1 \in 1 .. n /\ r + 1 \in 1 .. m
      BY <1>1, <2>1, <2>2
    <3>2. QED
      BY <3>1 DEF q, r
  <2>4. Byte \in Nat
    BY Sizes
  <2> HIDE DEF i, b, digit
  <2>5. digit(i)[b] \in Nat
    BY <1>2, <2>3, <2>4
  <2>6. QED
    BY <2>5 DEF i, b
<1> HIDE DEF of, m, digit
<1>6. n * m \in Nat
  BY <1>1
<1>7. e \in Seq(Nat) /\ Len(e) = n * m
  <2> DEFINE z == n * m
  <2>1. z \in Nat /\ e = [k \in 1 .. z |-> of(k)] /\ \A k \in 1 .. z : of(k) \in Nat
    BY <1>3, <1>5, <1>6
  <2> HIDE DEF e, z
  <2>2. e \in Seq(Nat) /\ Len(e) = z
    BY <2>1
  <2>3. QED
    BY <2>2 DEF z
<1> DEFINE piece(i) == [b \in 1 .. m |-> s[pos + (i - 1) * m + b - 1]]
           back == [i \in 1 .. n |-> Unsigned(Number(piece(i), ByteBits, m))]
<1>8. GetRaw(s, pos, n) = IF pos + n * m - 1 > Len(s) THEN Malformed ELSE Read(back, pos + n * m)
  BY DEF GetRaw, m
<1>9. CASE pos + n * m <= Len(s) + 1
  <2>1. ASSUME NEW i \in 1 .. n PROVE back[i] = values[i]
    <3>1. ASSUME NEW b \in 1 .. m PROVE piece(i)[b] = digit(i)[b] /\ digit(i)[b] \in Nat
      <4> DEFINE k == (i - 1) * m + b
      <4>1. k \in 1 .. n * m /\ of(k) = digit(i)[b]
        BY <1>4
      <4>2. (i - 1) * m \in Int /\ pos + (i - 1) * m + b - 1 = pos + k - 1
        BY <1>1
      <4> HIDE DEF k
      <4>3. pos + k - 1 <= Len(s)
        BY <1>6, <1>9, <4>1
      <4>4. s[pos + k - 1] = e[k]
        BY <1>7, <4>1, <4>3 DEF Lies
      <4>5. e[k] = of(k)
        BY <1>3, <4>1
      <4>6. piece(i)[b] = s[pos + k - 1]
        BY <4>2
      <4>7. digit(i)[b] \in Nat
        BY <1>2, Sizes
      <4>8. QED
        BY <4>1, <4>4, <4>5, <4>6, <4>7
    <3> DEFINE d == digit(i)
               p == piece(i)
    <3>2. \A b \in 1 .. m : d[b] \in Nat /\ p[b] = d[b]
      BY <3>1
    <3>3. ByteBits \in Nat /\ m \in Nat
      BY <1>1, Sizes
    <3>4. Number(p, ByteBits, m) = Number(d, ByteBits, m)
      <4> HIDE DEF d, p
      <4> QED
        BY <3>2, <3>3, NumberSame
    <3>5. Number(d, ByteBits, m) = values[i] /\ values[i] \in 0 .. Word - 1
      BY <1>2
    <3>6. Unsigned(values[i]) = values[i]
      BY <3>5, Sizes, ModBelow DEF Unsigned
    <3>7. QED
      BY <3>4, <3>5, <3>6
  <2>2. back = values
    BY <2>1
  <2>3. ~(pos + n * m - 1 > Len(s))
    BY <1>6, <1>9
  <2>4. QED
    BY <1>7, <1>8, <1>9, <2>2, <2>3 DEF Reads
<1>10. CASE ~(pos + n * m <= Len(s) + 1)
  <2>1. pos + n * m - 1 > Len(s)
    BY <1>6, <1>10
  <2>2. QED
    BY <1>7, <1>8, <1>10, <2>1 DEF Reads
<1>11. QED
  BY <1>7, <1>9, <1>10

-----------------------------------------------------------------------------
(* Packing: n values of so many bits, and the bytes they come out as.       *)

\* What pack and unpack keep while they run.
Registers == [out : Seq(Nat), taken : Nat, acc : Nat, held : Nat]

\* The fields of a register.
LEMMA RegistersAre ==
  ASSUME NEW r \in Registers
  PROVE  \E o \in Seq(Nat), c \in Nat, a \in Nat, h \in Nat :
           r = [out |-> o, taken |-> c, acc |-> a, held |-> h]
BY DEF Registers

\* One more digit.
LEMMA NumberAppend ==
  ASSUME NEW s \in Seq(Nat), NEW x \in Nat, NEW w \in Nat
  PROVE  Number(Append(s, x), w, Len(s) + 1) = Number(s, w, Len(s)) + x * Pow2[w * Len(s)]
<1> DEFINE n == Len(s)
           t == Append(s, x)
<1>1. n \in Nat /\ t[n + 1] = x /\ \A k \in 1 .. n : s[k] \in Nat /\ t[k] = s[k]
  OBVIOUS
<1>2. \A k \in 1 .. n + 1 : t[k] \in Nat
  OBVIOUS
<1> HIDE DEF n, t
<1>3. n + 1 \in Nat /\ n + 1 # 0 /\ (n + 1) - 1 = n
  BY <1>1
<1>4. Number(t, w, n + 1) = Number(t, w, n) + t[n + 1] * Pow2[w * n]
  BY <1>2, <1>3, NumberNext
<1>5. Number(t, w, n) = Number(s, w, n)
  BY <1>1, NumberSame
<1>6. QED
  BY <1>1, <1>4, <1>5 DEF n, t

\* A value goes in above the bits held, and none of them falls off the word.
LEMMA ShiftedIn ==
  ASSUME NEW r \in Registers, r.acc < Pow2[r.held], NEW b \in Nat, NEW x \in 0 .. Pow2[b] - 1,
         r.held + b <= WordBits
  PROVE  /\ ShiftIn(r, x, b) = [out |-> r.out, taken |-> r.taken + 1,
                                acc |-> r.acc + x * Pow2[r.held], held |-> r.held + b]
         /\ r.acc + x * Pow2[r.held] \in 0 .. Pow2[r.held + b] - 1
<1> DEFINE h == r.held
           a == r.acc
           p == Pow2[h]
           q == Pow2[b]
<1>1. h \in Nat /\ a \in Nat /\ r = [out |-> r.out, taken |-> r.taken, acc |-> a, held |-> h]
  BY DEF Registers
<1>2. p \in Nat \ {0} /\ q \in Nat \ {0} /\ Pow2[h + b] = p * q
  <2> HIDE DEF h
  <2> QED
    BY <1>1, PowersGrow, PowersAdd
<1>3. a \in 0 .. p - 1 /\ x \in 0 .. q - 1
  BY <1>1, <1>2
<1>4. h + b <= WordBits /\ h + b \in Nat /\ WordBits \in Nat
  BY <1>1, Sizes
<1>5. Pow2[h + b] <= Word /\ Pow2[h + b] \in Nat
  <2> HIDE DEF h
  <2> QED
    BY <1>4, PowerOrder, PowersAre DEF Word
<1>6. a + x * p \in 0 .. Pow2[h + b] - 1
  <2> HIDE DEF a, p, q
  <2>1. a + x * p \in 0 .. (p * q) - 1
    BY <1>2, <1>3, DigitBelow
  <2>2. QED
    BY <1>2, <2>1
<1>7. Unsigned(a + x * p) = a + x * p
  <2> DEFINE y == a + x * p
  <2>1. y \in 0 .. Word - 1 /\ Word \in Nat \ {0}
    BY <1>5, <1>6, Sizes
  <2> HIDE DEF y
  <2>2. y % Word = y
    BY <2>1, ModBelow
  <2>3. QED
    BY <2>2 DEF y, Unsigned
<1>8. ShiftIn(r, x, b) = [out |-> r.out, taken |-> r.taken + 1, acc |-> Unsigned(a + x * p), held |-> h + b]
  BY DEF ShiftIn
<1>9. QED
  BY <1>6, <1>7, <1>8

\* The lowest bits go out, the others remain.
LEMMA ShiftedOut ==
  ASSUME NEW r \in Registers, r.acc < Pow2[r.held], NEW b \in Nat, b <= r.held
  PROVE  \E x \in 0 .. Pow2[b] - 1, y \in 0 .. Pow2[r.held - b] - 1 :
           /\ r.acc = x + y * Pow2[b]
           /\ x = r.acc % Pow2[b]
           /\ ShiftOut(r, b) = [out |-> Append(r.out, x), taken |-> r.taken, acc |-> y, held |-> r.held - b]
<1> DEFINE h == r.held
           a == r.acc
           g == h - b
           p == Pow2[b]
           q == Pow2[g]
           x == a % p
           y == a \div p
<1>1. h \in Nat /\ a \in Nat /\ g \in Nat /\ r = [out |-> r.out, taken |-> r.taken, acc |-> a, held |-> h]
  BY DEF Registers
<1>2. p \in Nat \ {0} /\ q \in Nat \ {0} /\ Pow2[h] = p * q
  <2>1. h = b + g
    BY <1>1
  <2> HIDE DEF h, g
  <2>2. QED
    BY <1>1, <2>1, PowersGrow, PowersAdd
<1>3. x \in 0 .. p - 1 /\ y \in Int /\ a = p * y + x
  <2> HIDE DEF a, p
  <2> QED
    BY <1>1, <1>2, DivMod
<1>4. y \in 0 .. q - 1
  <2>1. a < p * q /\ a \in Nat
    BY <1>1, <1>2
  <2> HIDE DEF a, p, q, x, y
  <2>2. ASSUME y <= -1 PROVE FALSE
    <3>1. p * y <= -p /\ p * y \in Int
      BY <1>2, <1>3, <2>2
    <3>2. QED
      BY <1>2, <1>3, <2>1, <3>1
  <2>3. ASSUME y >= q PROVE FALSE
    <3>1. p * y >= p * q /\ p * y \in Int /\ p * q \in Int
      BY <1>2, <1>3, <2>3
    <3>2. QED
      BY <1>2, <1>3, <2>1, <3>1
  <2>4. QED
    BY <1>2, <1>3, <2>2, <2>3
<1>5. ShiftOut(r, b) = [out |-> Append(r.out, x), taken |-> r.taken, acc |-> y, held |-> g]
  BY DEF ShiftOut
<1>6. a = x + y * p /\ x = r.acc % Pow2[b]
  <2>1. a = x + y * p
    <3> HIDE DEF a, p, x, y
    <3> QED
      BY <1>2, <1>3
  <2>2. QED
    BY <2>1
<1> HIDE DEF x, y
<1>7. QED
  BY <1>3, <1>4, <1>5, <1>6

\* The register after so many turns of packing.
Packing(r, values, n, bits, t) ==
  /\ r \in Registers
  /\ r.taken <= n /\ r.taken + Len(r.out) = t
  /\ Len(r.out) * ByteBits + r.held = r.taken * bits
  /\ r.acc < Pow2[r.held]
  /\ \A k \in 1 .. Len(r.out) : r.out[k] \in 0 .. Byte - 1
  /\ Number(values, bits, r.taken)
       = Number(r.out, ByteBits, Len(r.out)) + r.acc * Pow2[ByteBits * Len(r.out)]

\* How many whole bytes some bits make.
LEMMA WholeBytes ==
  ASSUME NEW n \in Nat, NEW bits \in Nat
  PROVE  LET q == (n * bits) \div ByteBits
             h == n * bits - q * ByteBits
         IN  /\ q \in Nat /\ h \in 0 .. ByteBits - 1
             /\ PackedBytes(n, bits) = IF h = 0 THEN q ELSE q + 1
<1> DEFINE w == ByteBits
           z == n * bits
           q == z \div w
           h == z - q * w
<1>1. w \in Nat \ {0} /\ z \in Nat
  BY Sizes
<1> HIDE DEF w, z
<1>2. q \in Int /\ z % w \in 0 .. w - 1 /\ z = w * q + (z % w)
  BY <1>1, DivMod
<1> DEFINE m == z % w
<1> HIDE DEF q, m
<1>3. h = m /\ m \in 0 .. w - 1 /\ z = w * q + m
  BY <1>1, <1>2 DEF m
<1>4. q \in Nat
  <2>1. ASSUME q <= -1 PROVE FALSE
    <3>1. w * q <= -w /\ w * q \in Int
      BY <1>1, <1>2, <2>1
    <3>2. QED
      BY <1>1, <1>3, <3>1
  <2>2. QED
    BY <1>2, <2>1
<1>5. (z + w - 1) \div w = IF m = 0 THEN q ELSE q + 1
  <2>1. CASE m = 0
    <3>1. z + w - 1 = w * q + (w - 1) /\ w - 1 \in 0 .. w - 1 /\ z + w - 1 \in Int
      BY <1>1, <1>2, <1>3, <2>1
    <3> DEFINE x == z + w - 1
               y == w - 1
    <3> HIDE DEF x, y
    <3>2. x \div w = q
      BY <1>1, <1>2, <3>1, DivModIs DEF x, y
    <3>3. QED
      BY <2>1, <3>2 DEF x
  <2>2. CASE m # 0
    <3>1. z + w - 1 = w * (q + 1) + (m - 1) /\ m - 1 \in 0 .. w - 1 /\ z + w - 1 \in Int /\ q + 1 \in Int
      BY <1>1, <1>2, <1>3, <2>2
    <3> DEFINE x == z + w - 1
               y == m - 1
               v == q + 1
    <3>2. x = w * v + y /\ y \in 0 .. w - 1 /\ x \in Int /\ v \in Int
      BY <3>1
    <3> HIDE DEF x, y, v
    <3>3. x \div w = v
      BY <1>1, <3>2, DivModIs
    <3>4. QED
      BY <2>2, <3>3 DEF x, v
  <2>3. QED
    BY <2>1, <2>2
<1>6. PackedBytes(n, bits) = (z + w - 1) \div w
  BY DEF PackedBytes, z, w
<1>7. QED
  BY <1>3, <1>4, <1>5, <1>6 DEF q, z, w

\* pack: a byte leaves or a value comes in, and no bit is lost.
LEMMA PackTurns ==
  ASSUME NEW n \in Nat, NEW bits \in 1 .. MaxPackedBits, NEW values \in [1 .. n -> 0 .. Pow2[bits] - 1],
         NEW t \in 1 .. n + ((n * bits) \div ByteBits), NEW r, Packing(r, values, n, bits, t - 1)
  PROVE  Packing(PackTurn(r, values, bits), values, n, bits, t)
<1> DEFINE w == ByteBits
           q == (n * bits) \div w
<1>1. r \in Registers
  BY DEF Packing
<1>2. PICK o \in Seq(Nat), c \in Nat, a \in Nat, h \in Nat :
        r = [out |-> o, taken |-> c, acc |-> a, held |-> h]
  BY <1>1, RegistersAre
<1>3. PICK k \in Nat : k = Len(o)
  OBVIOUS
<1>4. /\ c <= n /\ c + k = t - 1 /\ k * w + h = c * bits /\ a < Pow2[h]
      /\ \A i \in 1 .. k : o[i] \in 0 .. Byte - 1
      /\ Number(values, bits, c) = Number(o, w, k) + a * Pow2[w * k]
  BY <1>2, <1>3 DEF Packing
<1>5. w \in Nat \ {0} /\ bits \in Nat \ {0} /\ bits + w <= WordBits /\ WordBits \in Nat
  BY Sizes DEF MaxPackedBits
<1>6. q \in Nat /\ n * bits - q * w \in 0 .. w - 1
  BY <1>5, WholeBytes
<1>7. t \in 1 .. n + q
  OBVIOUS
<1>8. Pow2[w] = Byte
  BY DEF Byte
<1> HIDE DEF w, q
<1>9. w * k \in Nat /\ Pow2[bits] \in Nat \ {0} /\ Byte \in Nat \ {0}
  BY <1>5, Sizes, PowersGrow
<1>10. Pow2[w * k] \in Nat \ {0}
  BY <1>9, PowersGrow
<1>11. \A i \in 1 .. n : values[i] \in 0 .. Pow2[bits] - 1 /\ values[i] \in Nat
  BY <1>9
<1>12. Number(o, w, k) \in Nat
  <2>1. \A i \in 1 .. k : o[i] \in Nat
    BY <1>3
  <2>2. QED
    BY <1>5, <2>1, NumberNext
<1>13. CASE h >= w
  <2>1. r.held = h /\ r.acc = a /\ r.out = o /\ r.taken = c
    BY <1>2
  <2>2. r \in Registers /\ r.acc < Pow2[r.held] /\ w \in Nat /\ w <= r.held
    BY <1>1, <1>4, <1>5, <1>13, <2>1
  <2>3. PICK x \in 0 .. Pow2[w] - 1, y \in 0 .. Pow2[r.held - w] - 1 :
          /\ r.acc = x + y * Pow2[w]
          /\ x = r.acc % Pow2[w]
          /\ ShiftOut(r, w) = [out |-> Append(r.out, x), taken |-> r.taken, acc |-> y, held |-> r.held - w]
    BY <2>2, ShiftedOut
  <2>4. h - w \in Nat
    BY <1>5, <1>13
  <2>5. /\ x \in 0 .. Byte - 1 /\ x \in Nat /\ y \in Nat /\ y < Pow2[h - w] /\ a = x + y * Byte
        /\ ShiftOut(r, w) = [out |-> Append(o, x), taken |-> c, acc |-> y, held |-> h - w]
    <3>1. x \in 0 .. Byte - 1 /\ y \in 0 .. Pow2[h - w] - 1
      BY <1>8, <2>1, <2>3
    <3>2. Pow2[h - w] \in Nat
      BY <2>4, PowersAre
    <3>3. x \in Nat /\ y \in Nat /\ y < Pow2[h - w]
      BY <1>9, <3>1, <3>2
    <3>4. QED
      BY <1>8, <2>1, <2>3, <3>1, <3>3
  <2> DEFINE e == Append(o, x)
             z == [out |-> e, taken |-> c, acc |-> y, held |-> h - w]
  <2>6. PackTurn(r, values, bits) = z
    BY <1>2, <1>13, <2>5 DEF PackTurn, w
  <2>7. e \in Seq(Nat) /\ Len(e) = k + 1 /\ \A i \in 1 .. k + 1 : e[i] \in 0 .. Byte - 1
    BY <1>3, <1>4, <2>5
  <2>8. Number(e, w, k + 1) = Number(o, w, k) + x * Pow2[w * k]
    BY <1>3, <1>5, <2>5, NumberAppend
  <2>9. Pow2[w * (k + 1)] = Pow2[w * k] * Byte
    <3>1. w * (k + 1) = w * k + w
      BY <1>5
    <3>2. Pow2[w * k + w] = Pow2[w * k] * Pow2[w]
      BY <1>5, <1>9, PowersAdd
    <3>3. QED
      BY <1>8, <3>1, <3>2
  <2> HIDE DEF e
  <2>10. (k + 1) * w + (h - w) = c * bits
    BY <1>4, <1>5
  <2>11. Number(values, bits, c) = Number(e, w, k + 1) + y * Pow2[w * (k + 1)]
    <3> DEFINE u == Number(o, w, k)
               p == Pow2[w * k]
    <3>1. u \in Nat /\ p \in Nat /\ Byte \in Nat
      BY <1>9, <1>10, <1>12
    <3> HIDE DEF u, p
    <3>2. u + (x + y * Byte) * p = (u + x * p) + y * (p * Byte)
      BY <2>5, <3>1
    <3>3. QED
      BY <1>4, <2>5, <2>8, <2>9, <3>2 DEF u, p
  <2>12. z \in Registers
    BY <2>4, <2>5, <2>7 DEF Registers
  <2>13. z.out = e /\ z.taken = c /\ z.acc = y /\ z.held = h - w
    OBVIOUS
  <2> HIDE DEF z
  <2>14. z.taken + Len(z.out) = t
    <3>1. c + k = t - 1 /\ t \in Int
      BY <1>4, <1>6, <1>7
    <3>2. Len(e) = k + 1
      BY <2>7
    <3>3. QED
      BY <2>13, <3>1, <3>2
  <2>15. QED
    BY <1>4, <2>5, <2>6, <2>7, <2>10, <2>11, <2>12, <2>13, <2>14 DEF Packing, w
<1>14. CASE h < w
  <2>1. c < n
    <3>1. SUFFICES ASSUME c = n PROVE FALSE
      BY <1>4
    <3> DEFINE z == n * bits
    <3>2. z = w * k + h /\ z \in Int /\ h \in 0 .. w - 1 /\ q = z \div w
      BY <1>4, <1>5, <1>14, <3>1 DEF q
    <3> HIDE DEF z
    <3>3. z \div w = k
      <4>1. w \in Nat \ {0} /\ k \in Int
        BY <1>5
      <4>2. QED
        BY <3>2, <4>1, DivModIs
    <3>4. QED
      BY <1>4, <1>7, <3>1, <3>2, <3>3
  <2> DEFINE x == values[c + 1]
  <2>2. c + 1 \in 1 .. n /\ x \in 0 .. Pow2[bits] - 1 /\ x \in Nat
    BY <1>11, <2>1
  <2>3. x % Pow2[bits] = x
    <3> HIDE DEF x
    <3> QED
      BY <1>9, <2>2, ModBelow
  <2>4. r.held = h /\ r.acc = a /\ r.out = o /\ r.taken = c
    BY <1>2
  <2> DEFINE y == a + x * Pow2[h]
             z == [out |-> o, taken |-> c + 1, acc |-> y, held |-> h + bits]
  <2>5. ShiftIn(r, x, bits) = z /\ y \in 0 .. Pow2[h + bits] - 1
    <3>1. r.held + bits <= WordBits /\ r.acc < Pow2[r.held] /\ bits \in Nat
      BY <1>4, <1>5, <1>14, <2>4
    <3> HIDE DEF x
    <3>2. /\ ShiftIn(r, x, bits) = [out |-> r.out, taken |-> r.taken + 1,
                                    acc |-> r.acc + x * Pow2[r.held], held |-> r.held + bits]
          /\ r.acc + x * Pow2[r.held] \in 0 .. Pow2[r.held + bits] - 1
      BY <1>1, <2>2, <3>1, ShiftedIn
    <3>3. QED
      BY <2>4, <3>2
  <2>6. PackTurn(r, values, bits) = z
    <3>1. ~(r.held >= ByteBits)
      BY <1>5, <1>14, <2>4 DEF w
    <3>2. QED
      BY <2>3, <2>4, <2>5, <3>1 DEF PackTurn
  <2>7. h + bits \in Nat /\ Pow2[h] \in Nat /\ Pow2[h + bits] \in Nat
    <3>1. h + bits \in Nat
      BY <1>5
    <3>2. QED
      BY <3>1, PowersAre
  <2>8. y \in Nat /\ y < Pow2[h + bits]
    <3> HIDE DEF y
    <3> QED
      BY <2>5, <2>7
  <2>9. k * w + (h + bits) = (c + 1) * bits
    BY <1>4, <1>5
  <2>10. Number(values, bits, c + 1) = Number(o, w, k) + y * Pow2[w * k]
    <3>1. Number(values, bits, c + 1) = Number(values, bits, c) + x * Pow2[bits * c]
      <4> DEFINE m == c + 1
      <4>1. m \in Nat /\ m # 0 /\ m - 1 = c
        OBVIOUS
      <4>2. \A i \in 1 .. m : values[i] \in Nat
        BY <1>11, <2>2
      <4> HIDE DEF m
      <4>3. Number(values, bits, m) = Number(values, bits, m - 1) + values[m] * Pow2[bits * (m - 1)]
        BY <1>5, <4>1, <4>2, NumberNext
      <4>4. QED
        BY <4>1, <4>3 DEF m
    <3>2. Pow2[bits * c] = Pow2[w * k] * Pow2[h]
      <4>1. bits * c = w * k + h
        BY <1>4, <1>5
      <4>2. QED
        BY <1>9, <4>1, PowersAdd
    <3> DEFINE u == Number(o, w, k)
               p == Pow2[w * k]
               b == Pow2[h]
    <3>3. u \in Nat /\ p \in Nat /\ b \in Nat
      BY <1>10, <1>12, <2>7
    <3> HIDE DEF u, p, b, x
    <3>4. (u + a * p) + x * (p * b) = u + (a + x * b) * p
      BY <2>2, <3>3
    <3>5. QED
      BY <1>4, <3>1, <3>2, <3>4 DEF u, p, b
  <2> HIDE DEF x, y
  <2>11. z \in Registers
    BY <2>7, <2>8 DEF Registers
  <2>12. z.out = o /\ z.taken = c + 1 /\ z.acc = y /\ z.held = h + bits
    OBVIOUS
  <2> HIDE DEF z
  <2>13. z.taken + Len(z.out) = t /\ z.taken <= n
    <3>1. c + k = t - 1 /\ t \in Int /\ c + 1 <= n
      BY <1>4, <1>6, <1>7, <2>2
    <3>2. QED
      BY <1>3, <2>12, <3>1
  <2>14. QED
    BY <1>3, <1>4, <2>6, <2>8, <2>9, <2>10, <2>11, <2>12, <2>13 DEF Packing, w
<1>15. QED
  BY <1>5, <1>13, <1>14

\* The register of no turn at all.
LEMMA PackStarts ==
  ASSUME NEW n \in Nat, NEW bits \in Nat, NEW values
  PROVE  Packing(Empty, values, n, bits, 0)
<1>1. Empty \in Registers /\ Len(Empty.out) = 0 /\ Empty.taken = 0 /\ Empty.acc = 0 /\ Empty.held = 0
  BY DEF Empty, Registers
<1>2. Number(values, bits, 0) = 0 /\ Number(Empty.out, ByteBits, 0) = 0
  <2>1. ByteBits \in Nat
    BY Sizes
  <2>2. QED
    BY <2>1, NumberNext
<1>3. 0 * Pow2[ByteBits * 0] = 0
  <2>1. ByteBits * 0 = 0 /\ Pow2[0] = 1
    BY Sizes, PowersAre
  <2>2. QED
    BY <2>1
<1>4. 0 < Pow2[0]
  BY PowersAre
<1>5. 0 * ByteBits + 0 = 0 * bits
  BY Sizes
<1>6. QED
  BY <1>1, <1>2, <1>3, <1>4, <1>5 DEF Packing

\* So it is after the last turn.
LEMMA PackedIs ==
  ASSUME NEW n \in Nat, NEW bits \in 1 .. MaxPackedBits, NEW values \in [1 .. n -> 0 .. Pow2[bits] - 1]
  PROVE  Packing(Packed(values, bits), values, n, bits, n + ((n * bits) \div ByteBits))
<1> DEFINE turns == n + ((n * bits) \div ByteBits)
           I     == [t \in 0 .. turns |-> {r \in Registers : Packing(r, values, n, bits, t)}]
           step  == [x \in Registers \X (1 .. turns) |-> PackTurn(x[1], values, bits)]
           Is(f) == f = [t \in 0 .. turns |-> IF t = 0 THEN Empty ELSE PackTurn(f[t - 1], values, bits)]
           upto  == CHOOSE f : Is(f)
<1>1. turns \in Nat
  <2>1. bits \in Nat
    BY Sizes DEF MaxPackedBits
  <2>2. (n * bits) \div ByteBits \in Nat
    BY <2>1, WholeBytes
  <2>3. QED
    BY <2>2
<1>2. \A t \in 0 .. turns : \A r : r \in I[t] <=> r \in Registers /\ Packing(r, values, n, bits, t)
  OBVIOUS
<1>3. Empty \in I[0]
  <2>1. bits \in Nat
    BY Sizes DEF MaxPackedBits
  <2>2. 0 \in 0 .. turns
    BY <1>1
  <2>3. Packing(Empty, values, n, bits, 0)
    BY <2>1, PackStarts
  <2>4. QED
    BY <1>2, <2>2, <2>3 DEF Packing
<1>4. ASSUME NEW t \in 1 .. turns, NEW r \in I[t - 1] PROVE PackTurn(r, values, bits) \in I[t]
  <2>1. t - 1 \in 0 .. turns /\ t \in 0 .. turns
    BY <1>1
  <2>2. Packing(r, values, n, bits, t - 1)
    BY <1>2, <2>1
  <2>3. Packing(PackTurn(r, values, bits), values, n, bits, t)
    BY <2>2, PackTurns
  <2>4. QED
    BY <1>2, <2>1, <2>3 DEF Packing
<1>5. ASSUME NEW t \in 1 .. turns, NEW r \in I[t - 1] PROVE step[<<r, t>>] = PackTurn(r, values, bits)
  <2>1. t - 1 \in 0 .. turns
    BY <1>1
  <2>2. r \in Registers
    BY <1>2, <2>1
  <2>3. <<r, t>> \in Registers \X (1 .. turns)
    BY <2>2
  <2>4. QED
    BY <2>3
<1> HIDE DEF I, step
<1>6. PICK f : Follows(f, turns, Empty, step)
  BY <1>1, LoopExists
<1>7. \A t \in 0 .. turns : f[t] \in I[t]
  <2> HIDE DEF turns
  <2>1. Leads(I, turns, step)
    BY <1>4, <1>5 DEF Leads
  <2>2. QED
    BY <1>1, <1>3, <1>6, <2>1, LoopKeeps
<1>8. Is(f)
  <2>1. ASSUME NEW t \in 1 .. turns PROVE f[t] = PackTurn(f[t - 1], values, bits)
    <3>1. f[t] = step[<<f[t - 1], t>>]
      BY <1>6 DEF Follows
    <3>2. t - 1 \in 0 .. turns
      BY <1>1
    <3>3. QED
      BY <1>5, <1>7, <3>1, <3>2
  <2>2. f = [t \in 0 .. turns |-> f[t]] /\ f[0] = Empty
    BY <1>6 DEF Follows
  <2> HIDE DEF turns
  <2>3. ASSUME NEW t \in 0 .. turns
        PROVE  f[t] = IF t = 0 THEN Empty ELSE PackTurn(f[t - 1], values, bits)
    <3>1. t = 0 \/ t \in 1 .. turns
      BY <1>1
    <3>2. QED
      BY <2>1, <2>2, <3>1
  <2>4. [t \in 0 .. turns |-> f[t]] = [t \in 0 .. turns |-> IF t = 0 THEN Empty ELSE PackTurn(f[t - 1], values, bits)]
    BY <2>3
  <2>5. QED
    BY <2>2, <2>4
<1>9. Is(upto)
  <2> HIDE DEF Is
  <2> QED
    BY <1>8
<1>10. Packed(values, bits) = upto[turns]
  <2>1. Len(values) = n
    OBVIOUS
  <2>2. QED
    BY <2>1 DEF Packed
<1> HIDE DEF upto
<1> DEFINE P == {t \in 0 .. turns : upto[t] \in I[t]}
<1>11. 0 \in P
  BY <1>1, <1>3, <1>9
<1>12. ASSUME NEW t \in 1 .. turns, t - 1 \in P PROVE t \in P
  <2>1. t \in 0 .. turns /\ t # 0
    BY <1>1
  <2>2. upto[t] = PackTurn(upto[t - 1], values, bits)
    BY <1>9, <2>1
  <2>3. QED
    BY <1>4, <1>12, <2>1, <2>2
<1>13. \A t \in 0 .. turns : t \in P
  <2> HIDE DEF P, turns
  <2> QED
    BY <1>1, <1>11, <1>12, NatUpTo
<1>14. turns \in 0 .. turns
  BY <1>1
<1>15. QED
  BY <1>2, <1>10, <1>13, <1>14

\* What pack returns: as many bytes as the size says, and the number its values make.
LEMMA PackIs ==
  ASSUME NEW n \in Nat, NEW bits \in 1 .. MaxPackedBits, NEW values \in [1 .. n -> 0 .. Pow2[bits] - 1]
  PROVE  LET e == Pack(values, bits)
         IN  /\ e \in Seq(Nat) /\ Len(e) = PackedBytes(n, bits)
             /\ \A k \in 1 .. Len(e) : e[k] \in 0 .. Byte - 1
             /\ Number(e, ByteBits, Len(e)) = Number(values, bits, n)
<1> DEFINE w == ByteBits
           q == (n * bits) \div w
           e == Pack(values, bits)
           r == Packed(values, bits)
<1>1. Packing(r, values, n, bits, n + q)
  BY PackedIs
<1>2. r \in Registers
  BY <1>1 DEF Packing
<1>3. PICK o \in Seq(Nat), c \in Nat, a \in Nat, h \in Nat :
        r = [out |-> o, taken |-> c, acc |-> a, held |-> h]
  BY <1>2, RegistersAre
<1>4. PICK k \in Nat : k = Len(o)
  OBVIOUS
<1>5. /\ c <= n /\ c + k = n + q /\ k * w + h = c * bits /\ a < Pow2[h]
      /\ \A i \in 1 .. k : o[i] \in 0 .. Byte - 1
      /\ Number(values, bits, c) = Number(o, w, k) + a * Pow2[w * k]
  <2> HIDE DEF q, r
  <2> QED
    BY <1>1, <1>3, <1>4 DEF Packing
<1>6. w \in Nat \ {0} /\ bits \in Nat \ {0} /\ WordBits \in Nat /\ Byte \in Nat \ {0} /\ Byte = Pow2[w]
  BY Sizes DEF MaxPackedBits, Byte
<1>7. q \in Nat /\ n * bits - q * w \in 0 .. w - 1
        /\ PackedBytes(n, bits) = IF n * bits - q * w = 0 THEN q ELSE q + 1
  BY <1>6, WholeBytes
<1>8. e = IF h > 0 THEN Append(o, a % Byte) ELSE o
  <2>1. bits # 0 /\ r.held = h /\ r.acc = a /\ r.out = o
    <3> HIDE DEF r
    <3> QED
      BY <1>3, <1>6
  <2>2. e = IF bits = 0 THEN <<>> ELSE IF r.held > 0 THEN Append(r.out, r.acc % Byte) ELSE r.out
    BY DEF Pack
  <2>3. QED
    BY <2>1, <2>2
<1> HIDE DEF e, q, r, w
<1>9. c = n /\ k = q /\ h = n * bits - q * w
  <2>1. c * bits <= n * bits /\ c * bits \in Nat /\ n * bits \in Nat
    BY <1>5, <1>6
  <2>2. k <= q
    <3>1. ASSUME k >= q + 1 PROVE FALSE
      <4>1. k * w >= (q + 1) * w /\ k * w \in Nat /\ (q + 1) * w = q * w + w /\ q * w \in Nat
        BY <1>6, <1>7, <3>1
      <4>2. k * w + h = c * bits
        BY <1>5
      <4>3. n * bits - q * w \in 0 .. w - 1
        BY <1>7
      <4> DEFINE x == k * w
                 y == q * w
                 z == n * bits
                 v == c * bits
      <4>4. x \in Nat /\ y \in Nat /\ z \in Nat /\ v \in Nat /\ w \in Nat
        BY <1>6, <2>1, <4>1
      <4>5. x >= y + w
        BY <4>1
      <4>6. x + h = v /\ v <= z
        BY <2>1, <4>2
      <4>7. z - y \in 0 .. w - 1
        BY <4>3
      <4> HIDE DEF x, y, z, v
      <4>8. QED
        BY <4>4, <4>5, <4>6, <4>7
    <3>2. QED
      BY <1>7, <3>1
  <2>3. c = n /\ k = q
    BY <1>5, <1>7, <2>2
  <2>4. QED
    BY <1>5, <1>6, <2>1, <2>3
<1>10. CASE h = 0
  <2>1. a = 0
    BY <1>5, <1>10, PowersAre
  <2>2. Number(o, w, k) \in Nat /\ Pow2[w * k] \in Nat
    <3>1. \A i \in 1 .. k : o[i] \in Nat
      BY <1>4
    <3>2. w * k \in Nat
      BY <1>6
    <3>3. Number(o, w, k) \in Nat
      BY <1>6, <3>1, NumberNext
    <3>4. QED
      BY <3>2, <3>3, PowersAre
  <2>3. Number(values, bits, n) = Number(o, w, k)
    BY <1>5, <1>9, <2>1, <2>2
  <2>4. e = o /\ PackedBytes(n, bits) = q
    BY <1>7, <1>8, <1>9, <1>10
  <2>5. QED
    BY <1>4, <1>5, <1>9, <2>3, <2>4 DEF e, w
<1>11. CASE h > 0
  <2>1. a \in 0 .. Byte - 1
    <3>1. Pow2[h] <= Byte /\ Pow2[h] \in Nat
      <4>1. h <= w
        BY <1>6, <1>7, <1>9
      <4>2. QED
        BY <1>6, <4>1, PowerOrder, PowersAre
    <3>2. QED
      BY <1>5, <1>6, <3>1
  <2>2. a % Byte = a
    BY <1>6, <2>1, ModBelow
  <2>3. e = Append(o, a) /\ PackedBytes(n, bits) = q + 1
    BY <1>7, <1>8, <1>9, <1>11, <2>2
  <2>4. Len(e) = k + 1 /\ e \in Seq(Nat) /\ \A i \in 1 .. k + 1 : e[i] \in 0 .. Byte - 1
    BY <1>4, <1>5, <2>1, <2>3
  <2>5. Number(e, w, k + 1) = Number(o, w, k) + a * Pow2[w * k]
    BY <1>4, <1>6, <2>3, NumberAppend
  <2>6. QED
    BY <1>5, <1>9, <2>3, <2>4, <2>5 DEF e, w
<1>12. QED
  BY <1>10, <1>11

\* As many bytes as the bits fill, and no byte more.
LEMMA EnoughBytes ==
  ASSUME NEW n \in Nat, NEW bits \in Nat
  PROVE  LET m == PackedBytes(n, bits)
         IN  m \in Nat /\ m * ByteBits >= n * bits /\ (m - 1) * ByteBits < n * bits
<1> DEFINE w == ByteBits
           z == n * bits
           q == z \div w
           h == z - q * w
           m == PackedBytes(n, bits)
<1>1. w \in Nat \ {0} /\ z \in Nat
  BY Sizes
<1>2. q \in Nat /\ h \in 0 .. w - 1 /\ m = IF h = 0 THEN q ELSE q + 1
  BY WholeBytes
<1>3. q * w \in Nat /\ z = q * w + h
  <2> HIDE DEF q, z, w
  <2> QED
    BY <1>1, <1>2
<1> HIDE DEF w, z, q, h, m
<1>4. m \in Nat /\ m * w >= z /\ (m - 1) * w < z
  <2>1. CASE h = 0
    <3>1. m = q /\ (q - 1) * w = q * w - w
      BY <1>1, <1>2, <2>1
    <3>2. QED
      BY <1>1, <1>2, <1>3, <2>1, <3>1
  <2>2. CASE h # 0
    <3>1. m = q + 1 /\ (q + 1) * w = q * w + w /\ m - 1 = q
      BY <1>1, <1>2, <2>2
    <3>2. QED
      BY <1>1, <1>2, <1>3, <2>2, <3>1
  <2>3. QED
    BY <2>1, <2>2
<1>5. QED
  BY <1>4 DEF w, z, m

\* The register after so many turns of unpacking.
Unpacking(r, e, values, n, bits, t) ==
  /\ r \in Registers
  /\ r.taken <= Len(e) /\ Len(r.out) <= n /\ r.taken + Len(r.out) = t
  /\ r.taken * ByteBits = Len(r.out) * bits + r.held
  /\ r.acc < Pow2[r.held]
  /\ \A i \in 1 .. Len(r.out) : r.out[i] = values[i]
  /\ Number(e, ByteBits, r.taken)
       = Number(values, bits, Len(r.out)) + r.acc * Pow2[bits * Len(r.out)]

\* What the next value's bits are, if bytes and values make one number.
LEMMA NextValue ==
  ASSUME NEW x \in Nat, NEW p \in Nat \ {0}, NEW v \in 0 .. p - 1, NEW kk \in Nat \ {0},
         NEW u \in Nat, NEW g \in Nat, NEW r \in Nat, NEW t \in Nat,
         (u + x * kk) + (kk * p * g) * r = (u + v * kk) + (kk * p) * t
  PROVE  x % p = v
<1>1. kk * (x + p * (g * r)) = kk * (v + p * t)
  OBVIOUS
<1>2. x + p * (g * r) = v + p * t
  <2> DEFINE y == x + p * (g * r)
             z == v + p * t
  <2>1. y \in Int /\ z \in Int /\ kk * y = kk * z
    BY <1>1
  <2> HIDE DEF y, z
  <2>2. y = z
    BY <2>1
  <2>3. QED
    BY <2>2 DEF y, z
<1>3. x = p * (t - g * r) + v /\ t - g * r \in Int
  BY <1>2
<1> DEFINE q == t - g * r
<1>4. x = p * q + v /\ q \in Int /\ x \in Int
  BY <1>3
<1> HIDE DEF q
<1>5. QED
  BY <1>4, DivModIs

\* unpack: a byte comes in or the next value leaves.
LEMMA UnpackTurns ==
  ASSUME NEW n \in Nat, NEW bits \in 1 .. MaxPackedBits, NEW values \in [1 .. n -> 0 .. Pow2[bits] - 1],
         NEW e \in Seq(Nat), Len(e) = PackedBytes(n, bits), \A i \in 1 .. Len(e) : e[i] \in 0 .. Byte - 1,
         Number(e, ByteBits, Len(e)) = Number(values, bits, n),
         NEW s, NEW pos \in Nat, \A i \in 1 .. Len(e) : s[pos + i - 1] = e[i],
         NEW t \in 1 .. n + PackedBytes(n, bits), NEW r, Unpacking(r, e, values, n, bits, t - 1)
  PROVE  Unpacking(UnpackTurn(r, s, pos, bits), e, values, n, bits, t)
<1> DEFINE w == ByteBits
<1>1. r \in Registers
  BY DEF Unpacking
<1>2. PICK o \in Seq(Nat), c \in Nat, a \in Nat, h \in Nat :
        r = [out |-> o, taken |-> c, acc |-> a, held |-> h]
  BY <1>1, RegistersAre
<1>3. PICK k \in Nat : k = Len(o)
  OBVIOUS
<1>4. PICK m \in Nat : m = Len(e)
  OBVIOUS
<1>5. /\ c <= m /\ k <= n /\ c + k = t - 1 /\ c * w = k * bits + h /\ a < Pow2[h]
      /\ \A i \in 1 .. k : o[i] = values[i]
      /\ Number(e, w, c) = Number(values, bits, k) + a * Pow2[bits * k]
  BY <1>2, <1>3, <1>4 DEF Unpacking
<1>6. w \in Nat \ {0} /\ bits \in Nat \ {0} /\ bits + w <= WordBits /\ WordBits \in Nat
  BY Sizes DEF MaxPackedBits
<1>7. m * w >= n * bits /\ (m - 1) * w < n * bits /\ t \in 1 .. n + m
  BY <1>4, <1>6, EnoughBytes
<1>8. Pow2[w] = Byte
  BY DEF Byte
<1> HIDE DEF w
<1>9. bits * k \in Nat /\ w * c \in Nat /\ Pow2[bits] \in Nat \ {0} /\ Byte \in Nat \ {0}
  BY <1>6, Sizes, PowersGrow
<1>10. Pow2[bits * k] \in Nat \ {0} /\ Pow2[w * c] \in Nat \ {0}
  BY <1>9, PowersGrow
<1>11. \A i \in 1 .. n : values[i] \in 0 .. Pow2[bits] - 1 /\ values[i] \in Nat
  BY <1>9
<1>12. \A i \in 1 .. m : e[i] \in Nat
  BY <1>4
<1>13. Number(values, bits, k) \in Nat
  <2>1. \A i \in 1 .. k : values[i] \in Nat
    BY <1>5, <1>11
  <2>2. QED
    BY <1>6, <2>1, NumberNext
<1>14. r.held = h /\ r.acc = a /\ r.out = o /\ r.taken = c
  BY <1>2
<1>15. CASE h >= bits
  <2>1. k < n
    <3>1. SUFFICES ASSUME k = n PROVE FALSE
      BY <1>5
    <3>2. c <= m - 1
      BY <1>5, <1>7, <3>1
    <3>3. c * w <= (m - 1) * w /\ c * w \in Int /\ (m - 1) * w \in Int /\ n * bits \in Int
      BY <1>6, <3>2
    <3>4. c * w >= n * bits
      BY <1>5, <1>6, <3>1
    <3>5. (m - 1) * w < n * bits
      BY <1>7
    <3> DEFINE y == c * w
               z == n * bits
               u == (m - 1) * w
    <3>6. y <= u /\ y >= z /\ u < z /\ y \in Int /\ z \in Int /\ u \in Int
      BY <3>3, <3>4, <3>5
    <3> HIDE DEF y, z, u
    <3>7. QED
      BY <3>6
  <2> DEFINE v == values[k + 1]
             p == Pow2[bits]
             kk == Pow2[bits * k]
             g == Pow2[h - bits]
             u == Number(values, bits, k)
  <2>2. v \in 0 .. p - 1 /\ v \in Nat /\ k + 1 \in 1 .. n
    BY <1>11, <2>1
  <2>3. h - bits \in Nat /\ g \in Nat \ {0}
    <3>1. h - bits \in Nat
      BY <1>6, <1>15
    <3>2. QED
      BY <3>1, PowersGrow
  <2>4. Pow2[bits * (k + 1)] = kk * p
    <3>1. bits * (k + 1) = bits * k + bits
      BY <1>6
    <3>2. QED
      BY <1>6, <1>9, <3>1, PowersAdd
  <2>5. Pow2[w * c] = kk * p * g
    <3>1. w * c = bits * (k + 1) + (h - bits) /\ bits * (k + 1) \in Nat
      BY <1>5, <1>6
    <3> DEFINE y == bits * (k + 1)
               z == h - bits
    <3> HIDE DEF y, z
    <3>2. Pow2[y + z] = Pow2[y] * Pow2[z]
      BY <2>3, <3>1, PowersAdd DEF y, z
    <3>3. QED
      BY <2>4, <3>1, <3>2 DEF y, z
  <2>6. Number(values, bits, k + 1) = u + v * kk
    <3> DEFINE y == k + 1
    <3>1. y \in Nat /\ y # 0 /\ y - 1 = k
      OBVIOUS
    <3>2. \A i \in 1 .. y : values[i] \in Nat
      BY <1>11, <2>2
    <3> HIDE DEF y
    <3>3. Number(values, bits, y) = Number(values, bits, y - 1) + values[y] * Pow2[bits * (y - 1)]
      BY <1>6, <3>1, <3>2, NumberNext
    <3>4. QED
      BY <3>1, <3>3 DEF y
  <2>7. PICK f \in Nat : Number(values, bits, n) = Number(values, bits, k + 1) + Pow2[bits * (k + 1)] * f
    <3> DEFINE y == k + 1
    <3>1. y \in 0 .. n /\ bits \in Nat /\ n \in Nat
      BY <1>6, <2>2
    <3>2. \A i \in 1 .. n : values[i] \in Nat
      BY <1>11
    <3> HIDE DEF y
    <3>3. Above(values, bits, n, y)
      BY <3>1, <3>2, NumberAbove
    <3>4. QED
      BY <3>3 DEF y, Above
  <2>8. PICK d \in Nat : Number(e, w, m) = Number(e, w, c) + Pow2[w * c] * d
    <3>1. c \in 0 .. m /\ w \in Nat /\ m \in Nat
      BY <1>5, <1>6
    <3>2. Above(e, w, m, c)
      BY <1>12, <3>1, NumberAbove
    <3>3. QED
      BY <3>2 DEF Above
  <2>9. (u + a * kk) + (kk * p * g) * d = (u + v * kk) + (kk * p) * f
    <3>1. Number(e, w, m) = Number(values, bits, n)
      BY <1>4 DEF w
    <3>2. QED
      BY <1>5, <2>4, <2>5, <2>6, <2>7, <2>8, <3>1
  <2>10. a % p = v
    <3>1. p \in Nat \ {0} /\ kk \in Nat \ {0} /\ u \in Nat /\ g \in Nat
      BY <1>9, <1>10, <1>13, <2>3
    <3> HIDE DEF v, p, kk, g, u
    <3>2. QED
      BY <2>2, <2>9, <3>1, NextValue
  <2>11. r \in Registers /\ r.acc < Pow2[r.held] /\ bits \in Nat /\ bits <= r.held
    BY <1>1, <1>5, <1>6, <1>14, <1>15
  <2>12. PICK x \in 0 .. Pow2[bits] - 1, y \in 0 .. Pow2[r.held - bits] - 1 :
          /\ r.acc = x + y * Pow2[bits]
          /\ x = r.acc % Pow2[bits]
          /\ ShiftOut(r, bits) = [out |-> Append(r.out, x), taken |-> r.taken, acc |-> y, held |-> r.held - bits]
    BY <2>11, ShiftedOut
  <2>13. /\ x = v /\ y \in Nat /\ y < g /\ a = v + y * p
         /\ ShiftOut(r, bits) = [out |-> Append(o, v), taken |-> c, acc |-> y, held |-> h - bits]
    <3>1. x = v
      BY <1>14, <2>10, <2>12
    <3>2. y \in 0 .. g - 1
      BY <1>14, <2>12
    <3>3. y \in Nat /\ y < g
      <4> HIDE DEF g
      <4> QED
        BY <2>3, <3>2
    <3>4. QED
      BY <1>14, <2>12, <3>1, <3>3
  <2> DEFINE z == [out |-> Append(o, v), taken |-> c, acc |-> y, held |-> h - bits]
             b == Append(o, v)
  <2>14. UnpackTurn(r, s, pos, bits) = z
    <3>1. ~(r.held < bits)
      BY <1>6, <1>14, <1>15
    <3>2. QED
      BY <2>13, <3>1 DEF UnpackTurn
  <2>15. b \in Seq(Nat) /\ Len(b) = k + 1 /\ \A i \in 1 .. k + 1 : b[i] = values[i]
    <3>1. b \in Seq(Nat) /\ Len(b) = k + 1 /\ b[k + 1] = v /\ \A i \in 1 .. k : b[i] = o[i]
      <4> HIDE DEF v
      <4> QED
        BY <1>3, <2>2
    <3>2. v = values[k + 1]
      OBVIOUS
    <3> HIDE DEF b, v
    <3>3. ASSUME NEW i \in 1 .. k + 1 PROVE b[i] = values[i]
      <4>1. i \in 1 .. k \/ i = k + 1
        OBVIOUS
      <4>2. QED
        BY <1>5, <3>1, <3>2, <4>1
    <3>4. QED
      BY <3>1, <3>3
  <2>16. c * w = (k + 1) * bits + (h - bits)
    BY <1>5, <1>6
  <2>17. Number(e, w, c) = Number(values, bits, k + 1) + y * Pow2[bits * (k + 1)]
    <3>1. u \in Nat /\ p \in Nat /\ kk \in Nat
      BY <1>9, <1>10, <1>13
    <3>2. Number(e, w, c) = u + a * kk
      BY <1>5
    <3>3. u + (v + y * p) * kk = (u + v * kk) + y * (kk * p)
      <4> HIDE DEF u, v, p, kk
      <4> QED
        BY <2>2, <2>13, <3>1
    <3>4. QED
      BY <2>4, <2>6, <2>13, <3>2, <3>3
  <2>18. z.out = b /\ z.taken = c /\ z.acc = y /\ z.held = h - bits
    OBVIOUS
  <2>19. z \in Registers
    <3> HIDE DEF b
    <3>1. z = [out |-> b, taken |-> c, acc |-> y, held |-> h - bits]
      BY DEF b
    <3>2. QED
      BY <2>3, <2>13, <2>15, <3>1 DEF Registers
  <2> HIDE DEF z, b, v
  <2>20. z.taken + Len(z.out) = t
    <3>1. c + k = t - 1 /\ t \in Int
      BY <1>5, <1>7
    <3>2. Len(b) = k + 1
      BY <2>15
    <3>3. QED
      BY <2>18, <3>1, <3>2
  <2>21. z.taken <= Len(e) /\ Len(z.out) <= n
    BY <1>4, <1>5, <2>2, <2>15, <2>18
  <2>22. z.acc < Pow2[z.held]
    BY <2>13, <2>18
  <2>23. /\ z.taken * w = Len(z.out) * bits + z.held
         /\ Number(e, w, z.taken) = Number(values, bits, Len(z.out)) + z.acc * Pow2[bits * Len(z.out)]
    BY <2>15, <2>16, <2>17, <2>18
  <2>24. \A i \in 1 .. Len(z.out) : z.out[i] = values[i]
    BY <2>15, <2>18
  <2>25. QED
    BY <2>14, <2>19, <2>20, <2>21, <2>22, <2>23, <2>24 DEF Unpacking, w
<1>16. CASE h < bits
  <2>1. c < m
    <3>1. SUFFICES ASSUME c = m PROVE FALSE
      BY <1>5
    <3>2. k + 1 <= n
      BY <1>5, <1>7, <3>1
    <3>3. (k + 1) * bits <= n * bits /\ (k + 1) * bits = k * bits + bits /\ n * bits \in Int /\ k * bits \in Int
      BY <1>6, <3>2
    <3>4. m * w >= n * bits
      BY <1>7
    <3>5. m * w = k * bits + h
      BY <1>5, <3>1
    <3> DEFINE y == k * bits
               z == n * bits
               u == m * w
    <3>6. y + bits <= z /\ u >= z /\ u = y + h /\ y \in Int /\ z \in Int /\ u \in Int
      BY <3>3, <3>4, <3>5
    <3> HIDE DEF y, z, u
    <3>7. QED
      BY <1>6, <1>16, <3>6
  <2> DEFINE x == e[c + 1]
  <2>2. c + 1 \in 1 .. m /\ x \in 0 .. Pow2[w] - 1 /\ x \in Nat /\ s[pos + c] = x
    <3>1. c + 1 \in 1 .. m
      BY <2>1
    <3>2. e[c + 1] \in 0 .. Byte - 1 /\ s[pos + (c + 1) - 1] = e[c + 1]
      BY <1>4, <3>1
    <3>3. pos + (c + 1) - 1 = pos + c
      OBVIOUS
    <3>4. QED
      BY <1>8, <1>12, <3>1, <3>2, <3>3
  <2> DEFINE y == a + x * Pow2[h]
             z == [out |-> o, taken |-> c + 1, acc |-> y, held |-> h + w]
  <2>3. ShiftIn(r, x, w) = z /\ y \in 0 .. Pow2[h + w] - 1
    <3>1. r.held + w <= WordBits /\ r.acc < Pow2[r.held] /\ w \in Nat
      BY <1>5, <1>6, <1>14, <1>16
    <3> HIDE DEF x
    <3>2. /\ ShiftIn(r, x, w) = [out |-> r.out, taken |-> r.taken + 1,
                                 acc |-> r.acc + x * Pow2[r.held], held |-> r.held + w]
          /\ r.acc + x * Pow2[r.held] \in 0 .. Pow2[r.held + w] - 1
      BY <1>1, <2>2, <3>1, ShiftedIn
    <3>3. QED
      BY <1>14, <3>2
  <2>4. UnpackTurn(r, s, pos, bits) = z
    <3>1. r.held < bits /\ s[pos + r.taken] = x
      BY <1>14, <1>16, <2>2
    <3> HIDE DEF x, z
    <3>2. QED
      BY <2>3, <3>1 DEF UnpackTurn, w
  <2>5. h + w \in Nat /\ Pow2[h] \in Nat /\ Pow2[h + w] \in Nat
    <3>1. h + w \in Nat
      BY <1>6
    <3>2. QED
      BY <3>1, PowersAre
  <2>6. y \in Nat /\ y < Pow2[h + w]
    <3> HIDE DEF y
    <3> QED
      BY <2>3, <2>5
  <2>7. (c + 1) * w = k * bits + (h + w)
    BY <1>5, <1>6
  <2>8. Number(e, w, c + 1) = Number(values, bits, k) + y * Pow2[bits * k]
    <3>1. Number(e, w, c + 1) = Number(e, w, c) + x * Pow2[w * c]
      <4> DEFINE j == c + 1
      <4>1. j \in Nat /\ j # 0 /\ j - 1 = c
        OBVIOUS
      <4>2. \A i \in 1 .. j : e[i] \in Nat
        BY <1>12, <2>2
      <4> HIDE DEF j
      <4>3. Number(e, w, j) = Number(e, w, j - 1) + e[j] * Pow2[w * (j - 1)]
        BY <1>6, <4>1, <4>2, NumberNext
      <4>4. QED
        BY <4>1, <4>3 DEF j
    <3>2. Pow2[w * c] = Pow2[bits * k] * Pow2[h]
      <4>1. w * c = bits * k + h
        BY <1>5, <1>6
      <4>2. QED
        BY <1>9, <4>1, PowersAdd
    <3> DEFINE u == Number(values, bits, k)
               p == Pow2[bits * k]
               b == Pow2[h]
    <3>3. u \in Nat /\ p \in Nat /\ b \in Nat
      BY <1>10, <1>13, <2>5
    <3> HIDE DEF u, p, b, x
    <3>4. (u + a * p) + x * (p * b) = u + (a + x * b) * p
      BY <2>2, <3>3
    <3>5. QED
      BY <1>5, <3>1, <3>2, <3>4 DEF u, p, b
  <2> HIDE DEF x, y
  <2>9. z \in Registers
    BY <2>5, <2>6 DEF Registers
  <2>10. z.out = o /\ z.taken = c + 1 /\ z.acc = y /\ z.held = h + w
    OBVIOUS
  <2> HIDE DEF z
  <2>11. z.taken + Len(z.out) = t
    <3>1. c + k = t - 1 /\ t \in Int
      BY <1>5, <1>7
    <3>2. QED
      BY <1>3, <2>10, <3>1
  <2>12. z.taken <= Len(e) /\ Len(z.out) <= n
    BY <1>3, <1>4, <1>5, <2>2, <2>10
  <2>13. z.acc < Pow2[z.held]
    BY <2>6, <2>10
  <2>14. /\ z.taken * w = Len(z.out) * bits + z.held
         /\ Number(e, w, z.taken) = Number(values, bits, Len(z.out)) + z.acc * Pow2[bits * Len(z.out)]
    BY <1>3, <2>7, <2>8, <2>10
  <2>15. \A i \in 1 .. Len(z.out) : z.out[i] = values[i]
    BY <1>3, <1>5, <2>10
  <2>16. QED
    BY <2>4, <2>9, <2>11, <2>12, <2>13, <2>14, <2>15 DEF Unpacking, w
<1>17. QED
  BY <1>6, <1>15, <1>16

\* The register of no turn at all.
LEMMA UnpackStarts ==
  ASSUME NEW n \in Nat, NEW bits \in Nat, NEW values, NEW e \in Seq(Nat)
  PROVE  Unpacking(Empty, e, values, n, bits, 0)
<1>1. Empty \in Registers /\ Len(Empty.out) = 0 /\ Empty.taken = 0 /\ Empty.acc = 0 /\ Empty.held = 0
  BY DEF Empty, Registers
<1>2. Number(values, bits, 0) = 0 /\ Number(e, ByteBits, 0) = 0
  <2>1. ByteBits \in Nat
    BY Sizes
  <2>2. QED
    BY <2>1, NumberNext
<1>3. 0 * Pow2[bits * 0] = 0
  <2>1. bits * 0 = 0 /\ Pow2[0] = 1
    BY PowersAre
  <2>2. QED
    BY <2>1
<1>4. 0 < Pow2[0]
  BY PowersAre
<1>5. 0 * ByteBits = 0 * bits + 0
  BY Sizes
<1>6. QED
  BY <1>1, <1>2, <1>3, <1>4, <1>5 DEF Unpacking

\* The bytes of a packed block, and where they are.
PackedAs(e, values, n, bits, s, pos) ==
  /\ e \in Seq(Nat) /\ Len(e) = PackedBytes(n, bits) /\ \A i \in 1 .. Len(e) : e[i] \in 0 .. Byte - 1
  /\ Number(e, ByteBits, Len(e)) = Number(values, bits, n)
  /\ \A i \in 1 .. Len(e) : s[pos + i - 1] = e[i]

\* unpack returns the values of the bytes that are there.
LEMMA UnpackedIs ==
  ASSUME NEW n \in Nat, NEW bits \in 1 .. MaxPackedBits, NEW values \in [1 .. n -> 0 .. Pow2[bits] - 1],
         NEW e, NEW s, NEW pos \in Nat, PackedAs(e, values, n, bits, s, pos)
  PROVE  Unpacked(s, pos, n, bits) = values
<1> DEFINE m     == PackedBytes(n, bits)
           turns == n + m
           I     == [t \in 0 .. turns |-> {r \in Registers : Unpacking(r, e, values, n, bits, t)}]
           step  == [x \in Registers \X (1 .. turns) |-> UnpackTurn(x[1], s, pos, bits)]
           Is(f) == f = [t \in 0 .. turns |-> IF t = 0 THEN Empty ELSE UnpackTurn(f[t - 1], s, pos, bits)]
           upto  == CHOOSE f : Is(f)
<1>1. /\ e \in Seq(Nat) /\ Len(e) = PackedBytes(n, bits) /\ \A i \in 1 .. Len(e) : e[i] \in 0 .. Byte - 1
      /\ Number(e, ByteBits, Len(e)) = Number(values, bits, n)
      /\ \A i \in 1 .. Len(e) : s[pos + i - 1] = e[i]
  BY DEF PackedAs
<1>2. bits \in Nat
  BY Sizes DEF MaxPackedBits
<1>3. m \in Nat /\ turns \in Nat
  <2>1. m \in Nat
    BY <1>2, EnoughBytes
  <2>2. QED
    BY <2>1
<1>4. \A t \in 0 .. turns : \A r : r \in I[t] <=> r \in Registers /\ Unpacking(r, e, values, n, bits, t)
  OBVIOUS
<1>5. Empty \in I[0]
  <2>1. 0 \in 0 .. turns
    BY <1>3
  <2>2. Unpacking(Empty, e, values, n, bits, 0)
    BY <1>2, <1>1, UnpackStarts
  <2>3. QED
    BY <1>4, <2>1, <2>2 DEF Unpacking
<1>6. ASSUME NEW t \in 1 .. turns, NEW r \in I[t - 1] PROVE UnpackTurn(r, s, pos, bits) \in I[t]
  <2>1. t - 1 \in 0 .. turns /\ t \in 0 .. turns
    BY <1>3
  <2>2. Unpacking(r, e, values, n, bits, t - 1)
    BY <1>4, <2>1
  <2>3. Unpacking(UnpackTurn(r, s, pos, bits), e, values, n, bits, t)
    BY <1>1, <2>2, UnpackTurns
  <2>4. QED
    BY <1>4, <2>1, <2>3 DEF Unpacking
<1>7. ASSUME NEW t \in 1 .. turns, NEW r \in I[t - 1] PROVE step[<<r, t>>] = UnpackTurn(r, s, pos, bits)
  <2>1. t - 1 \in 0 .. turns
    BY <1>3
  <2>2. r \in Registers
    BY <1>4, <2>1
  <2>3. <<r, t>> \in Registers \X (1 .. turns)
    BY <2>2
  <2>4. QED
    BY <2>3
<1> HIDE DEF I, step
<1>8. PICK f : Follows(f, turns, Empty, step)
  BY <1>3, LoopExists
<1>9. \A t \in 0 .. turns : f[t] \in I[t]
  <2> HIDE DEF m, turns
  <2>1. Leads(I, turns, step)
    BY <1>6, <1>7 DEF Leads
  <2>2. turns \in Nat
    BY <1>3
  <2>3. QED
    BY <1>5, <1>8, <2>1, <2>2, LoopKeeps
<1>10. Is(f)
  <2>1. ASSUME NEW t \in 1 .. turns PROVE f[t] = UnpackTurn(f[t - 1], s, pos, bits)
    <3>1. f[t] = step[<<f[t - 1], t>>]
      BY <1>8 DEF Follows
    <3>2. t - 1 \in 0 .. turns
      BY <1>3
    <3>3. QED
      BY <1>7, <1>9, <3>1, <3>2
  <2>2. f = [t \in 0 .. turns |-> f[t]] /\ f[0] = Empty
    BY <1>8 DEF Follows
  <2> HIDE DEF turns
  <2>3. ASSUME NEW t \in 0 .. turns
        PROVE  f[t] = IF t = 0 THEN Empty ELSE UnpackTurn(f[t - 1], s, pos, bits)
    <3>1. t = 0 \/ t \in 1 .. turns
      BY <1>3
    <3>2. QED
      BY <2>1, <2>2, <3>1
  <2>4. [t \in 0 .. turns |-> f[t]] = [t \in 0 .. turns |-> IF t = 0 THEN Empty ELSE UnpackTurn(f[t - 1], s, pos, bits)]
    BY <2>3
  <2>5. QED
    BY <2>2, <2>4
<1>11. Is(upto)
  <2> HIDE DEF Is
  <2> QED
    BY <1>10
<1>12. Unpacked(s, pos, n, bits) = upto[turns].out
  BY DEF Unpacked
<1> HIDE DEF upto
<1> DEFINE P == {t \in 0 .. turns : upto[t] \in I[t]}
<1>13. 0 \in P
  BY <1>3, <1>5, <1>11
<1>14. ASSUME NEW t \in 1 .. turns, t - 1 \in P PROVE t \in P
  <2>1. t \in 0 .. turns /\ t # 0
    BY <1>3
  <2>2. upto[t] = UnpackTurn(upto[t - 1], s, pos, bits)
    BY <1>11, <2>1
  <2>3. QED
    BY <1>6, <1>14, <2>1, <2>2
<1>15. \A t \in 0 .. turns : t \in P
  <2> HIDE DEF P, turns
  <2> QED
    BY <1>3, <1>13, <1>14, NatUpTo
<1>16. turns \in 0 .. turns
  BY <1>3
<1>17. PICK r : r = upto[turns]
  OBVIOUS
<1>18. r \in Registers /\ Unpacking(r, e, values, n, bits, turns)
  BY <1>4, <1>15, <1>16, <1>17
<1>19. r.out \in Seq(Nat) /\ r.taken \in Nat
  BY <1>18 DEF Registers
<1>20. Len(r.out) = n
  <2>1. r.taken <= m /\ Len(r.out) <= n /\ r.taken + Len(r.out) = n + m
    BY <1>1, <1>18 DEF Unpacking
  <2> HIDE DEF m
  <2>2. QED
    BY <1>3, <1>19, <2>1
<1>21. \A i \in 1 .. n : r.out[i] = values[i]
  BY <1>18, <1>20 DEF Unpacking
<1> DEFINE o == r.out
<1> HIDE DEF o
<1>22. o = values
  <2>1. o \in Seq(Nat) /\ Len(o) = n /\ \A i \in 1 .. n : o[i] = values[i]
    BY <1>19, <1>20, <1>21 DEF o
  <2>2. o = [i \in 1 .. n |-> o[i]]
    BY <2>1
  <2>3. values = [i \in 1 .. n |-> values[i]]
    OBVIOUS
  <2>4. QED
    BY <2>1, <2>2, <2>3
<1>23. QED
  BY <1>12, <1>17, <1>22 DEF o

\* A block as pack wrote it: unpack reads its values, or the stream ends first.
LEMMA PackRead ==
  ASSUME NEW n \in Nat, NEW bits \in 0 .. MaxPackedBits, NEW values \in [1 .. n -> 0 .. Pow2[bits] - 1],
         NEW s \in Seq(Nat), NEW pos \in Nat \ {0}, Lies(Pack(values, bits), s, pos),
         pos <= Len(s) + 1
  PROVE  /\ Pack(values, bits) \in Seq(Nat)
         /\ Reads(Unpack(s, pos, n, bits), s, values, pos + Len(Pack(values, bits)))
<1> DEFINE e == Pack(values, bits)
           m == PackedBytes(n, bits)
<1>1. CASE bits = 0
  <2>1. e = <<>>
    BY <1>1 DEF Pack
  <2>2. values = [i \in 1 .. n |-> 0]
    <3>1. Pow2[0] = 1
      BY PowersAre
    <3>2. \A i \in 1 .. n : values[i] = 0
      BY <1>1, <3>1
    <3>3. QED
      BY <3>2
  <2>3. Unpack(s, pos, n, bits) = Read(values, pos)
    BY <1>1, <2>2 DEF Unpack
  <2>4. QED
    BY <2>1, <2>3 DEF Reads
<1>2. CASE bits # 0
  <2>1. bits \in 1 .. MaxPackedBits /\ bits \in Nat
    BY <1>2, Sizes DEF MaxPackedBits
  <2>2. /\ e \in Seq(Nat) /\ Len(e) = m
        /\ \A k \in 1 .. Len(e) : e[k] \in 0 .. Byte - 1
        /\ Number(e, ByteBits, Len(e)) = Number(values, bits, n)
    BY <2>1, PackIs
  <2>3. m \in Nat
    BY <2>1, EnoughBytes
  <2>4. Lies(e, s, pos)
    OBVIOUS
  <2> HIDE DEF e, m
  <2>5. CASE pos + m <= Len(s) + 1
    <3>1. \A i \in 1 .. Len(e) : s[pos + i - 1] = e[i]
      BY <2>2, <2>3, <2>4, <2>5 DEF Lies
    <3>2. Unpacked(s, pos, n, bits) = values
      <4>1. Len(e) = PackedBytes(n, bits)
        BY <2>2 DEF m
      <4>2. PackedAs(e, values, n, bits, s, pos)
        BY <2>2, <3>1, <4>1 DEF PackedAs
      <4>3. QED
        BY <2>1, <4>2, UnpackedIs
    <3>3. ~(pos + m - 1 > Len(s))
      BY <2>3, <2>5
    <3>4. Unpack(s, pos, n, bits) = Read(values, pos + m)
      BY <1>2, <3>2, <3>3 DEF Unpack, m
    <3>5. QED
      BY <2>2, <2>5, <3>4 DEF Reads, e
  <2>6. CASE ~(pos + m <= Len(s) + 1)
    <3>1. pos + m - 1 > Len(s)
      BY <2>3, <2>6
    <3>2. Unpack(s, pos, n, bits) = Malformed
      BY <1>2, <3>1 DEF Unpack, m
    <3>3. QED
      BY <2>2, <2>6, <3>2 DEF Reads, e
  <2>7. QED
    BY <2>5, <2>6
<1>3. QED
  BY <1>1, <1>2

-----------------------------------------------------------------------------
(* The scale of a column.                                                   *)

\* d divides x, zero included.
Divides(d, x) == \E q \in Nat : x = d * q

\* The multiples there always are.
LEMMA DividesItself == ASSUME NEW d \in Nat PROVE Divides(d, d) /\ Divides(d, 0) /\ Divides(1, d)
<1>1. d = d * 1 /\ 0 = d * 0 /\ d = 1 * d
  OBVIOUS
<1>2. QED
  BY <1>1 DEF Divides

\* A divisor of a divisor.
LEMMA DividesOn ==
  ASSUME NEW d \in Nat, NEW x \in Nat, NEW y, Divides(d, x), Divides(x, y)
  PROVE  Divides(d, y)
<1>1. PICK q \in Nat : x = d * q
  BY DEF Divides
<1>2. PICK r \in Nat : y = x * r
  BY DEF Divides
<1>3. y = d * (q * r) /\ q * r \in Nat
  BY <1>1, <1>2
<1>4. QED
  BY <1>3 DEF Divides

\* A divisor of a remainder and of what left it.
LEMMA DividesRest ==
  ASSUME NEW d \in Nat, NEW x \in Nat, NEW y \in Nat \ {0}, Divides(d, y), Divides(d, x % y)
  PROVE  Divides(d, x)
<1> DEFINE a == x \div y
           c == x % y
<1>1. a \in Int /\ c \in Nat /\ c < y /\ x = y * a + c
  <2>1. x \in Int
    OBVIOUS
  <2>2. a \in Int /\ c \in 0 .. y - 1 /\ x = y * a + c
    BY <2>1, DivMod
  <2> HIDE DEF a, c
  <2>3. QED
    BY <2>2
<1>2. PICK q \in Nat : y = d * q
  BY DEF Divides
<1>3. PICK r \in Nat : c = d * r
  BY DEF Divides
<1> HIDE DEF a, c
<1>4. a >= 0
  <2>1. ASSUME a <= -1 PROVE FALSE
    <3>1. y * a <= -y /\ y * a \in Int
      BY <1>1, <2>1
    <3>2. QED
      BY <1>1, <3>1
  <2>2. QED
    BY <1>1, <2>1
<1>5. x = d * (q * a + r) /\ q * a + r \in Nat
  BY <1>1, <1>2, <1>3, <1>4
<1>6. QED
  BY <1>5 DEF Divides

\* The numbers after so many turns: what divides them divides the numbers of the start.
Euclid(p, a, b, t) ==
  /\ p \in Nat \X Nat
  /\ p[2] <= b - t
  /\ \A d \in Nat : Divides(d, p[1]) /\ Divides(d, p[2]) => Divides(d, a) /\ Divides(d, b)
  /\ \A m \in Nat : a <= m /\ b <= m => p[1] <= m /\ p[2] <= m

\* gcd_of: a turn keeps what the numbers have in common.
LEMMA EuclidTurns ==
  ASSUME NEW a \in Nat, NEW b \in Nat, NEW t \in 1 .. b, NEW p, Euclid(p, a, b, t - 1)
  PROVE  Euclid(Divide(p), a, b, t)
<1>1. PICK x \in Nat, y \in Nat : p = <<x, y>>
  BY DEF Euclid
<1>2. p[1] = x /\ p[2] = y
  BY <1>1
<1>3. /\ y <= b - (t - 1)
      /\ \A d \in Nat : Divides(d, x) /\ Divides(d, y) => Divides(d, a) /\ Divides(d, b)
      /\ \A m \in Nat : a <= m /\ b <= m => x <= m /\ y <= m
  BY <1>2 DEF Euclid
<1>4. CASE y = 0
  <2>1. Divide(p) = <<x, y>>
    BY <1>1, <1>2, <1>4 DEF Divide
  <2>2. y <= b - t
    BY <1>4
  <2>3. QED
    BY <1>3, <2>1, <2>2 DEF Euclid
<1>5. CASE y # 0
  <2> DEFINE c == x % y
  <2>1. c \in Nat /\ c < y
    BY <1>5, DivMod
  <2>2. Divide(p) = <<y, c>>
    BY <1>1, <1>2, <1>5 DEF Divide
  <2>3. \A d \in Nat : Divides(d, y) /\ Divides(d, c) => Divides(d, a) /\ Divides(d, b)
    <3>1. SUFFICES ASSUME NEW d \in Nat, Divides(d, y), Divides(d, x % y)
                   PROVE  Divides(d, a) /\ Divides(d, b)
      OBVIOUS
    <3>2. Divides(d, x)
      BY <1>5, <3>1, DividesRest
    <3>3. QED
      BY <1>3, <3>1, <3>2
  <2> HIDE DEF c
  <2>4. c <= b - t /\ \A m \in Nat : a <= m /\ b <= m => y <= m /\ c <= m
    BY <1>3, <2>1
  <2>5. QED
    BY <2>1, <2>2, <2>3, <2>4 DEF Euclid
<1>6. QED
  BY <1>4, <1>5

\* The divisor divides both numbers and is not above a bound of both.
LEMMA GcdIs ==
  ASSUME NEW a \in Nat, NEW b \in Nat
  PROVE  /\ Gcd(a, b) \in Nat /\ Divides(Gcd(a, b), a) /\ Divides(Gcd(a, b), b)
         /\ \A m \in Nat : a <= m /\ b <= m => Gcd(a, b) <= m
<1> DEFINE start == <<a, b>>
           I     == [t \in 0 .. b |-> {p \in Nat \X Nat : Euclid(p, a, b, t)}]
           step  == [x \in (Nat \X Nat) \X (1 .. b) |-> Divide(x[1])]
           Is(f) == f = [t \in 0 .. b |-> IF t = 0 THEN start ELSE Divide(f[t - 1])]
           upto  == CHOOSE f : Is(f)
<1>1. b \in Nat
  OBVIOUS
<1>2. \A t \in 0 .. b : \A p : p \in I[t] <=> p \in Nat \X Nat /\ Euclid(p, a, b, t)
  OBVIOUS
<1>3. start \in I[0]
  <2>1. start[1] = a /\ start[2] = b /\ start \in Nat \X Nat
    OBVIOUS
  <2> HIDE DEF start
  <2>2. Euclid(start, a, b, 0)
    BY <2>1 DEF Euclid
  <2>3. 0 \in 0 .. b
    OBVIOUS
  <2>4. QED
    BY <1>2, <2>1, <2>2, <2>3
<1>4. ASSUME NEW t \in 1 .. b, NEW p \in I[t - 1] PROVE Divide(p) \in I[t]
  <2>1. t - 1 \in 0 .. b /\ t \in 0 .. b
    BY <1>1
  <2>2. Euclid(p, a, b, t - 1)
    BY <1>2, <2>1
  <2>3. Euclid(Divide(p), a, b, t)
    BY <2>2, EuclidTurns
  <2>4. QED
    BY <1>2, <2>1, <2>3 DEF Euclid
<1>5. ASSUME NEW t \in 1 .. b, NEW p \in I[t - 1] PROVE step[<<p, t>>] = Divide(p)
  <2>1. t - 1 \in 0 .. b
    BY <1>1
  <2>2. p \in Nat \X Nat
    BY <1>2, <2>1
  <2>3. <<p, t>> \in (Nat \X Nat) \X (1 .. b)
    BY <2>2
  <2>4. QED
    BY <2>3
<1> HIDE DEF I, step
<1>6. PICK f : Follows(f, b, start, step)
  BY <1>1, LoopExists
<1>7. \A t \in 0 .. b : f[t] \in I[t]
  <2> HIDE DEF start
  <2>1. Leads(I, b, step)
    BY <1>4, <1>5 DEF Leads
  <2>2. QED
    BY <1>3, <1>6, <2>1, LoopKeeps
<1> HIDE DEF start
<1>8. Is(f)
  <2>1. ASSUME NEW t \in 1 .. b PROVE f[t] = Divide(f[t - 1])
    <3>1. f[t] = step[<<f[t - 1], t>>]
      BY <1>6 DEF Follows
    <3>2. t - 1 \in 0 .. b
      BY <1>1
    <3>3. QED
      BY <1>5, <1>7, <3>1, <3>2
  <2>2. f = [t \in 0 .. b |-> f[t]] /\ f[0] = start
    BY <1>6 DEF Follows
  <2>3. ASSUME NEW t \in 0 .. b
        PROVE  f[t] = IF t = 0 THEN start ELSE Divide(f[t - 1])
    <3>1. t = 0 \/ t \in 1 .. b
      BY <1>1
    <3>2. QED
      BY <2>1, <2>2, <3>1
  <2>4. [t \in 0 .. b |-> f[t]] = [t \in 0 .. b |-> IF t = 0 THEN start ELSE Divide(f[t - 1])]
    BY <2>3
  <2>5. QED
    BY <2>2, <2>4
<1>9. Is(upto)
  <2> HIDE DEF Is
  <2> QED
    BY <1>8
<1>10. Gcd(a, b) = upto[b][1]
  BY DEF Gcd, start
<1> HIDE DEF upto
<1> DEFINE P == {t \in 0 .. b : upto[t] \in I[t]}
<1>11. 0 \in P
  BY <1>1, <1>3, <1>9
<1>12. ASSUME NEW t \in 1 .. b, t - 1 \in P PROVE t \in P
  <2>1. t \in 0 .. b /\ t # 0
    BY <1>1
  <2>2. upto[t] = Divide(upto[t - 1])
    BY <1>9, <2>1
  <2>3. QED
    BY <1>4, <1>12, <2>1, <2>2
<1>13. \A t \in 0 .. b : t \in P
  <2> HIDE DEF P
  <2> QED
    BY <1>1, <1>11, <1>12, NatUpTo
<1>14. b \in 0 .. b
  BY <1>1
<1>15. PICK p : p = upto[b]
  OBVIOUS
<1>16. Euclid(p, a, b, b)
  BY <1>2, <1>13, <1>14, <1>15
<1>17. PICK x \in Nat, y \in Nat : p = <<x, y>>
  BY <1>16 DEF Euclid
<1>18. p[1] = x /\ p[2] = y
  BY <1>17
<1>19. /\ y <= b - b
       /\ \A d \in Nat : Divides(d, x) /\ Divides(d, y) => Divides(d, a) /\ Divides(d, b)
       /\ \A m \in Nat : a <= m /\ b <= m => x <= m
  BY <1>16, <1>18 DEF Euclid
<1>20. y = 0
  BY <1>19
<1>21. Divides(x, a) /\ Divides(x, b)
  BY <1>19, <1>20, DividesItself
<1>22. Gcd(a, b) = x
  BY <1>10, <1>15, <1>18
<1>23. QED
  BY <1>19, <1>21, <1>22

-----------------------------------------------------------------------------
(* Words, signed and unsigned.                                              *)

\* A number and the word it wraps to are whole words apart.
LEMMA UnsignedIs ==
  ASSUME NEW x \in Int
  PROVE  Unsigned(x) \in 0 .. Word - 1 /\ Unsigned(x) \in Nat /\ \E q \in Int : x = Unsigned(x) + Word * q
<1>1. Word \in Nat \ {0}
  BY Sizes
<1> DEFINE w == Word
           u == x % w
           q == x \div w
<1>2. q \in Int /\ u \in 0 .. w - 1 /\ u \in Nat /\ x = w * q + u
  <2> HIDE DEF w
  <2> QED
    BY <1>1, DivMod DEF w
<1> HIDE DEF w, u, q
<1>3. x = u + w * q
  <2>1. w \in Int /\ w * q \in Int
    BY <1>1, <1>2 DEF w
  <2>2. QED
    BY <1>2, <2>1
<1>4. Unsigned(x) = u
  BY DEF Unsigned, u, w
<1>5. QED
  BY <1>2, <1>3, <1>4 DEF w

\* Whole words make no difference.
LEMMA UnsignedSame ==
  ASSUME NEW x \in Int, NEW q \in Int, NEW y, y = x + Word * q
  PROVE  Unsigned(y) = Unsigned(x)
BY Sizes, ModPlus DEF Unsigned

\* A word is its own remainder.
LEMMA UnsignedOf ==
  ASSUME NEW u \in 0 .. Word - 1
  PROVE  Unsigned(u) = u
BY Sizes, ModBelow DEF Unsigned

\* Wrapping before an addition is wrapping behind it.
LEMMA UnsignedPlus ==
  ASSUME NEW x \in Int, NEW y \in Int
  PROVE  Unsigned(Unsigned(x) + y) = Unsigned(x + y)
<1>1. PICK q \in Int : x = Unsigned(x) + Word * q
  BY UnsignedIs
<1>2. PICK u \in Nat : u = Unsigned(x)
  BY UnsignedIs
<1>3. Word \in Int
  BY Sizes
<1>4. x + y = (u + y) + Word * q /\ u + y \in Int
  BY <1>1, <1>2, <1>3
<1>5. Unsigned(x + y) = Unsigned(u + y)
  BY <1>4, UnsignedSame
<1>6. QED
  BY <1>2, <1>5

\* And before a multiplication.
LEMMA UnsignedTimes ==
  ASSUME NEW x \in Int, NEW y \in Int
  PROVE  Unsigned(Unsigned(x) * y) = Unsigned(x * y)
<1>1. PICK q \in Int : x = Unsigned(x) + Word * q
  BY UnsignedIs
<1>2. PICK u \in Nat : u = Unsigned(x)
  BY UnsignedIs
<1>3. PICK w \in Int : w = Word
  BY Sizes
<1>4. x * y = u * y + Word * (q * y) /\ u * y \in Int /\ q * y \in Int
  <2>1. x = u + w * q
    BY <1>1, <1>2, <1>3
  <2>2. (u + w * q) * y = u * y + w * (q * y) /\ u * y \in Int /\ q * y \in Int
    OBVIOUS
  <2>3. QED
    BY <1>3, <2>1, <2>2
<1>5. Unsigned(x * y) = Unsigned(u * y)
  BY <1>4, UnsignedSame
<1>6. QED
  BY <1>2, <1>5

\* The range of signed words.
LEMMA SignedAre ==
  /\ Signed \subseteq Int
  /\ \A n \in Int : n \in Signed <=> -Pow2[WordBits - 1] <= n /\ n < Pow2[WordBits - 1]
<1>1. Pow2[WordBits - 1] \in Nat
  BY Sizes
<1>2. QED
  BY <1>1 DEF Signed

\* A word as a signed one, and back.
LEMMA ToSignedIs ==
  ASSUME NEW u \in 0 .. Word - 1
  PROVE  ToSigned(u) \in Signed /\ ToSigned(u) \in Int /\ Unsigned(ToSigned(u)) = u
<1> DEFINE h == Pow2[WordBits - 1]
<1>1. h \in Nat \ {0} /\ Word = 2 * h
  BY Sizes
<1>2. Unsigned(u) = u
  BY UnsignedOf
<1>3. CASE u >= h
  <2>1. ToSigned(u) = u - Word
    BY <1>3 DEF ToSigned
  <2> HIDE DEF h
  <2>2. u - Word = u + Word * (-1) /\ u \in Int
    BY <1>1
  <2>3. Unsigned(u - Word) = Unsigned(u)
    BY <2>2, UnsignedSame
  <2>4. u - Word \in Int /\ -h <= u - Word /\ u - Word < h
    BY <1>1, <1>3
  <2>5. QED
    BY <1>2, <2>1, <2>3, <2>4, SignedAre DEF h
<1>4. CASE ~(u >= h)
  <2>1. ToSigned(u) = u
    BY <1>4 DEF ToSigned
  <2> HIDE DEF h
  <2>2. u \in Int /\ -h <= u /\ u < h
    BY <1>1, <1>4
  <2>3. QED
    BY <1>2, <2>1, <2>2, SignedAre DEF h
<1>5. QED
  BY <1>3, <1>4

\* A signed word as a word, and back.
LEMMA SignedBack ==
  ASSUME NEW n \in Signed
  PROVE  n \in Int /\ ToSigned(Unsigned(n)) = n
<1> DEFINE h == Pow2[WordBits - 1]
<1>1. h \in Nat \ {0} /\ Word = 2 * h
  BY Sizes
<1>2. n \in Int /\ -h <= n /\ n < h
  BY SignedAre
<1>3. CASE n >= 0
  <2>1. Unsigned(n) = n
    <3> HIDE DEF h
    <3>1. n \in 0 .. Word - 1
      BY <1>1, <1>2, <1>3
    <3>2. QED
      BY <3>1, UnsignedOf
  <2>2. ~(n >= h)
    <3> HIDE DEF h
    <3> QED
      BY <1>1, <1>2
  <2>3. QED
    BY <1>2, <2>1, <2>2 DEF ToSigned
<1>4. CASE ~(n >= 0)
  <2> DEFINE u == n + Word
  <2> HIDE DEF h
  <2>1. u \in 0 .. Word - 1 /\ u >= h /\ u - Word = n
    BY <1>1, <1>2, <1>4
  <2>2. u = n + Word * 1
    BY <1>1
  <2>3. Unsigned(u) = Unsigned(n)
    BY <1>2, <2>2, UnsignedSame
  <2> HIDE DEF u
  <2>4. Unsigned(u) = u
    BY <2>1, UnsignedOf
  <2>5. QED
    BY <1>2, <2>1, <2>3, <2>4 DEF ToSigned, h
<1>5. QED
  BY <1>3, <1>4

\* zigzag and unzigzag are inverse over all signed words.
LEMMA ZigZagBack ==
  ASSUME NEW n \in Signed
  PROVE  ZigZag(n) \in 0 .. Word - 1 /\ UnZigZag(ZigZag(n)) = n
<1> DEFINE h == Pow2[WordBits - 1]
<1>1. h \in Nat \ {0} /\ Word = 2 * h
  BY Sizes
<1>2. n \in Int /\ -h <= n /\ n < h
  BY SignedAre
<1> HIDE DEF h
<1>3. CASE n >= 0
  <2> DEFINE u == 2 * n
  <2>1. ZigZag(n) = u
    BY <1>2, <1>3 DEF ZigZag
  <2>2. u \in Int /\ 2 \in Nat \ {0} /\ 0 \in 0 .. 2 - 1 /\ u = 2 * n + 0
    BY <1>2
  <2>3. u \in 0 .. Word - 1
    BY <1>1, <1>2, <1>3
  <2> HIDE DEF u
  <2>4. u \div 2 = n /\ u % 2 = 0
    BY <1>2, <2>2, DivModIs
  <2>5. UnZigZag(u) = n
    BY <2>4 DEF UnZigZag
  <2>6. QED
    BY <2>1, <2>3, <2>5
<1>4. CASE ~(n >= 0)
  <2> DEFINE u == -2 * n - 1
             q == -n - 1
  <2>1. ZigZag(n) = u
    BY <1>2, <1>4 DEF ZigZag
  <2>2. u \in Int /\ 2 \in Nat \ {0} /\ 1 \in 0 .. 2 - 1 /\ u = 2 * q + 1 /\ q \in Int /\ -q - 1 = n
    BY <1>2
  <2>3. u \in 0 .. Word - 1
    BY <1>1, <1>2, <1>4
  <2> HIDE DEF u, q
  <2>4. u \div 2 = q /\ u % 2 = 1
    BY <2>2, DivModIs
  <2>5. UnZigZag(u) = n
    BY <2>2, <2>4 DEF UnZigZag
  <2>6. QED
    BY <2>1, <2>3, <2>5
<1>5. QED
  BY <1>3, <1>4

\* A difference is a signed word, and added to one value wraps to the next.
LEMMA DeltaIs ==
  ASSUME NEW v \in Seq(Signed), NEW i \in 2 .. Len(v)
  PROVE  /\ Delta(v, i) \in Signed /\ Delta(v, i) \in Int
         /\ v[i] \in Signed /\ v[i] \in Int /\ v[i - 1] \in Signed /\ v[i - 1] \in Int
         /\ Unsigned(v[i - 1] + Delta(v, i)) = Unsigned(v[i])
<1>1. v[i] \in Signed /\ v[i - 1] \in Signed
  OBVIOUS
<1>2. PICK a \in Int, b \in Int : a = v[i] /\ b = v[i - 1]
  BY <1>1, SignedAre
<1> DEFINE u == Unsigned(a - b)
           d == ToSigned(u)
<1>3. Delta(v, i) = d
  BY <1>2 DEF Delta
<1>4. u \in 0 .. Word - 1
  <2>1. a - b \in Int
    OBVIOUS
  <2>2. QED
    BY <2>1, UnsignedIs
<1> HIDE DEF u
<1>5. d \in Signed /\ d \in Int /\ Unsigned(d) = u
  BY <1>4, ToSignedIs
<1> HIDE DEF d
<1>6. Unsigned(b + d) = Unsigned(a)
  <2>1. Unsigned(d + b) = Unsigned(u + b)
    BY <1>5, UnsignedPlus
  <2>2. Unsigned(u + b) = Unsigned((a - b) + b)
    <3>1. a - b \in Int
      OBVIOUS
    <3>2. QED
      BY <3>1, UnsignedPlus DEF u
  <2>3. d + b = b + d /\ (a - b) + b = a
    BY <1>5
  <2>4. QED
    BY <2>1, <2>2, <2>3
<1>7. QED
  BY <1>1, <1>2, <1>3, <1>5, <1>6

\* The magnitude of a difference is at most half a word.
LEMMA MagnitudeIs ==
  ASSUME NEW d \in Signed
  PROVE  d \in Int /\ Magnitude(d) \in 0 .. Pow2[WordBits - 1] /\ Magnitude(d) \in Nat
<1>1. PICK h \in Nat : h = Pow2[WordBits - 1]
  BY Sizes
<1>2. d \in Int /\ -h <= d /\ d < h
  BY <1>1, SignedAre
<1>3. QED
  BY <1>1, <1>2 DEF Magnitude

\* Every difference is a multiple of the scale, which is no larger than a difference can be.
Scales(g, v, j) ==
  /\ g \in 0 .. Pow2[WordBits - 1]
  /\ \A i \in 1 .. j : Divides(g, Magnitude(Delta(v, i + 1)))

\* One more difference.
LEMMA ScaleTurns ==
  ASSUME NEW v \in Seq(Signed), NEW j \in 1 .. Len(v) - 1, NEW g \in Nat, Scales(g, v, j - 1)
  PROVE  Scales(Gcd(g, Magnitude(Delta(v, j + 1))), v, j)
<1> DEFINE m == Magnitude(Delta(v, j + 1))
           e == Gcd(g, m)
<1>1. PICK h \in Nat : h = Pow2[WordBits - 1]
  BY Sizes
<1>2. m \in 0 .. h /\ m \in Nat
  <2>1. j + 1 \in 2 .. Len(v)
    OBVIOUS
  <2>2. Delta(v, j + 1) \in Signed
    BY <2>1, DeltaIs
  <2>3. QED
    BY <1>1, <2>2, MagnitudeIs
<1>3. g <= h
  BY <1>1 DEF Scales
<1> HIDE DEF m
<1>4. e \in Nat /\ Divides(e, g) /\ Divides(e, m) /\ e <= h
  <2>1. g <= h /\ m <= h
    BY <1>2, <1>3
  <2>2. QED
    BY <1>2, <2>1, GcdIs
<1> HIDE DEF e
<1>5. ASSUME NEW i \in 1 .. j PROVE Divides(e, Magnitude(Delta(v, i + 1)))
  <2>1. CASE i = j
    BY <1>4, <2>1 DEF m
  <2>2. CASE i # j
    <3>1. i \in 1 .. j - 1
      BY <2>2
    <3>2. Divides(g, Magnitude(Delta(v, i + 1)))
      BY <3>1 DEF Scales
    <3>3. QED
      BY <1>4, <3>2, DividesOn
  <2>3. QED
    BY <2>1, <2>2
<1>6. e \in 0 .. h
  BY <1>4
<1>7. QED
  BY <1>1, <1>5, <1>6 DEF Scales, e, m

\* The scale is a word of which every difference is a multiple.
LEMMA ScaleIs ==
  ASSUME NEW v \in Seq(Signed), Len(v) > 0
  PROVE  /\ Scale(v) \in 1 .. Pow2[WordBits - 1]
         /\ \A i \in 2 .. Len(v) : Divides(Scale(v), Magnitude(Delta(v, i)))
<1> DEFINE n          == Len(v) - 1
           next(g, j) == Gcd(g, Magnitude(Delta(v, j + 1)))
           I          == [t \in 0 .. n |-> {g \in Nat : Scales(g, v, t)}]
           step       == [x \in Nat \X (1 .. n) |-> next(x[1], x[2])]
           Is(f)      == f = [j \in 0 .. n |-> IF j = 0 THEN 0 ELSE next(f[j - 1], j)]
           upto       == CHOOSE f : Is(f)
<1>1. n \in Nat
  OBVIOUS
<1>2. \A t \in 0 .. n : \A g : g \in I[t] <=> g \in Nat /\ Scales(g, v, t)
  OBVIOUS
<1>3. 0 \in I[0]
  <2>1. 0 \in 0 .. n
    BY <1>1
  <2>2. Scales(0, v, 0)
    <3>1. Pow2[WordBits - 1] \in Nat
      BY Sizes
    <3>2. QED
      BY <3>1 DEF Scales
  <2>3. QED
    BY <1>2, <2>1, <2>2
<1>4. ASSUME NEW t \in 1 .. n, NEW g \in I[t - 1] PROVE next(g, t) \in I[t]
  <2>1. t - 1 \in 0 .. n /\ t \in 0 .. n
    BY <1>1
  <2>2. g \in Nat /\ Scales(g, v, t - 1)
    BY <1>2, <2>1
  <2>3. Scales(next(g, t), v, t)
    BY <2>2, ScaleTurns
  <2>4. next(g, t) \in Nat
    <3>1. Pow2[WordBits - 1] \in Nat
      BY Sizes
    <3> HIDE DEF next
    <3>2. QED
      BY <2>3, <3>1 DEF Scales
  <2> HIDE DEF next, I
  <2>5. QED
    BY <1>2, <2>1, <2>3, <2>4
<1>5. ASSUME NEW t \in 1 .. n, NEW g \in I[t - 1] PROVE step[<<g, t>>] = next(g, t)
  <2>1. t - 1 \in 0 .. n
    BY <1>1
  <2>2. g \in Nat
    BY <1>2, <2>1
  <2>3. <<g, t>> \in Nat \X (1 .. n) /\ <<g, t>>[1] = g /\ <<g, t>>[2] = t
    BY <2>2
  <2> HIDE DEF next, n
  <2>4. QED
    BY <2>3
<1> HIDE DEF I, step, next
<1>6. PICK f : Follows(f, n, 0, step)
  BY <1>1, LoopExists
<1> HIDE DEF n
<1>7. \A t \in 0 .. n : f[t] \in I[t]
  <2>1. Leads(I, n, step)
    BY <1>4, <1>5 DEF Leads
  <2>2. QED
    BY <1>1, <1>3, <1>6, <2>1, LoopKeeps
<1>8. Is(f)
  <2>1. ASSUME NEW t \in 1 .. n PROVE f[t] = next(f[t - 1], t)
    <3>1. f[t] = step[<<f[t - 1], t>>]
      BY <1>6 DEF Follows
    <3>2. t - 1 \in 0 .. n
      BY <1>1
    <3>3. QED
      BY <1>5, <1>7, <3>1, <3>2
  <2>2. f = [t \in 0 .. n |-> f[t]] /\ f[0] = 0
    BY <1>6 DEF Follows
  <2>3. ASSUME NEW t \in 0 .. n
        PROVE  f[t] = IF t = 0 THEN 0 ELSE next(f[t - 1], t)
    <3>1. t = 0 \/ t \in 1 .. n
      BY <1>1
    <3>2. QED
      BY <2>1, <2>2, <3>1
  <2>4. [t \in 0 .. n |-> f[t]] = [t \in 0 .. n |-> IF t = 0 THEN 0 ELSE next(f[t - 1], t)]
    BY <2>3
  <2>5. QED
    BY <2>2, <2>4
<1>9. Is(upto)
  <2> HIDE DEF Is
  <2> QED
    BY <1>8
<1>10. Scale(v) = IF upto[n] = 0 THEN 1 ELSE upto[n]
  BY DEF Scale, n, next
<1> HIDE DEF upto
<1> DEFINE P == {t \in 0 .. n : upto[t] \in I[t]}
<1>11. 0 \in P
  BY <1>1, <1>3, <1>9
<1>12. ASSUME NEW t \in 1 .. n, t - 1 \in P PROVE t \in P
  <2>1. t \in 0 .. n /\ t # 0
    BY <1>1
  <2>2. upto[t] = next(upto[t - 1], t)
    BY <1>9, <2>1
  <2>3. QED
    BY <1>4, <1>12, <2>1, <2>2
<1>13. \A t \in 0 .. n : t \in P
  <2> HIDE DEF P
  <2> QED
    BY <1>1, <1>11, <1>12, NatUpTo
<1>14. n \in 0 .. n
  BY <1>1
<1>15. PICK g : g = upto[n]
  OBVIOUS
<1>16. g \in Nat /\ Scales(g, v, n)
  BY <1>2, <1>13, <1>14, <1>15
<1>17. PICK h \in Nat \ {0} : h = Pow2[WordBits - 1]
  BY Sizes
<1>18. Scale(v) = IF g = 0 THEN 1 ELSE g
  BY <1>10, <1>15
<1>19. Scale(v) \in 1 .. h
  BY <1>16, <1>17, <1>18 DEF Scales
<1>20. ASSUME NEW i \in 2 .. Len(v) PROVE Divides(Scale(v), Magnitude(Delta(v, i)))
  <2> DEFINE k == i - 1
  <2>1. k \in 1 .. n /\ k + 1 = i
    BY DEF n
  <2> HIDE DEF k
  <2>2. Divides(g, Magnitude(Delta(v, i)))
    BY <1>16, <2>1 DEF Scales
  <2>3. PICK m \in Nat : m = Magnitude(Delta(v, i))
    BY DeltaIs, MagnitudeIs
  <2>4. Divides(1, g)
    BY <1>16, DividesItself
  <2>5. CASE g = 0
    BY <1>16, <1>18, <2>2, <2>4, <2>5, DividesOn
  <2>6. CASE g # 0
    BY <1>18, <2>2, <2>6
  <2>7. QED
    BY <2>5, <2>6
<1>21. QED
  BY <1>17, <1>19, <1>20

\* The division is exact, up to whole words.
LEMMA DividedIs ==
  ASSUME NEW d \in Signed, NEW scale \in 1 .. Pow2[WordBits - 1], Divides(scale, Magnitude(d))
  PROVE  /\ Divided(d, scale) \in Signed /\ Divided(d, scale) \in Int
         /\ Unsigned(Divided(d, scale) * scale) = Unsigned(d)
<1>1. PICK h \in Nat \ {0} : h = Pow2[WordBits - 1]
  BY Sizes
<1>2. d \in Int /\ -h <= d /\ d < h /\ Word = 2 * h /\ scale \in 1 .. h /\ scale \in Nat \ {0}
  BY <1>1, Sizes, SignedAre
<1>3. PICK q \in Nat : Magnitude(d) = scale * q
  BY DEF Divides
<1>4. PICK z \in Int : d = scale * z
  <2>1. CASE d < 0
    <3>1. d = scale * (-q) /\ -q \in Int
      BY <1>2, <1>3, <2>1 DEF Magnitude
    <3>2. QED
      BY <3>1
  <2>2. CASE ~(d < 0)
    BY <1>2, <1>3, <2>2 DEF Magnitude
  <2>3. QED
    BY <2>1, <2>2
<1>5. CASE scale < h
  <2>1. ToSigned(scale) = scale
    BY <1>1, <1>2, <1>5 DEF ToSigned
  <2>2. Divided(d, scale) = d \div scale
    BY <1>2, <2>1 DEF Divided
  <2>3. d = scale * z + 0 /\ 0 \in 0 .. scale - 1
    BY <1>2, <1>4
  <2>4. d \div scale = z
    BY <1>2, <2>3, DivModIs
  <2>5. -h <= z /\ z < h
    <3>1. CASE z >= 0
      <4>1. scale * z >= z /\ scale * z \in Int
        BY <1>2, <3>1
      <4>2. QED
        BY <1>2, <1>4, <3>1, <4>1
    <3>2. CASE z < 0
      <4>1. scale * z <= z /\ scale * z \in Int
        BY <1>2, <3>2
      <4>2. QED
        BY <1>2, <1>4, <3>2, <4>1
    <3>3. QED
      BY <3>1, <3>2
  <2>6. z \in Signed
    BY <1>1, <2>5, SignedAre
  <2>7. z * scale = d
    BY <1>2, <1>4
  <2>8. QED
    BY <2>2, <2>4, <2>6, <2>7
<1>6. CASE scale = h
  <2>1. ToSigned(scale) = -h
    BY <1>1, <1>2, <1>6 DEF ToSigned
  <2>2. Divided(d, scale) = (-d) \div h
    <3>1. -h < 0 /\ -(-h) = h
      OBVIOUS
    <3>2. QED
      BY <2>1, <3>1 DEF Divided
  <2>3. d = 0 \/ d = -h
    <3>1. d = h * z
      BY <1>4, <1>6
    <3>2. CASE z >= 1
      <4>1. h * z >= h
        BY <3>2
      <4>2. QED
        BY <1>2, <3>1, <4>1
    <3>3. CASE z <= -2
      <4>1. h * z <= -2 * h
        BY <3>3
      <4>2. QED
        BY <1>2, <3>1, <4>1
    <3>4. CASE z = 0
      BY <3>1, <3>4
    <3>5. CASE z = -1
      BY <3>1, <3>5
    <3>6. QED
      BY <3>2, <3>3, <3>4, <3>5
  <2>4. h >= 2
    <3>1. WordBits - 1 \in Nat \ {0} /\ (WordBits - 1) - 1 \in Nat
      BY Sizes
    <3>2. Pow2[WordBits - 1] = 2 * Pow2[(WordBits - 1) - 1] /\ Pow2[(WordBits - 1) - 1] \in Nat \ {0}
      BY <3>1, PowersAre, PowersGrow
    <3>3. QED
      BY <1>1, <3>2
  <2>5. CASE d = 0
    <3>1. -d \in Int /\ 0 \in Int /\ -d = h * 0 + 0 /\ 0 \in 0 .. h - 1
      BY <2>5
    <3>2. (-d) \div h = 0
      BY <3>1, DivModIs
    <3>3. 0 \in Signed
      BY <1>1, SignedAre
    <3>4. 0 * scale = d
      BY <1>2, <2>5
    <3>5. QED
      BY <2>2, <3>2, <3>3, <3>4
  <2>6. CASE d = -h
    <3>1. -d \in Int /\ 1 \in Int /\ -d = h * 1 + 0 /\ 0 \in 0 .. h - 1
      BY <2>6
    <3>2. (-d) \div h = 1
      BY <3>1, DivModIs
    <3>3. 1 \in Signed
      BY <1>1, <2>4, SignedAre
    <3>4. 1 * scale = h /\ h = d + Word * 1
      BY <1>2, <1>6, <2>6
    <3>5. Unsigned(h) = Unsigned(d)
      <4>1. d \in Int /\ 1 \in Int /\ h = d + Word * 1
        BY <1>2, <3>4
      <4>2. QED
        BY <4>1, UnsignedSame
    <3>6. QED
      BY <2>2, <3>2, <3>3, <3>4, <3>5
  <2>7. QED
    BY <2>3, <2>5, <2>6
<1>7. QED
  BY <1>2, <1>5, <1>6

-----------------------------------------------------------------------------
(* A block: its values from its residuals.                                  *)

\* Residuals, least and scale from which, mod 2^64, the n differences of v at from return.
GivesBack(v, from, n, residuals, least, scale) ==
  /\ from \in Nat /\ from >= 2 /\ n \in Nat /\ from + n - 1 <= Len(v)
  /\ residuals \in [1 .. n -> Nat] /\ least \in Int /\ scale \in Nat
  /\ \A j \in 1 .. n :
       Unsigned(Unsigned(residuals[j] + least) * scale) = Unsigned(Delta(v, from + j - 1))

\* decode_column: the values of a block come back from its residuals and the value before.
LEMMA RestoredIs ==
  ASSUME NEW v \in Seq(Signed), NEW from, NEW n, NEW residuals, NEW least, NEW scale,
         GivesBack(v, from, n, residuals, least, scale)
  PROVE  Restored(residuals, least, scale, v[from - 1]) = [j \in 1 .. n |-> v[from + j - 1]]
<1>1. from \in Nat /\ from >= 2 /\ n \in Nat /\ from + n - 1 <= Len(v)
  BY DEF GivesBack
<1>2. residuals \in [1 .. n -> Nat] /\ least \in Int /\ scale \in Nat
  BY DEF GivesBack
<1>3. \A j \in 1 .. n :
        Unsigned(Unsigned(residuals[j] + least) * scale) = Unsigned(Delta(v, from + j - 1))
  BY DEF GivesBack
<1> DEFINE next(p, j) == ToSigned(Unsigned(p + Unsigned(residuals[j] + least) * scale))
           Is(f)      == f = [j \in 0 .. n |-> IF j = 0 THEN v[from - 1] ELSE next(f[j - 1], j)]
           upto       == CHOOSE f : Is(f)
           g          == [j \in 0 .. n |-> v[from + j - 1]]
<1>4. ASSUME NEW j \in 1 .. n PROVE next(v[from + j - 2], j) = v[from + j - 1]
  <2> DEFINE i == from + j - 1
             c == Unsigned(residuals[j] + least) * scale
  <2>1. i \in 2 .. Len(v) /\ i - 1 = from + j - 2
    BY <1>1, <1>2
  <2>2. c \in Int
    <3>1. residuals[j] + least \in Int
      BY <1>1, <1>2
    <3>2. Unsigned(residuals[j] + least) \in Nat
      BY <1>1, <1>2, <3>1, UnsignedIs
    <3>3. QED
      BY <1>1, <1>2, <3>2
  <2>3. Unsigned(c) = Unsigned(Delta(v, i))
    BY <1>3
  <2> HIDE DEF i, c
  <2>4. PICK a \in Signed, b \in Signed, d \in Int : a = v[i] /\ b = v[i - 1] /\ d = Delta(v, i)
    BY <1>1, <1>2, <2>1, DeltaIs
  <2>5. a \in Int /\ b \in Int
    BY <1>1, <1>2, SignedBack
  <2>6. Unsigned(b + d) = Unsigned(a)
    BY <1>1, <1>2, <2>1, <2>4, DeltaIs
  <2>7. Unsigned(b + c) = Unsigned(b + d)
    <3>1. Unsigned(c + b) = Unsigned(Unsigned(c) + b)
      BY <1>1, <1>2, <2>2, <2>5, UnsignedPlus
    <3>2. Unsigned(d + b) = Unsigned(Unsigned(d) + b)
      BY <1>1, <1>2, <2>4, <2>5, UnsignedPlus
    <3>3. b + c = c + b /\ b + d = d + b
      BY <1>1, <1>2, <2>2, <2>4, <2>5
    <3>4. QED
      BY <1>1, <1>2, <2>3, <2>4, <3>1, <3>2, <3>3
  <2>8. ToSigned(Unsigned(a)) = a
    BY <1>1, <1>2, SignedBack
  <2>9. next(b, j) = ToSigned(Unsigned(b + c))
    BY <1>1, <1>2 DEF c
  <2>10. next(b, j) = a
    BY <1>1, <1>2, <2>6, <2>7, <2>8, <2>9
  <2>11. QED
    BY <1>1, <1>2, <2>1, <2>4, <2>10 DEF i
<1> HIDE DEF next
<1>5. Is(g)
  <2>1. ASSUME NEW j \in 0 .. n PROVE g[j] = IF j = 0 THEN v[from - 1] ELSE next(g[j - 1], j)
    <3>1. CASE j = 0
      BY <1>1, <1>2, <3>1
    <3>2. CASE j # 0
      <4>1. j \in 1 .. n /\ j - 1 \in 0 .. n /\ from + (j - 1) - 1 = from + j - 2
        BY <1>1, <1>2, <3>2
      <4>2. g[j - 1] = v[from + j - 2] /\ g[j] = v[from + j - 1]
        BY <1>1, <1>2, <4>1
      <4>3. QED
        BY <1>1, <1>2, <1>4, <3>2, <4>1, <4>2
    <3>3. QED
      BY <1>1, <1>2, <3>1, <3>2
  <2>2. g = [j \in 0 .. n |-> g[j]]
    BY <1>1, <1>2
  <2> HIDE DEF g
  <2>3. [j \in 0 .. n |-> g[j]] = [j \in 0 .. n |-> IF j = 0 THEN v[from - 1] ELSE next(g[j - 1], j)]
    BY <1>1, <1>2, <2>1
  <2>4. QED
    BY <1>1, <1>2, <2>2, <2>3
<1>6. Is(upto)
  <2> HIDE DEF Is, g
  <2> QED
    BY <1>1, <1>2, <1>5
<1>7. Restored(residuals, least, scale, v[from - 1]) = [j \in 1 .. n |-> upto[j]]
  <2>1. Len(residuals) = n
    BY <1>1, <1>2
  <2>2. QED
    BY <1>1, <1>2, <2>1 DEF Restored, next
<1> HIDE DEF upto, g
<1> DEFINE P == {j \in 0 .. n : upto[j] = v[from + j - 1]}
<1>8. 0 \in P
  BY <1>1, <1>2, <1>6
<1>9. ASSUME NEW j \in 1 .. n, j - 1 \in P PROVE j \in P
  <2>1. j \in 0 .. n /\ j # 0 /\ from + (j - 1) - 1 = from + j - 2
    BY <1>1, <1>2
  <2>2. upto[j] = next(upto[j - 1], j)
    BY <1>1, <1>2, <1>6, <2>1
  <2>3. upto[j - 1] = v[from + j - 2]
    BY <1>1, <1>2, <1>9, <2>1
  <2>4. QED
    BY <1>1, <1>2, <1>4, <2>1, <2>2, <2>3
<1>10. \A j \in 0 .. n : j \in P
  <2> HIDE DEF P
  <2> QED
    BY <1>1, <1>2, <1>8, <1>9, NatUpTo
<1>11. \A j \in 1 .. n : upto[j] = v[from + j - 1]
  BY <1>10
<1>12. QED
  BY <1>1, <1>2, <1>7, <1>11

-----------------------------------------------------------------------------
(* The smallest and the largest of some numbers.                            *)

\* The smallest of some numbers is one of them, and below all.
LEMMA LeastOf ==
  ASSUME NEW n \in Nat \ {0}, NEW d, \A j \in 1 .. n : d[j] \in Int
  PROVE  /\ \E k \in 1 .. n : Min({d[j] : j \in 1 .. n}) = d[k]
         /\ \A j \in 1 .. n : Min({d[i] : i \in 1 .. n}) <= d[j]
<1> DEFINE P == {m \in 0 .. n - 1 : \E k \in 1 .. m + 1 : \A j \in 1 .. m + 1 : d[k] <= d[j]}
<1>1. 0 \in P
  OBVIOUS
<1>2. ASSUME NEW m \in 1 .. n - 1, m - 1 \in P PROVE m \in P
  <2>1. PICK k \in 1 .. m : \A j \in 1 .. m : d[k] <= d[j]
    BY <1>2
  <2>2. k \in 1 .. n /\ m + 1 \in 1 .. n /\ d[k] \in Int /\ d[m + 1] \in Int
    OBVIOUS
  <2>3. CASE d[k] <= d[m + 1]
    <3>1. \A j \in 1 .. m + 1 : d[k] <= d[j]
      BY <2>1, <2>3
    <3>2. QED
      BY <3>1
  <2>4. CASE ~(d[k] <= d[m + 1])
    <3>1. ASSUME NEW j \in 1 .. m + 1 PROVE d[m + 1] <= d[j]
      <4>1. j \in 1 .. m \/ j = m + 1
        OBVIOUS
      <4>2. d[j] \in Int
        OBVIOUS
      <4>3. QED
        BY <2>1, <2>2, <2>4, <4>1, <4>2
    <3>2. QED
      BY <3>1
  <2>5. QED
    BY <2>3, <2>4
<1>3. \A m \in 0 .. n - 1 : m \in P
  <2>1. n - 1 \in Nat
    OBVIOUS
  <2> HIDE DEF P
  <2>2. QED
    BY <1>1, <1>2, <2>1, NatUpTo
<1>4. n - 1 \in P
  BY <1>3
<1>5. PICK k \in 1 .. n : \A j \in 1 .. n : d[k] <= d[j]
  BY <1>4
<1> DEFINE S == {d[j] : j \in 1 .. n}
<1>6. d[k] \in S /\ d[k] \in Int /\ S \subseteq Int /\ \A x \in S : x >= d[k]
  BY <1>5
<1> HIDE DEF S
<1>7. Min(S) = d[k]
  BY <1>6, LeastIs
<1>8. QED
  BY <1>5, <1>7 DEF S

\* The largest of some numbers is one of them, and above all.
LEMMA GreatestOf ==
  ASSUME NEW n \in Nat \ {0}, NEW d, \A j \in 1 .. n : d[j] \in Int
  PROVE  /\ \E k \in 1 .. n : Max({d[j] : j \in 1 .. n}) = d[k]
         /\ \A j \in 1 .. n : Max({d[i] : i \in 1 .. n}) >= d[j]
<1> DEFINE e == [j \in 1 .. n |-> -d[j]]
           T == {e[j] : j \in 1 .. n}
           S == {d[j] : j \in 1 .. n}
<1>1. \A j \in 1 .. n : e[j] = -d[j] /\ e[j] \in Int
  OBVIOUS
<1> HIDE DEF e
<1>2. PICK k \in 1 .. n : \A j \in 1 .. n : e[k] <= e[j]
  <2>1. (\E k \in 1 .. n : Min(T) = e[k]) /\ (\A j \in 1 .. n : Min(T) <= e[j])
    BY <1>1, LeastOf
  <2> HIDE DEF T
  <2>2. QED
    BY <2>1
<1>3. \A j \in 1 .. n : d[k] >= d[j]
  <2>1. SUFFICES ASSUME NEW j \in 1 .. n PROVE d[k] >= d[j]
    OBVIOUS
  <2>2. e[k] <= e[j] /\ e[k] = -d[k] /\ e[j] = -d[j] /\ d[k] \in Int /\ d[j] \in Int
    BY <1>1, <1>2
  <2>3. QED
    BY <2>2
<1>4. d[k] \in S /\ d[k] \in Int /\ S \subseteq Int /\ \A x \in S : d[k] >= x
  BY <1>3
<1> HIDE DEF S
<1>5. Max(S) = d[k]
  <2>1. Max(S) = CHOOSE x \in S : \A y \in S : x >= y
    BY DEF Max
  <2>2. PICK m : m = Max(S)
    OBVIOUS
  <2>3. m \in S /\ \A y \in S : m >= y
    BY <1>4, <2>1, <2>2
  <2>4. m >= d[k] /\ d[k] >= m /\ m \in Int
    BY <1>4, <2>3
  <2>5. QED
    BY <1>4, <2>2, <2>4
<1>6. QED
  BY <1>3, <1>5 DEF S

-----------------------------------------------------------------------------
(* The blocks of a column.                                                  *)

\* The smaller of two numbers.
LEMMA SmallestOfTwo ==
  ASSUME NEW a \in Int, NEW b \in Int
  PROVE  Min({a, b}) = IF a <= b THEN a ELSE b
<1>1. CASE a <= b
  <2>1. a \in {a, b} /\ {a, b} \subseteq Int /\ \A x \in {a, b} : x >= a
    BY <1>1
  <2>2. QED
    BY <1>1, <2>1, LeastIs
<1>2. CASE ~(a <= b)
  <2>1. b \in {a, b} /\ {a, b} \subseteq Int /\ \A x \in {a, b} : x >= b
    BY <1>2
  <2>2. QED
    BY <1>2, <2>1, LeastIs
<1>3. QED
  BY <1>1, <1>2

\* They follow each other from the second value to the last.
LEMMA BlocksAre ==
  ASSUME NEW count \in Nat \ {0}
  PROVE  /\ Blocks(count) \in Nat
         /\ Blocks(count) = 0 => count = 1
         /\ BlockStart(1) = 2
         /\ \A b \in 1 .. Blocks(count) :
              /\ BlockStart(b) \in Nat /\ BlockStart(b) >= 2 /\ BlockLength(count, b) \in Nat \ {0}
              /\ BlockStart(b) + BlockLength(count, b) - 1 <= count
              /\ b < Blocks(count) => BlockStart(b + 1) = BlockStart(b) + BlockLength(count, b)
              /\ b = Blocks(count) => BlockStart(b) + BlockLength(count, b) - 1 = count
<1>1. PICK w \in Nat \ {0} : w = Block
  BY Sizes
<1> DEFINE z == count + w - 2
           q == z \div w
           r == z % w
<1>2. q \in Int /\ r \in 0 .. w - 1 /\ z = w * q + r
  <2>1. z \in Int
    OBVIOUS
  <2> HIDE DEF z
  <2>2. QED
    BY <2>1, DivMod
<1>3. Blocks(count) = q
  BY <1>1 DEF Blocks
<1> HIDE DEF q, r
<1>4. w * q \in Int /\ w * q >= count - 1 /\ w * q <= count + w - 2
  BY <1>2
<1>5. q \in Nat
  <2>1. ASSUME q <= -1 PROVE FALSE
    <3>1. w * q <= -w
      BY <1>2, <2>1
    <3>2. QED
      BY <1>4, <3>1
  <2>2. QED
    BY <1>2, <2>1
<1>6. q = 0 => count = 1
  BY <1>4
<1>7. BlockStart(1) = 2
  <2>1. 0 * Block = 0 /\ 1 - 1 = 0
    BY <1>1
  <2>2. QED
    BY <2>1 DEF BlockStart
<1>8. ASSUME NEW b \in 1 .. q
      PROVE  /\ BlockStart(b) \in Nat /\ BlockStart(b) >= 2 /\ BlockLength(count, b) \in Nat \ {0}
             /\ BlockStart(b) + BlockLength(count, b) - 1 <= count
             /\ b < q => BlockStart(b + 1) = BlockStart(b) + BlockLength(count, b)
             /\ b = q => BlockStart(b) + BlockLength(count, b) - 1 = count
  <2> DEFINE y == (b - 1) * w
             x == w * q
  <2>1. y \in Nat /\ x \in Int
    BY <1>4
  <2>2. BlockStart(b) = 2 + y
    BY <1>1 DEF BlockStart
  <2>3. BlockLength(count, b) = IF w <= count - 1 - y THEN w ELSE count - 1 - y
    <3> HIDE DEF y
    <3>1. w \in Int /\ count - (2 + y) + 1 \in Int /\ count - (2 + y) + 1 = count - 1 - y
      BY <2>1
    <3>2. Min({w, count - 1 - y}) = IF w <= count - 1 - y THEN w ELSE count - 1 - y
      BY <3>1, SmallestOfTwo
    <3>3. QED
      BY <1>1, <2>2, <3>1, <3>2 DEF BlockLength
  <2>4. BlockStart(b + 1) = 2 + y + w
    <3>1. (b + 1) - 1 = b /\ b * w = (b - 1) * w + w
      OBVIOUS
    <3>2. QED
      BY <1>1, <2>1, <3>1 DEF BlockStart
  <2>5. y <= x - w /\ (b < q => y <= x - 2 * w) /\ (b = q => y = x - w)
    <3>1. (b - 1) * w <= (q - 1) * w /\ (q - 1) * w = w * q - w
      BY <1>5
    <3>2. b < q => (b - 1) * w <= (q - 2) * w /\ (q - 2) * w = w * q - 2 * w
      BY <1>5
    <3>3. QED
      BY <3>1, <3>2
  <2> HIDE DEF x, y
  <2>6. x >= count - 1 /\ x <= count + w - 2
    BY <1>4 DEF x
  <2>7. count - 1 - y >= 1 /\ (b < q => count - 1 - y >= w) /\ (b = q => count - 1 - y <= w)
    BY <2>1, <2>5, <2>6
  <2>8. QED
    BY <2>1, <2>2, <2>3, <2>4, <2>7
<1>9. QED
  BY <1>3, <1>5, <1>6, <1>7, <1>8

-----------------------------------------------------------------------------
(* Pieces one behind the other.                                             *)

\* If two pieces lie there together, each lies there.
LEMMA LiesIn ==
  ASSUME NEW a \in Seq(Nat), NEW b \in Seq(Nat), NEW s \in Seq(Nat), NEW pos \in Nat \ {0}, Lies(a \o b, s, pos)
  PROVE  /\ Lies(a, s, pos) /\ Lies(b, s, pos + Len(a))
         /\ a \o b \in Seq(Nat) /\ Len(a \o b) = Len(a) + Len(b)
         /\ pos + Len(a) \in Nat \ {0}
<1> DEFINE c == a \o b
<1>1. PICK m \in Nat, n \in Nat : m = Len(a) /\ n = Len(b)
  OBVIOUS
<1>2. /\ c \in Seq(Nat) /\ Len(c) = m + n
      /\ \A i \in 1 .. m : c[i] = a[i]
      /\ \A i \in 1 .. n : c[m + i] = b[i]
  BY <1>1
<1>3. \A i \in 1 .. Len(c) : pos + i - 1 <= Len(s) => s[pos + i - 1] = c[i]
  BY DEF Lies
<1> HIDE DEF c
<1>4. Lies(a, s, pos)
  BY <1>1, <1>2, <1>3 DEF Lies
<1>5. ASSUME NEW i \in 1 .. n, (pos + m) + i - 1 <= Len(s) PROVE s[(pos + m) + i - 1] = b[i]
  <2> DEFINE k == m + i
  <2>1. k \in 1 .. Len(c) /\ pos + k - 1 <= Len(s) /\ pos + k - 1 = (pos + m) + i - 1
    BY <1>2, <1>5
  <2>2. c[k] = b[i]
    BY <1>2
  <2> HIDE DEF k
  <2>3. QED
    BY <1>3, <2>1, <2>2
<1>6. Lies(b, s, pos + m)
  BY <1>1, <1>5 DEF Lies
<1>7. QED
  BY <1>1, <1>2, <1>4, <1>6 DEF c

-----------------------------------------------------------------------------
(* One block.                                                               *)

\* The bytes after a block's width.
Body(residuals, bits) == IF bits = WordBits THEN PutRaw(residuals) ELSE Pack(residuals, bits)

\* What a block is made of: residuals that fit its bits, and together with the
\* least of its differences give the differences back.
PartsOf(v, from, n, scale, least, bits, residuals) ==
  /\ least \in Signed
  /\ bits \in Nat
  /\ residuals \in [1 .. n -> 0 .. Word - 1]
  /\ bits = WordBits \/ (bits \in 0 .. MaxPackedBits /\ \A j \in 1 .. n : residuals[j] \in 0 .. Pow2[bits] - 1)
  /\ \A j \in 1 .. n : Unsigned(Unsigned(residuals[j] + least) * scale) = Unsigned(Delta(v, from + j - 1))

\* The scale of a column.
Scaled(v, scale) ==
  /\ scale \in 1 .. Pow2[WordBits - 1]
  /\ \A i \in 2 .. Len(v) : Divides(scale, Magnitude(Delta(v, i)))

\* Where a block's values are in the column.
BlockAt(v, b, from, n) ==
  /\ from \in Nat /\ from = BlockStart(b) /\ from >= 2
  /\ n \in Nat \ {0} /\ n = BlockLength(Len(v), b) /\ from + n - 1 <= Len(v)

\* Block b, which begins at from and has n values, is written from such parts.
Parted(v, b, from, n, scale) ==
  \E least, bits, residuals :
    /\ PartsOf(v, from, n, scale, least, bits, residuals)
    /\ EncodeBlock(v, b, scale) = PutVarint(ZigZag(least)) \o <<bits>> \o Body(residuals, bits)

\* encode_column makes every block of such parts.
LEMMA BlockParts ==
  ASSUME NEW v \in Seq(Signed), NEW b, NEW from, NEW n, NEW scale,
         BlockAt(v, b, from, n), Scaled(v, scale)
  PROVE  Parted(v, b, from, n, scale)
<1>1. from \in Nat /\ from = BlockStart(b) /\ from >= 2
  BY DEF BlockAt
<1>2. n \in Nat \ {0} /\ n = BlockLength(Len(v), b) /\ from + n - 1 <= Len(v)
  BY DEF BlockAt
<1>3. scale \in 1 .. Pow2[WordBits - 1]
  BY DEF Scaled
<1>4. \A i \in 2 .. Len(v) : Divides(scale, Magnitude(Delta(v, i)))
  BY DEF Scaled
<1> DEFINE deltas    == [j \in 1 .. n |-> Divided(Delta(v, from + j - 1), scale)]
           least     == Min({deltas[j] : j \in 1 .. n})
           residuals == [j \in 1 .. n |-> Unsigned(deltas[j] - least)]
           most      == Max({residuals[j] : j \in 1 .. n})
           needed    == BitsFor(most)
           bits      == IF needed > MaxPackedBits THEN WordBits ELSE needed
<1>5. EncodeBlock(v, b, scale) = PutVarint(ZigZag(least)) \o <<bits>> \o Body(residuals, bits)
  BY <1>1, <1>2 DEF EncodeBlock, Body
<1>6. ASSUME NEW j \in 1 .. n
      PROVE  /\ deltas[j] \in Signed /\ deltas[j] \in Int
             /\ Unsigned(deltas[j] * scale) = Unsigned(Delta(v, from + j - 1))
  <2> DEFINE i == from + j - 1
             d == Delta(v, i)
  <2>1. i \in 2 .. Len(v)
    BY <1>1, <1>2
  <2> HIDE DEF i
  <2>2. d \in Signed /\ Divides(scale, Magnitude(d))
    BY <1>4, <2>1, DeltaIs
  <2> HIDE DEF d
  <2>3. /\ Divided(d, scale) \in Signed /\ Divided(d, scale) \in Int
        /\ Unsigned(Divided(d, scale) * scale) = Unsigned(d)
    BY <1>3, <2>2, DividedIs
  <2>4. deltas[j] = Divided(d, scale)
    BY DEF d, i
  <2>5. QED
    BY <2>3, <2>4 DEF d, i
<1> HIDE DEF deltas
<1>7. least \in Signed /\ least \in Int
  <2>1. \A j \in 1 .. n : deltas[j] \in Int
    BY <1>6
  <2>2. PICK k \in 1 .. n : least = deltas[k]
    BY <1>2, <2>1, LeastOf
  <2> HIDE DEF least
  <2>3. QED
    BY <1>6, <2>2
<1> HIDE DEF least
<1>8. ASSUME NEW j \in 1 .. n
      PROVE  /\ residuals[j] \in 0 .. Word - 1 /\ residuals[j] \in Int
             /\ Unsigned(Unsigned(residuals[j] + least) * scale) = Unsigned(Delta(v, from + j - 1))
  <2>1. PICK d \in Int : d = deltas[j]
    BY <1>6
  <2>2. d - least \in Int /\ scale \in Int /\ scale \in Nat
    BY <1>7, <1>3, Sizes
  <2>3. residuals[j] = Unsigned(d - least)
    BY <2>1
  <2> HIDE DEF residuals
  <2>4. residuals[j] \in 0 .. Word - 1 /\ residuals[j] \in Nat
    BY <2>2, <2>3, UnsignedIs
  <2>5. Unsigned(residuals[j] + least) = Unsigned(d)
    <3>1. Unsigned(Unsigned(d - least) + least) = Unsigned((d - least) + least)
      BY <1>7, <2>2, UnsignedPlus
    <3>2. (d - least) + least = d
      BY <1>7
    <3>3. QED
      BY <2>3, <3>1, <3>2
  <2>6. Unsigned(Unsigned(residuals[j] + least) * scale) = Unsigned(d * scale)
    <3>1. Unsigned(Unsigned(d) * scale) = Unsigned(d * scale)
      BY <2>2, UnsignedTimes
    <3>2. QED
      BY <2>5, <3>1
  <2>7. QED
    BY <1>6, <2>1, <2>4, <2>6
<1>9. residuals \in [1 .. n -> 0 .. Word - 1]
  <2>1. residuals = [j \in 1 .. n |-> residuals[j]]
    OBVIOUS
  <2> HIDE DEF residuals
  <2>2. QED
    BY <1>8, <2>1
<1> HIDE DEF residuals
<1>10. most \in 0 .. Word - 1 /\ \A j \in 1 .. n : residuals[j] <= most
  <2>1. \A j \in 1 .. n : residuals[j] \in Int
    BY <1>8
  <2>2. PICK k \in 1 .. n : most = residuals[k]
    BY <1>2, <2>1, GreatestOf
  <2>3. \A j \in 1 .. n : most >= residuals[j]
    BY <1>2, <2>1, GreatestOf
  <2> HIDE DEF most
  <2>4. most \in 0 .. Word - 1
    BY <1>8, <2>2
  <2>5. Word \in Nat
    BY Sizes
  <2>6. QED
    BY <1>8, <2>3, <2>4, <2>5
<1> HIDE DEF most
<1>11. needed \in 0 .. WordBits /\ most < Pow2[needed]
  BY <1>10, BitsAre
<1> HIDE DEF needed
<1>12. CASE needed > MaxPackedBits
  <2>1. bits = WordBits /\ WordBits \in Nat
    BY <1>12, Sizes
  <2> HIDE DEF bits
  <2>2. PartsOf(v, from, n, scale, least, bits, residuals)
    BY <1>7, <1>8, <1>9, <2>1 DEF PartsOf
  <2>3. QED
    BY <1>5, <2>2 DEF Parted
<1>13. CASE ~(needed > MaxPackedBits)
  <2>1. bits = needed /\ needed \in 0 .. MaxPackedBits /\ needed \in Nat
    <3>1. MaxPackedBits \in Nat /\ WordBits \in Nat
      BY Sizes DEF MaxPackedBits
    <3>2. QED
      BY <1>11, <1>13, <3>1
  <2>2. Pow2[needed] \in Nat /\ Word \in Nat
    BY <2>1, PowersAre, Sizes
  <2> HIDE DEF bits
  <2>3. ASSUME NEW j \in 1 .. n PROVE residuals[j] \in 0 .. Pow2[needed] - 1
    <3>1. PICK p \in Nat : p = Pow2[needed]
      BY <2>2
    <3>2. residuals[j] \in Nat /\ residuals[j] <= most /\ most \in Nat /\ most < p
      BY <1>8, <1>10, <1>11, <2>2, <3>1
    <3>3. residuals[j] \in 0 .. p - 1
      BY <3>2
    <3>4. QED
      BY <3>1, <3>3
  <2>4. PartsOf(v, from, n, scale, least, bits, residuals)
    BY <1>7, <1>8, <1>9, <2>1, <2>3 DEF PartsOf
  <2>5. QED
    BY <1>5, <2>4 DEF Parted
<1>14. QED
  BY <1>12, <1>13

\* The residuals of a block, packed or raw, are read back as written.
LEMMA BodyRead ==
  ASSUME NEW v, NEW from, NEW n \in Nat \ {0}, NEW scale, NEW least, NEW bits, NEW residuals,
         PartsOf(v, from, n, scale, least, bits, residuals),
         NEW s \in Seq(Nat), NEW pos \in Nat \ {0}, pos <= Len(s) + 1, Lies(Body(residuals, bits), s, pos)
  PROVE  /\ Body(residuals, bits) \in Seq(Nat)
         /\ Reads(Residuals(s, pos, n, bits), s, residuals, pos + Len(Body(residuals, bits)))
<1>1. residuals \in [1 .. n -> 0 .. Word - 1]
  BY DEF PartsOf
<1>2. CASE bits = WordBits
  <2>1. Body(residuals, bits) = PutRaw(residuals) /\ Residuals(s, pos, n, bits) = GetRaw(s, pos, n)
    BY <1>2 DEF Body, Residuals
  <2>2. Lies(PutRaw(residuals), s, pos)
    BY <2>1
  <2>3. /\ PutRaw(residuals) \in Seq(Nat)
        /\ Reads(GetRaw(s, pos, n), s, residuals, pos + Len(PutRaw(residuals)))
    BY <1>1, <2>2, RawRead
  <2>4. QED
    BY <2>1, <2>3
<1>3. CASE bits # WordBits
  <2>1. bits \in 0 .. MaxPackedBits /\ \A j \in 1 .. n : residuals[j] \in 0 .. Pow2[bits] - 1
    BY <1>3 DEF PartsOf
  <2>2. residuals \in [1 .. n -> 0 .. Pow2[bits] - 1]
    BY <1>1, <2>1
  <2>3. MaxPackedBits \in Nat /\ ~(bits > MaxPackedBits) /\ n \in Nat
    BY <2>1, Sizes DEF MaxPackedBits
  <2>4. Body(residuals, bits) = Pack(residuals, bits) /\ Residuals(s, pos, n, bits) = Unpack(s, pos, n, bits)
    BY <1>3, <2>3 DEF Body, Residuals
  <2>5. Lies(Pack(residuals, bits), s, pos)
    BY <2>4
  <2>6. /\ Pack(residuals, bits) \in Seq(Nat)
        /\ Reads(Unpack(s, pos, n, bits), s, residuals, pos + Len(Pack(residuals, bits)))
    BY <2>1, <2>2, <2>3, <2>5, PackRead
  <2>7. QED
    BY <2>4, <2>6
<1>4. QED
  BY <1>2, <1>3

\* Nothing lies in the empty stream, so everything does.
LEMMA LiesInEmpty == ASSUME NEW a, Len(a) \in Nat PROVE Lies(a, <<>>, 1)
<1>1. ASSUME NEW i \in 1 .. Len(a), 1 + i - 1 <= Len(<<>>) PROVE FALSE
  BY <1>1
<1>2. QED
  BY <1>1 DEF Lies

\* A varint, wherever it is.
LEMMA VarintBytes ==
  ASSUME NEW u \in 0 .. Word - 1
  PROVE  PutVarint(u) \in Seq(Nat) /\ Len(PutVarint(u)) \in Nat \ {0}
<1>1. \E n \in 1 .. MaxVarint : \E d : PutVarint(u) = [k \in 1 .. n |-> IF k < n THEN Half + d[k] ELSE d[k]]
  BY VarintIs
<1>2. PICK n \in 1 .. MaxVarint : \E d : PutVarint(u) = [k \in 1 .. n |-> IF k < n THEN Half + d[k] ELSE d[k]]
  BY <1>1
<1>3. PICK d : PutVarint(u) = [k \in 1 .. n |-> IF k < n THEN Half + d[k] ELSE d[k]]
  BY <1>2
<1>4. n \in Nat \ {0}
  OBVIOUS
<1>5. Len(PutVarint(u)) \in Nat
  BY <1>3, <1>4
<1> DEFINE s == <<>>
<1>6. s \in Seq(Nat) /\ 1 \in Nat \ {0}
  OBVIOUS
<1>7. Lies(PutVarint(u), s, 1)
  BY <1>5, LiesInEmpty
<1>8. PutVarint(u) \in Seq(Nat) /\ Len(PutVarint(u)) > 0
  <2> HIDE DEF s
  <2> QED
    BY <1>6, <1>7, VarintRead
<1>9. QED
  BY <1>5, <1>8

\* They are bytes, all of them.
LEMMA BlockBytes ==
  ASSUME NEW v \in Seq(Signed), NEW scale, Scaled(v, scale), NEW b, NEW from, NEW n, BlockAt(v, b, from, n)
  PROVE  \E least, bits, residuals :
           /\ PartsOf(v, from, n, scale, least, bits, residuals)
           /\ EncodeBlock(v, b, scale) = PutVarint(ZigZag(least)) \o <<bits>> \o Body(residuals, bits)
           /\ PutVarint(ZigZag(least)) \in Seq(Nat) /\ Body(residuals, bits) \in Seq(Nat)
<1>1. n \in Nat \ {0}
  BY DEF BlockAt
<1>2. PICK least, bits, residuals :
        /\ PartsOf(v, from, n, scale, least, bits, residuals)
        /\ EncodeBlock(v, b, scale) = PutVarint(ZigZag(least)) \o <<bits>> \o Body(residuals, bits)
  <2>1. Parted(v, b, from, n, scale)
    BY BlockParts
  <2>2. QED
    BY <2>1 DEF Parted
<1>3. PutVarint(ZigZag(least)) \in Seq(Nat)
  <2>1. ZigZag(least) \in 0 .. Word - 1
    BY <1>2, ZigZagBack DEF PartsOf
  <2>2. QED
    BY <2>1, VarintBytes
<1>4. Body(residuals, bits) \in Seq(Nat)
  <2> DEFINE s == <<>>
  <2>1. s \in Seq(Nat) /\ 1 \in Nat \ {0} /\ 1 <= Len(s) + 1
    OBVIOUS
  <2>2. Lies(Body(residuals, bits), s, 1)
    BY DEF Lies
  <2> HIDE DEF s
  <2>3. QED
    BY <1>1, <1>2, <2>1, <2>2, BodyRead
<1>5. QED
  BY <1>2, <1>3, <1>4

\* A block is read behind the values before it, or the stream ends first.
LEMMA BlockRead ==
  ASSUME NEW v \in Seq(Signed), NEW scale, Scaled(v, scale), NEW b, NEW from, NEW n, BlockAt(v, b, from, n),
         NEW s \in Seq(Nat), NEW pos \in Nat \ {0}, Lies(EncodeBlock(v, b, scale), s, pos),
         NEW done \in Seq(Signed), Len(done) > 0, done[Len(done)] = v[from - 1]
  PROVE  /\ EncodeBlock(v, b, scale) \in Seq(Nat)
         /\ Reads(DecodeBlock(Read(done, pos), s, n, scale), s,
                  done \o [j \in 1 .. n |-> v[from + j - 1]], pos + Len(EncodeBlock(v, b, scale)))
<1> DEFINE all == EncodeBlock(v, b, scale)
           rest == [j \in 1 .. n |-> v[from + j - 1]]
           r == Read(done, pos)
           result == DecodeBlock(r, s, n, scale)
<1>1. PICK least, bits, residuals :
           /\ PartsOf(v, from, n, scale, least, bits, residuals)
           /\ all = PutVarint(ZigZag(least)) \o <<bits>> \o Body(residuals, bits)
           /\ PutVarint(ZigZag(least)) \in Seq(Nat) /\ Body(residuals, bits) \in Seq(Nat)
  BY BlockBytes
<1> DEFINE z == ZigZag(least)
           front == PutVarint(z)
           body == Body(residuals, bits)
           ahead == front \o <<bits>>
<1>2. z \in 0 .. Word - 1 /\ UnZigZag(z) = least /\ least \in Int /\ bits \in Nat
  BY <1>1, ZigZagBack, SignedBack DEF PartsOf
<1> HIDE DEF z
<1>3. front \in Seq(Nat) /\ Len(front) \in Nat \ {0} /\ body \in Seq(Nat) /\ all = ahead \o body
  BY <1>1, <1>2, VarintBytes DEF z
<1> HIDE DEF all, front, body
<1>4. /\ ahead \in Seq(Nat) /\ Len(ahead) = Len(front) + 1
      /\ Lies(ahead, s, pos) /\ Lies(body, s, pos + Len(front) + 1)
      /\ all \in Seq(Nat) /\ Len(all) = Len(front) + 1 + Len(body)
  <2>1. ahead \in Seq(Nat) /\ Len(ahead) = Len(front) + 1
    BY <1>2, <1>3
  <2>2. Lies(ahead \o body, s, pos)
    BY <1>3 DEF all
  <2> HIDE DEF ahead
  <2>3. Lies(ahead, s, pos) /\ Lies(body, s, pos + Len(ahead)) /\ all \in Seq(Nat) /\ Len(all) = Len(ahead) + Len(body)
    BY <1>3, <2>1, <2>2, LiesIn
  <2>4. pos + Len(ahead) = pos + Len(front) + 1 /\ Len(ahead) + Len(body) = Len(front) + 1 + Len(body)
    BY <1>3, <2>1
  <2>5. QED
    BY <2>1, <2>3, <2>4
<1>5. Lies(front, s, pos) /\ Lies(<<bits>>, s, pos + Len(front))
  <2>1. <<bits>> \in Seq(Nat)
    BY <1>2
  <2>2. Lies(front \o <<bits>>, s, pos)
    BY <1>4
  <2>3. QED
    BY <1>3, <2>1, <2>2, LiesIn
<1>6. Reads(GetVarint(s, pos), s, z, pos + Len(front))
  BY <1>2, <1>5, VarintRead DEF front
<1>7. PICK p \in Nat, k \in Nat : p = pos + Len(front) /\ k = Len(body)
  BY <1>3
<1>8. Len(all) = (p - pos) + 1 + k /\ pos + Len(all) = p + 1 + k /\ p + 1 \in Nat \ {0}
  <2>1. PICK f \in Nat : f = Len(front)
    BY <1>3
  <2>2. Len(all) = f + 1 + k /\ p = pos + f
    BY <1>4, <1>7, <2>1
  <2> HIDE DEF ahead, rest, r, result
  <2>3. p - pos = f /\ p + 1 \in Nat \ {0}
    BY <2>2
  <2>4. pos + (f + 1 + k) = p + 1 + k
    BY <2>2
  <2>5. QED
    BY <2>2, <2>3, <2>4
<1> DEFINE var == GetVarint(s, pos)
           block == Residuals(s, var.pos + 1, n, s[var.pos])
<1>9. r.ok /\ r.pos = pos /\ r.value = done
  BY DEF Read
<1>10. result = IF ~var.ok THEN Malformed
                ELSE IF var.pos > Len(s) THEN Malformed
                ELSE IF ~block.ok THEN Malformed
                ELSE Read(done \o Restored(block.value, UnZigZag(var.value), scale, done[Len(done)]), block.pos)
  <2>1. r.ok = TRUE /\ r.pos = pos /\ r.value = done
    BY DEF Read
  <2> HIDE DEF r
  <2>2. QED
    BY <2>1 DEF DecodeBlock
<1> HIDE DEF result, r
<1>11. ~Malformed.ok
  BY DEF Malformed
<1>12. CASE p > Len(s) + 1
  <2>1. var = Malformed
    BY <1>6, <1>7, <1>12 DEF Reads
  <2> HIDE DEF var, block
  <2>2. result = Malformed
    BY <1>10, <1>11, <2>1
  <2>3. ~(p + 1 + k <= Len(s) + 1)
    BY <1>12
  <2> HIDE DEF rest
  <2>4. QED
    BY <1>4, <1>8, <2>2, <2>3 DEF Reads, result, r, all, rest
<1>13. CASE p <= Len(s) + 1
  <2>1. var = Read(z, p)
    BY <1>6, <1>7, <1>13 DEF Reads
  <2>2. var.ok = TRUE /\ var.value = z /\ var.pos = p
    BY <2>1 DEF Read
  <2>3. CASE p > Len(s)
    <3> HIDE DEF var, block
    <3>1. result = Malformed
      BY <1>10, <2>2, <2>3
    <3>2. ~(p + 1 + k <= Len(s) + 1)
      BY <2>3
    <3> HIDE DEF rest
    <3>3. QED
      BY <1>4, <1>8, <3>1, <3>2 DEF Reads, result, r, all, rest
  <2>4. CASE p <= Len(s)
    <3>1. s[p] = bits
      <4>1. Len(<<bits>>) = 1 /\ p + 1 - 1 = p /\ <<bits>>[1] = bits
        OBVIOUS
      <4>2. \A i \in 1 .. 1 : p + i - 1 <= Len(s) => s[p + i - 1] = <<bits>>[i]
        BY <1>5, <1>7, <4>1 DEF Lies
      <4>3. QED
        BY <2>4, <4>1, <4>2
    <3>2. block = Residuals(s, p + 1, n, bits)
      BY <2>2, <3>1
    <3>3. Reads(block, s, residuals, p + 1 + k)
      <4>1. Lies(body, s, p + 1)
        BY <1>4, <1>7
      <4>2. p + 1 <= Len(s) + 1 /\ n \in Nat \ {0}
        BY <2>4 DEF BlockAt
      <4>3. Reads(Residuals(s, p + 1, n, bits), s, residuals, p + 1 + Len(body))
        BY <1>1, <1>8, <4>1, <4>2, BodyRead DEF body
      <4>4. QED
        BY <1>7, <3>2, <4>3
    <3> HIDE DEF var, block
    <3>4. result = IF ~block.ok THEN Malformed
                   ELSE Read(done \o Restored(block.value, least, scale, done[Len(done)]), block.pos)
      <4>1. ~(p > Len(s))
        BY <2>4
      <4>2. QED
        BY <1>2, <1>10, <2>2, <4>1
    <3>5. CASE p + 1 + k <= Len(s) + 1
      <4>1. block = Read(residuals, p + 1 + k)
        BY <3>3, <3>5 DEF Reads
      <4>2. block.ok = TRUE /\ block.value = residuals /\ block.pos = p + 1 + k
        BY <4>1 DEF Read
      <4>3. Restored(residuals, least, scale, v[from - 1]) = rest
        <5>1. from \in Nat /\ from >= 2 /\ n \in Nat /\ from + n - 1 <= Len(v)
          BY DEF BlockAt
        <5>2. scale \in Nat
          BY Sizes DEF Scaled
        <5>3. /\ residuals \in [1 .. n -> Nat]
              /\ \A j \in 1 .. n : Unsigned(Unsigned(residuals[j] + least) * scale) = Unsigned(Delta(v, from + j - 1))
          <6>1. Word \in Nat
            BY Sizes
          <6>2. residuals \in [1 .. n -> 0 .. Word - 1]
            BY <1>1 DEF PartsOf
          <6>3. residuals \in [1 .. n -> Nat]
            BY <6>1, <6>2
          <6>4. QED
            BY <1>1, <6>3 DEF PartsOf
        <5>4. GivesBack(v, from, n, residuals, least, scale)
          BY <1>2, <5>1, <5>2, <5>3 DEF GivesBack
        <5>5. QED
          BY <5>4, RestoredIs
      <4>4. result = Read(done \o rest, p + 1 + k)
        BY <3>4, <4>2, <4>3
      <4> HIDE DEF rest
      <4>5. QED
        BY <1>4, <1>8, <3>5, <4>4 DEF Reads, result, r, all, rest
    <3>6. CASE ~(p + 1 + k <= Len(s) + 1)
      <4>1. block = Malformed
        BY <3>3, <3>6 DEF Reads
      <4>2. result = Malformed
        BY <1>11, <3>4, <4>1
      <4> HIDE DEF rest
      <4>3. QED
        BY <1>4, <1>8, <3>6, <4>2 DEF Reads, result, r, all, rest
    <3>7. QED
      BY <3>5, <3>6
  <2>5. QED
    BY <1>7, <2>3, <2>4
<1>14. QED
  BY <1>7, <1>12, <1>13

-----------------------------------------------------------------------------
(* All blocks of a column.                                                  *)

\* The bytes of the first blocks.
Written(f, v, scale) ==
  /\ \A b \in 0 .. Blocks(Len(v)) : f[b] \in Seq(Nat)
  /\ f[0] = <<>>
  /\ \A b \in 1 .. Blocks(Len(v)) : f[b] = f[b - 1] \o EncodeBlock(v, b, scale)
  /\ EncodeBlocks(v, scale) = f[Blocks(Len(v))]

\* Where the code puts it.
LEMMA BlockIsAt ==
  ASSUME NEW v \in Seq(Signed), Len(v) > 0, NEW b \in 1 .. Blocks(Len(v))
  PROVE  BlockAt(v, b, BlockStart(b), BlockLength(Len(v), b))
<1>1. PICK c \in Nat \ {0} : c = Len(v)
  OBVIOUS
<1>2. b \in 1 .. Blocks(c)
  BY <1>1
<1>3. /\ BlockStart(b) \in Nat /\ BlockStart(b) >= 2 /\ BlockLength(c, b) \in Nat \ {0}
      /\ BlockStart(b) + BlockLength(c, b) - 1 <= c
  BY <1>2, BlocksAre
<1>4. QED
  BY <1>1, <1>3 DEF BlockAt

\* A block is a piece of a stream.
LEMMA BlockInSeq ==
  ASSUME NEW v \in Seq(Signed), Len(v) > 0, NEW scale, Scaled(v, scale), NEW b \in 1 .. Blocks(Len(v))
  PROVE  EncodeBlock(v, b, scale) \in Seq(Nat)
<1>1. BlockAt(v, b, BlockStart(b), BlockLength(Len(v), b))
  BY BlockIsAt
<1> DEFINE from == BlockStart(b)
           n == BlockLength(Len(v), b)
<1> HIDE DEF from, n
<1>2. BlockAt(v, b, from, n)
  BY <1>1 DEF from, n
<1>3. PICK least, bits, residuals :
        /\ PartsOf(v, from, n, scale, least, bits, residuals)
        /\ EncodeBlock(v, b, scale) = PutVarint(ZigZag(least)) \o <<bits>> \o Body(residuals, bits)
        /\ PutVarint(ZigZag(least)) \in Seq(Nat) /\ Body(residuals, bits) \in Seq(Nat)
  BY <1>2, BlockBytes
<1>4. bits \in Nat
  BY <1>3 DEF PartsOf
<1>5. QED
  BY <1>3, <1>4

\* The encoding, block by block.
LEMMA BlocksWritten ==
  ASSUME NEW v \in Seq(Signed), Len(v) > 0, NEW scale, Scaled(v, scale)
  PROVE  \E f : Written(f, v, scale)
<1> DEFINE n          == Blocks(Len(v))
           next(e, b) == e \o EncodeBlock(v, b, scale)
           I          == [t \in 0 .. n |-> Seq(Nat)]
           step       == [x \in Seq(Nat) \X (1 .. n) |-> next(x[1], x[2])]
           Is(f)      == f = [b \in 0 .. n |-> IF b = 0 THEN <<>> ELSE next(f[b - 1], b)]
           upto       == CHOOSE f : Is(f)
<1>1. n \in Nat
  <2>1. Len(v) \in Nat \ {0}
    OBVIOUS
  <2>2. QED
    BY <2>1, BlocksAre
<1>2. ASSUME NEW t \in 1 .. n, NEW e \in Seq(Nat) PROVE next(e, t) \in Seq(Nat)
  BY BlockInSeq
<1> HIDE DEF next
<1>3. \A t \in 0 .. n : I[t] = Seq(Nat)
  OBVIOUS
<1>4. ASSUME NEW t \in 1 .. n, NEW e \in Seq(Nat) PROVE step[<<e, t>>] = next(e, t)
  <2>1. <<e, t>> \in Seq(Nat) \X (1 .. n) /\ <<e, t>>[1] = e /\ <<e, t>>[2] = t
    OBVIOUS
  <2>2. QED
    BY <2>1
<1> HIDE DEF I, step, n
<1>5. PICK f : Follows(f, n, <<>>, step)
  BY <1>1, LoopExists
<1>6. \A t \in 0 .. n : f[t] \in I[t]
  <2>1. Leads(I, n, step)
    <3>1. ASSUME NEW t \in 1 .. n, NEW e \in I[t - 1] PROVE step[<<e, t>>] \in I[t]
      <4>1. t - 1 \in 0 .. n /\ t \in 0 .. n
        BY <1>1
      <4>2. e \in Seq(Nat) /\ I[t] = Seq(Nat)
        BY <1>3, <4>1
      <4>3. QED
        BY <1>2, <1>4, <4>2
    <3>2. QED
      BY <3>1 DEF Leads
  <2>2. <<>> \in I[0]
    <3>1. 0 \in 0 .. n
      BY <1>1
    <3>2. I[0] = Seq(Nat)
      BY <1>3, <3>1
    <3>3. <<>> \in Seq(Nat)
      OBVIOUS
    <3>4. QED
      BY <3>2, <3>3
  <2>3. QED
    BY <1>1, <1>5, <2>1, <2>2, LoopKeeps
<1>7. \A t \in 0 .. n : f[t] \in Seq(Nat)
  BY <1>3, <1>6
<1>8. Is(f)
  <2>1. ASSUME NEW t \in 1 .. n PROVE f[t] = next(f[t - 1], t)
    <3>1. f[t] = step[<<f[t - 1], t>>]
      BY <1>5 DEF Follows
    <3>2. t - 1 \in 0 .. n
      BY <1>1
    <3>3. QED
      BY <1>4, <1>7, <3>1, <3>2
  <2>2. f = [t \in 0 .. n |-> f[t]] /\ f[0] = <<>>
    BY <1>5 DEF Follows
  <2>3. ASSUME NEW t \in 0 .. n
        PROVE  f[t] = IF t = 0 THEN <<>> ELSE next(f[t - 1], t)
    <3>1. t = 0 \/ t \in 1 .. n
      BY <1>1
    <3>2. QED
      BY <2>1, <2>2, <3>1
  <2>4. [t \in 0 .. n |-> f[t]] = [t \in 0 .. n |-> IF t = 0 THEN <<>> ELSE next(f[t - 1], t)]
    BY <2>3
  <2>5. QED
    BY <2>2, <2>4
<1>9. Is(upto)
  <2> HIDE DEF Is
  <2> QED
    BY <1>8
<1>10. EncodeBlocks(v, scale) = upto[n]
  BY DEF EncodeBlocks, n, next
<1> HIDE DEF upto
<1> DEFINE P == {t \in 0 .. n : upto[t] \in Seq(Nat)}
<1>11. 0 \in P
  BY <1>1, <1>9
<1>12. ASSUME NEW t \in 1 .. n, t - 1 \in P PROVE t \in P
  <2>1. t \in 0 .. n /\ t # 0
    BY <1>1
  <2>2. upto[t] = next(upto[t - 1], t)
    BY <1>9, <2>1
  <2>3. QED
    BY <1>2, <1>12, <2>1, <2>2
<1>13. \A t \in 0 .. n : t \in P
  <2> HIDE DEF P
  <2> QED
    BY <1>1, <1>11, <1>12, NatUpTo
<1>14. \A t \in 0 .. n : upto[t] \in Seq(Nat)
  BY <1>13
<1>15. upto[0] = <<>> /\ \A b \in 1 .. n : upto[b] = next(upto[b - 1], b)
  BY <1>1, <1>9
<1>16. Written(upto, v, scale)
  BY <1>10, <1>14, <1>15 DEF Written, n, next
<1>17. QED
  BY <1>16

\* What lies in the stream as a whole lies there up to every block.
LEMMA WrittenLies ==
  ASSUME NEW v \in Seq(Signed), Len(v) > 0, NEW scale, Scaled(v, scale), NEW f, Written(f, v, scale),
         NEW s \in Seq(Nat), NEW pos \in Nat \ {0}, Lies(EncodeBlocks(v, scale), s, pos)
  PROVE  \A b \in 0 .. Blocks(Len(v)) : Lies(f[b], s, pos)
<1>1. PICK n \in Nat : n = Blocks(Len(v))
  <2>1. Len(v) \in Nat \ {0}
    OBVIOUS
  <2>2. QED
    BY <2>1, BlocksAre
<1>2. /\ \A b \in 0 .. n : f[b] \in Seq(Nat)
      /\ \A b \in 1 .. n : f[b] = f[b - 1] \o EncodeBlock(v, b, scale)
      /\ EncodeBlocks(v, scale) = f[n]
  BY <1>1 DEF Written
<1> DEFINE P == {k \in 0 .. n : Lies(f[n - k], s, pos)}
<1>3. 0 \in P
  <2>1. n - 0 = n
    OBVIOUS
  <2>2. QED
    BY <1>2, <2>1
<1>4. ASSUME NEW k \in 1 .. n, k - 1 \in P PROVE k \in P
  <2> DEFINE b == n - (k - 1)
  <2>1. b \in 1 .. n /\ b - 1 = n - k /\ b - 1 \in 0 .. n
    OBVIOUS
  <2>2. Lies(f[b], s, pos)
    BY <1>4
  <2> HIDE DEF b
  <2>3. PICK e \in Seq(Nat) : e = EncodeBlock(v, b, scale)
    BY <1>1, <2>1, BlockInSeq
  <2>4. PICK a \in Seq(Nat) : a = f[b - 1]
    BY <1>2, <2>1
  <2>5. Lies(a \o e, s, pos)
    BY <1>2, <2>1, <2>2, <2>3, <2>4
  <2>6. Lies(a, s, pos)
    BY <2>5, LiesIn
  <2>7. a = f[n - k]
    BY <2>1, <2>4
  <2>8. Lies(f[n - k], s, pos)
    BY <2>6, <2>7
  <2>9. QED
    BY <2>8
<1>5. \A k \in 0 .. n : k \in P
  <2> HIDE DEF P
  <2> QED
    BY <1>3, <1>4, NatUpTo
<1>6. ASSUME NEW b \in 0 .. n PROVE Lies(f[b], s, pos)
  <2>1. n - b \in 0 .. n /\ n - (n - b) = b
    OBVIOUS
  <2>2. n - b \in P
    BY <1>5, <2>1
  <2>3. QED
    BY <2>1, <2>2
<1>7. QED
  BY <1>1, <1>6

\* The first values, and some more.
LEMMA SubSeqGrows ==
  ASSUME NEW v \in Seq(Signed), NEW k \in Nat, NEW n \in Nat, k + n <= Len(v)
  PROVE  /\ SubSeq(v, 1, k) \in Seq(Signed) /\ Len(SubSeq(v, 1, k)) = k
         /\ k > 0 => SubSeq(v, 1, k)[k] = v[k]
         /\ SubSeq(v, 1, k) \o [j \in 1 .. n |-> v[k + j]] = SubSeq(v, 1, k + n)
<1> DEFINE a == SubSeq(v, 1, k)
           b == [j \in 1 .. n |-> v[k + j]]
           c == SubSeq(v, 1, k + n)
<1>1. a \in Seq(Signed) /\ Len(a) = k /\ \A i \in 1 .. k : a[i] = v[i]
  OBVIOUS
<1>2. c \in Seq(Signed) /\ Len(c) = k + n /\ \A i \in 1 .. k + n : c[i] = v[i]
  OBVIOUS
<1>3. b \in Seq(Signed) /\ Len(b) = n /\ \A j \in 1 .. n : b[j] = v[k + j]
  OBVIOUS
<1> HIDE DEF a, b, c
<1> DEFINE d == a \o b
<1>4. d \in Seq(Signed) /\ Len(d) = k + n
  <2>1. d \in Seq(Signed)
    BY <1>1, <1>3
  <2>2. Len(d) = Len(a) + Len(b)
    <3>1. \A x \in Seq(Signed) : \A y \in Seq(Signed) : Len(x \o y) = Len(x) + Len(y)
      OBVIOUS
    <3>2. a \in Seq(Signed) /\ b \in Seq(Signed)
      BY <1>1, <1>3
    <3>3. QED
      BY <3>1, <3>2
  <2>3. QED
    BY <1>1, <1>3, <2>1, <2>2
<1>5. ASSUME NEW i \in 1 .. k + n PROVE d[i] = v[i]
  <2>1. CASE i <= k
    BY <1>1, <1>3, <2>1
  <2>2. CASE ~(i <= k)
    <3>1. i - k \in 1 .. n /\ k + (i - k) = i
      BY <2>2
    <3>2. d[i] = b[i - k]
      BY <1>1, <1>3, <2>2
    <3>3. QED
      BY <1>3, <3>1, <3>2
  <2>3. QED
    BY <2>1, <2>2
<1> HIDE DEF d
<1>6. d = c
  <2>1. d = [i \in 1 .. k + n |-> d[i]]
    BY <1>4
  <2>2. c = [i \in 1 .. k + n |-> c[i]]
    BY <1>2
  <2>3. \A i \in 1 .. k + n : d[i] = c[i]
    BY <1>2, <1>5
  <2>4. QED
    BY <2>1, <2>2, <2>3
<1>7. k > 0 => a[k] = v[k]
  BY <1>1
<1>8. QED
  BY <1>1, <1>6, <1>7 DEF a, b, c, d

\* How many values there are with a block.
With(v, b) == IF b = 0 THEN 1 ELSE BlockStart(b) + BlockLength(Len(v), b) - 1

\* From the first value to the last.
LEMMA WithBlocks ==
  ASSUME NEW v \in Seq(Signed), Len(v) > 0
  PROVE  /\ Blocks(Len(v)) \in Nat
         /\ \A b \in 0 .. Blocks(Len(v)) : With(v, b) \in Nat
         /\ \A b \in 1 .. Blocks(Len(v)) :
              With(v, b - 1) = BlockStart(b) - 1 /\ With(v, b) = (BlockStart(b) - 1) + BlockLength(Len(v), b)
         /\ With(v, Blocks(Len(v))) = Len(v)
<1>1. PICK c \in Nat \ {0} : c = Len(v)
  OBVIOUS
<1>2. PICK n \in Nat : n = Blocks(c)
  BY BlocksAre
<1>3. /\ n = 0 => c = 1
      /\ BlockStart(1) = 2
      /\ \A b \in 1 .. n :
              /\ BlockStart(b) \in Nat /\ BlockStart(b) >= 2 /\ BlockLength(c, b) \in Nat \ {0}
              /\ BlockStart(b) + BlockLength(c, b) - 1 <= c
              /\ b < n => BlockStart(b + 1) = BlockStart(b) + BlockLength(c, b)
              /\ b = n => BlockStart(b) + BlockLength(c, b) - 1 = c
  BY <1>2, BlocksAre
<1>4. \A b : With(v, b) = IF b = 0 THEN 1 ELSE BlockStart(b) + BlockLength(c, b) - 1
  BY <1>1 DEF With
<1>5. ASSUME NEW b \in 0 .. n PROVE With(v, b) \in Nat
  <2>1. CASE b = 0
    BY <1>4, <2>1
  <2>2. CASE b # 0
    <3>1. b \in 1 .. n
      BY <2>2
    <3>2. PICK x \in Nat, y \in Nat \ {0} : x = BlockStart(b) /\ y = BlockLength(c, b)
      BY <1>3, <3>1
    <3>3. With(v, b) = x + y - 1
      BY <1>4, <2>2, <3>2
    <3>4. QED
      BY <3>3
  <2>3. QED
    BY <2>1, <2>2
<1>6. ASSUME NEW b \in 1 .. n PROVE With(v, b) = (BlockStart(b) - 1) + BlockLength(c, b)
  <2>1. PICK x \in Nat, y \in Nat \ {0} : x = BlockStart(b) /\ y = BlockLength(c, b)
    BY <1>3
  <2>2. With(v, b) = x + y - 1
    BY <1>4, <2>1
  <2>3. QED
    BY <2>1, <2>2
<1>7. ASSUME NEW b \in 1 .. n PROVE With(v, b - 1) = BlockStart(b) - 1
  <2>1. CASE b = 1
    BY <1>3, <1>4, <2>1
  <2>2. CASE b # 1
    <3>1. b - 1 \in 1 .. n /\ b - 1 # 0 /\ b - 1 < n /\ (b - 1) + 1 = b
      BY <2>2
    <3>2. BlockStart(b) = BlockStart(b - 1) + BlockLength(c, b - 1)
      BY <1>3, <3>1
    <3>3. With(v, b - 1) = BlockStart(b - 1) + BlockLength(c, b - 1) - 1
      BY <1>4, <3>1
    <3>4. PICK x \in Nat, y \in Nat : x = BlockStart(b - 1) /\ y = BlockLength(c, b - 1)
      BY <1>3, <3>1
    <3>5. With(v, b - 1) = x + y - 1 /\ BlockStart(b) = x + y
      BY <3>2, <3>3, <3>4
    <3>6. (x + y) - 1 = x + y - 1
      OBVIOUS
    <3>7. QED
      BY <3>5, <3>6
  <2>3. QED
    BY <2>1, <2>2
<1>8. With(v, n) = c
  <2>1. n = 0 \/ n \in 1 .. n
    OBVIOUS
  <2>2. QED
    BY <1>3, <1>4, <2>1
<1>9. QED
  BY <1>1, <1>2, <1>5, <1>6, <1>7, <1>8

\* One more block.
LEMMA BlocksTurn ==
  ASSUME NEW v \in Seq(Signed), Len(v) > 0, NEW scale, Scaled(v, scale), NEW f, Written(f, v, scale),
         NEW s \in Seq(Nat), NEW pos \in Nat \ {0}, Lies(EncodeBlocks(v, scale), s, pos),
         NEW b \in 1 .. Blocks(Len(v)), NEW r, Reads(r, s, SubSeq(v, 1, With(v, b - 1)), pos + Len(f[b - 1]))
  PROVE  Reads(DecodeBlock(r, s, BlockLength(Len(v), b), scale), s, SubSeq(v, 1, With(v, b)), pos + Len(f[b]))
<1> DEFINE from == BlockStart(b)
           n == BlockLength(Len(v), b)
           e == EncodeBlock(v, b, scale)
           rest == [j \in 1 .. n |-> v[from + j - 1]]
<1>1. BlockAt(v, b, from, n)
  BY BlockIsAt
<1>2. With(v, b - 1) = from - 1 /\ With(v, b) = (from - 1) + n
  BY WithBlocks
<1>3. e \in Seq(Nat)
  BY BlockInSeq
<1> HIDE DEF from, n, e
<1>4. from \in Nat /\ from >= 2 /\ n \in Nat \ {0} /\ from + n - 1 <= Len(v)
  BY <1>1 DEF BlockAt
<1>5. Blocks(Len(v)) \in Nat /\ b \in 0 .. Blocks(Len(v)) /\ b - 1 \in 0 .. Blocks(Len(v))
  BY WithBlocks
<1>6. f[b - 1] \in Seq(Nat) /\ f[b] = f[b - 1] \o e /\ Lies(f[b], s, pos)
  <2>1. Lies(f[b], s, pos)
    BY <1>5, WrittenLies
  <2>2. QED
    BY <1>5, <2>1 DEF Written, e
<1>7. PICK a \in Seq(Nat) : a = f[b - 1]
  BY <1>6
<1>8. PICK p \in Nat \ {0} : p = pos + Len(a)
  OBVIOUS
<1>9. Lies(e, s, p) /\ Len(f[b]) = Len(a) + Len(e)
  <2>1. Lies(a \o e, s, pos) /\ f[b] = a \o e
    BY <1>6, <1>7
  <2>2. QED
    BY <1>3, <1>8, <2>1, LiesIn
<1>10. PICK m \in Nat : m = Len(e)
  BY <1>3
<1>11. pos + Len(f[b]) = p + m
  BY <1>8, <1>9, <1>10
<1>12. PICK k \in Nat : k = from - 1
  BY <1>4
<1>13. PICK done \in Seq(Signed) : done = SubSeq(v, 1, k)
  <2>1. k + n <= Len(v) /\ n \in Nat
    BY <1>4, <1>12
  <2>2. SubSeq(v, 1, k) \in Seq(Signed)
    BY <2>1, SubSeqGrows
  <2>3. QED
    BY <2>2
<1>14. Len(done) = k /\ k > 0 /\ done[k] = v[from - 1] /\ done \o rest = SubSeq(v, 1, k + n)
  <2>1. k + n <= Len(v) /\ k > 0 /\ n \in Nat
    BY <1>4, <1>12
  <2>2. Len(done) = k /\ done[k] = v[k] /\ done \o [j \in 1 .. n |-> v[k + j]] = SubSeq(v, 1, k + n)
    BY <1>13, <2>1, SubSeqGrows
  <2>3. rest = [j \in 1 .. n |-> v[k + j]]
    <3>1. \A j \in 1 .. n : from + j - 1 = k + j
      BY <1>4, <1>12
    <3>2. QED
      BY <3>1
  <2> HIDE DEF rest
  <2>4. QED
    BY <1>12, <2>1, <2>2, <2>3
<1>15. With(v, b - 1) = k /\ With(v, b) = k + n
  BY <1>2, <1>12
<1>16. Reads(r, s, done, p)
  BY <1>7, <1>8, <1>13, <1>15
<1>17. CASE p <= Len(s) + 1
  <2>1. r = Read(done, p)
    BY <1>16, <1>17 DEF Reads
  <2>2. Reads(DecodeBlock(Read(done, p), s, n, scale), s, done \o rest, p + m)
    <3>1. Lies(EncodeBlock(v, b, scale), s, p) /\ Len(done) > 0 /\ done[Len(done)] = v[from - 1]
      BY <1>9, <1>14 DEF e
    <3>2. QED
      BY <1>1, <1>10, <3>1, BlockRead DEF e
  <2>3. QED
    BY <1>11, <1>14, <1>15, <2>1, <2>2 DEF n
<1>18. CASE ~(p <= Len(s) + 1)
  <2>1. r = Malformed
    BY <1>16, <1>18 DEF Reads
  <2>2. DecodeBlock(r, s, n, scale) = Malformed
    <3>1. ~Malformed.ok
      BY DEF Malformed
    <3>2. QED
      BY <2>1, <3>1 DEF DecodeBlock
  <2>3. ~(p + m <= Len(s) + 1)
    BY <1>18
  <2>4. QED
    BY <1>11, <2>2, <2>3 DEF Reads, n
<1>19. QED
  BY <1>17, <1>18

\* All blocks are read back as written, or the stream ends first.
LEMMA BlocksRead ==
  ASSUME NEW v \in Seq(Signed), Len(v) > 0, NEW scale, Scaled(v, scale),
         NEW s \in Seq(Nat), NEW pos \in Nat \ {0}, pos <= Len(s) + 1, Lies(EncodeBlocks(v, scale), s, pos)
  PROVE  Reads(DecodeBlocks(s, Len(v), scale, v[1], pos), s, v, pos + Len(EncodeBlocks(v, scale)))
<1>1. PICK f : Written(f, v, scale)
  BY BlocksWritten
<1> DEFINE n          == Blocks(Len(v))
           next(r, b) == DecodeBlock(r, s, BlockLength(Len(v), b), scale)
           start      == Read(<<v[1]>>, pos)
           Is(h)      == h = [b \in 0 .. n |-> IF b = 0 THEN start ELSE next(h[b - 1], b)]
           upto       == CHOOSE h : Is(h)
           g          == [b \in 0 .. n |-> IF pos + Len(f[b]) <= Len(s) + 1
                                           THEN Read(SubSeq(v, 1, With(v, b)), pos + Len(f[b])) ELSE Malformed]
<1>2. n \in Nat
  BY WithBlocks
<1>3. \A b \in 0 .. n : Reads(g[b], s, SubSeq(v, 1, With(v, b)), pos + Len(f[b]))
  BY DEF Reads
<1>4. ASSUME NEW b \in 1 .. n, NEW r, Reads(r, s, SubSeq(v, 1, With(v, b - 1)), pos + Len(f[b - 1]))
      PROVE  Reads(next(r, b), s, SubSeq(v, 1, With(v, b)), pos + Len(f[b]))
  BY <1>1, <1>4, BlocksTurn
<1> HIDE DEF next
<1>5. g[0] = start
  <2>1. 0 \in 0 .. n /\ f[0] = <<>> /\ With(v, 0) = 1
    BY <1>1, <1>2 DEF Written, With
  <2>2. SubSeq(v, 1, 1) = <<v[1]>>
    <3>1. SubSeq(v, 1, 1) = [i \in 1 .. 1 |-> v[i]]
      OBVIOUS
    <3>2. <<v[1]>> = [i \in 1 .. 1 |-> v[1]]
      OBVIOUS
    <3>3. \A i \in 1 .. 1 : v[i] = v[1]
      OBVIOUS
    <3>4. QED
      BY <3>1, <3>2, <3>3
  <2>3. Len(f[0]) = 0 /\ pos + 0 = pos
    BY <2>1
  <2>4. QED
    BY <2>1, <2>2, <2>3
<1>6. Is(g)
  <2>1. g = [b \in 0 .. n |-> g[b]]
    OBVIOUS
  <2> HIDE DEF g, n, start
  <2>2. ASSUME NEW b \in 1 .. n PROVE g[b] = next(g[b - 1], b)
    <3>1. b \in 0 .. n /\ b - 1 \in 0 .. n
      BY <1>2
    <3>2. Reads(g[b - 1], s, SubSeq(v, 1, With(v, b - 1)), pos + Len(f[b - 1]))
      BY <1>3, <3>1
    <3>3. Reads(next(g[b - 1], b), s, SubSeq(v, 1, With(v, b)), pos + Len(f[b]))
      BY <1>4, <3>2
    <3>4. Reads(g[b], s, SubSeq(v, 1, With(v, b)), pos + Len(f[b]))
      BY <1>3, <3>1
    <3>5. QED
      BY <3>3, <3>4 DEF Reads
  <2>3. ASSUME NEW b \in 0 .. n PROVE g[b] = IF b = 0 THEN start ELSE next(g[b - 1], b)
    <3>1. b = 0 \/ b \in 1 .. n
      BY <1>2
    <3>2. QED
      BY <1>5, <2>2, <3>1
  <2>4. [b \in 0 .. n |-> g[b]] = [b \in 0 .. n |-> IF b = 0 THEN start ELSE next(g[b - 1], b)]
    BY <2>3
  <2>5. QED
    BY <2>1, <2>4
<1>7. Is(upto)
  <2> HIDE DEF Is, g
  <2> QED
    BY <1>6
<1>8. DecodeBlocks(s, Len(v), scale, v[1], pos) = upto[n]
  BY DEF DecodeBlocks, next
<1> HIDE DEF upto, g, start, n
<1> DEFINE P == {b \in 0 .. n : upto[b] = g[b]}
<1>9. 0 \in P
  BY <1>2, <1>5, <1>7
<1>10. ASSUME NEW b \in 1 .. n, b - 1 \in P PROVE b \in P
  <2>1. b \in 0 .. n /\ b # 0
    BY <1>2
  <2>2. upto[b] = next(upto[b - 1], b)
    BY <1>7, <2>1
  <2>3. g[b] = next(g[b - 1], b)
    BY <1>6, <2>1
  <2>4. upto[b - 1] = g[b - 1]
    BY <1>10
  <2>5. QED
    BY <2>1, <2>2, <2>3, <2>4
<1>11. \A b \in 0 .. n : b \in P
  <2> HIDE DEF P
  <2> QED
    BY <1>2, <1>9, <1>10, NatUpTo
<1>12. upto[n] = g[n] /\ n \in 0 .. n
  BY <1>2, <1>11
<1>13. Reads(g[n], s, SubSeq(v, 1, With(v, n)), pos + Len(f[n]))
  BY <1>3, <1>12
<1>14. With(v, n) = Len(v) /\ f[n] = EncodeBlocks(v, scale)
  BY <1>1, WithBlocks DEF Written, n
<1>15. SubSeq(v, 1, Len(v)) = v
  OBVIOUS
<1>16. QED
  BY <1>8, <1>12, <1>13, <1>14, <1>15

-----------------------------------------------------------------------------
(* A column.                                                                *)

\* The column without values: a count of zero and nothing else.
LEMMA EmptyColumnRead ==
  ASSUME NEW s \in Seq(Nat), Lies(Encode(<<>>), s, 1)
  PROVE  Encode(<<>>) \in Seq(Nat) /\ Reads(Decode(s), s, <<>>, 1 + Len(Encode(<<>>)))
<1> DEFINE e == Encode(<<>>)
           a == PutVarint(0)
<1>1. 0 \in 0 .. Word - 1
  BY Sizes
<1>2. a \in Seq(Nat) /\ Len(a) \in Nat \ {0}
  BY <1>1, VarintBytes
<1>3. e = a
  <2>1. Len(<<>>) = 0
    OBVIOUS
  <2>2. e = a \o <<>>
    BY <2>1 DEF Encode
  <2> HIDE DEF a
  <2>3. QED
    BY <1>2, <2>2
<1>4. Reads(GetVarint(s, 1), s, 0, 1 + Len(a))
  <2>1. Lies(a, s, 1)
    BY <1>3
  <2>2. QED
    BY <1>1, <2>1, VarintRead
<1> HIDE DEF e, a
<1>5. PICK m \in Nat : m = 1 + Len(a)
  BY <1>2
<1> DEFINE count == GetVarint(s, 1)
<1>6. CASE m <= Len(s) + 1
  <2>1. count = Read(0, m)
    BY <1>4, <1>5, <1>6 DEF Reads
  <2>2. count.ok = TRUE /\ count.value = 0 /\ count.pos = m
    BY <2>1 DEF Read
  <2>3. Decode(s) = Read(<<>>, m)
    <3>1. Decode(s) = IF ~count.ok THEN Malformed
                      ELSE IF count.value = 0 THEN Read(<<>>, count.pos) ELSE Decode(s)
      BY DEF Decode
    <3> HIDE DEF count
    <3>2. QED
      BY <2>2, <3>1
  <2>4. QED
    BY <1>2, <1>3, <1>5, <1>6, <2>3 DEF Reads, e
<1>7. CASE ~(m <= Len(s) + 1)
  <2>1. count = Malformed
    BY <1>4, <1>5, <1>7 DEF Reads
  <2>2. count.ok = FALSE
    BY <2>1 DEF Malformed
  <2>3. Decode(s) = Malformed
    <3>1. Decode(s) = IF ~count.ok THEN Malformed ELSE Decode(s)
      BY DEF Decode
    <3> HIDE DEF count
    <3>2. QED
      BY <2>2, <3>1
  <2>4. QED
    BY <1>2, <1>3, <1>5, <1>7, <2>3 DEF Reads, e
<1>8. QED
  BY <1>6, <1>7

\* A column with values: count, first value, scale and blocks.
LEMMA ColumnRead ==
  ASSUME NEW v \in Seq(Signed), Len(v) > 0, Len(v) < Word, NEW s \in Seq(Nat), Lies(Encode(v), s, 1)
  PROVE  Encode(v) \in Seq(Nat) /\ Reads(Decode(s), s, v, 1 + Len(Encode(v)))
<1>1. PICK n \in Nat \ {0} : n = Len(v)
  OBVIOUS
<1>2. PICK k : k = Scale(v)
  OBVIOUS
<1>3. k \in 1 .. Pow2[WordBits - 1] /\ Scaled(v, k)
  BY <1>2, ScaleIs DEF Scaled
<1>4. n \in 0 .. Word - 1 /\ k \in 0 .. Word - 1 /\ k # 0
  <2>1. PICK h \in Nat \ {0} : h = Pow2[WordBits - 1] /\ Word = 2 * h
    BY Sizes
  <2>2. k \in 1 .. h
    BY <1>3, <2>1
  <2>3. QED
    BY <1>1, <2>1, <2>2
<1> DEFINE x == v[1]
<1>5. x \in Signed
  OBVIOUS
<1> HIDE DEF x
<1> DEFINE z == ZigZag(x)
<1>6. z \in 0 .. Word - 1 /\ UnZigZag(z) = x
  BY <1>5, ZigZagBack
<1> HIDE DEF z
<1> DEFINE a == PutVarint(n)
           b == PutVarint(z)
           c == PutVarint(k)
           d == EncodeBlocks(v, k)
           e == Encode(v)
<1>7. /\ a \in Seq(Nat) /\ Len(a) \in Nat \ {0}
      /\ b \in Seq(Nat) /\ Len(b) \in Nat \ {0}
      /\ c \in Seq(Nat) /\ Len(c) \in Nat \ {0}
  BY <1>4, <1>6, VarintBytes
<1>8. d \in Seq(Nat)
  <2>1. PICK f : Written(f, v, k)
    BY <1>3, BlocksWritten
  <2>2. Blocks(Len(v)) \in Nat
    BY WithBlocks
  <2>3. QED
    BY <2>1, <2>2 DEF Written
<1>9. e = a \o (b \o c \o d)
  <2>1. v # <<>>
    OBVIOUS
  <2>2. QED
    BY <1>1, <1>2, <2>1 DEF Encode, z, x
<1> HIDE DEF a, b, c, d, e
<1> DEFINE t == b \o c \o d
<1>10. t = (b \o c) \o d /\ b \o c \in Seq(Nat) /\ t \in Seq(Nat)
  BY <1>7, <1>8
<1>11. /\ Lies(a, s, 1) /\ Lies(t, s, 1 + Len(a)) /\ e \in Seq(Nat) /\ Len(e) = Len(a) + Len(t)
  <2>1. Lies(a \o t, s, 1) /\ 1 \in Nat \ {0} /\ e = a \o t
    BY <1>9 DEF e
  <2> HIDE DEF t
  <2>2. QED
    BY <1>7, <1>10, <2>1, LiesIn
<1>12. PICK p1 \in Nat \ {0} : p1 = 1 + Len(a)
  BY <1>7
<1> DEFINE bc == b \o c
<1>13. /\ Lies(bc, s, p1) /\ Lies(d, s, p1 + Len(bc)) /\ Len(t) = Len(bc) + Len(d)
  <2>1. Lies(bc \o d, s, p1) /\ t = bc \o d /\ bc \in Seq(Nat)
    BY <1>10, <1>11, <1>12
  <2> HIDE DEF t, bc
  <2>2. QED
    BY <1>8, <2>1, LiesIn
<1>14. /\ Lies(b, s, p1) /\ Lies(c, s, p1 + Len(b)) /\ Len(bc) = Len(b) + Len(c)
  BY <1>7, <1>13, LiesIn
<1> HIDE DEF t, bc
<1>15. PICK p2 \in Nat \ {0} : p2 = p1 + Len(b)
  BY <1>7
<1>16. PICK p3 \in Nat \ {0} : p3 = p2 + Len(c)
  BY <1>7
<1>17. PICK m \in Nat : m = Len(d)
  BY <1>8
<1>18. 1 + Len(e) = p3 + m /\ p1 < p2 /\ p2 < p3 /\ Lies(d, s, p3)
  <2>1. PICK la \in Nat \ {0}, lb \in Nat \ {0}, lc \in Nat \ {0} : la = Len(a) /\ lb = Len(b) /\ lc = Len(c)
    BY <1>7
  <2>2. Len(bc) = lb + lc
    BY <1>14, <2>1
  <2>3. Len(t) = (lb + lc) + m
    BY <1>13, <1>17, <2>2
  <2>4. Len(e) = la + ((lb + lc) + m)
    BY <1>11, <2>1, <2>3
  <2>5. p1 = 1 + la /\ p2 = p1 + lb /\ p3 = p2 + lc
    BY <1>12, <1>15, <1>16, <2>1
  <2>6. p1 + Len(bc) = p3
    BY <2>2, <2>5
  <2>7. 1 + (la + ((lb + lc) + m)) = p3 + m /\ p1 < p2 /\ p2 < p3
    BY <2>5
  <2>8. QED
    BY <1>13, <2>4, <2>6, <2>7
<1> DEFINE count == GetVarint(s, 1)
           first == GetVarint(s, count.pos)
           scale == GetVarint(s, first.pos)
<1>19. Reads(count, s, n, p1)
  BY <1>4, <1>11, <1>12, VarintRead DEF a
<1>20. Reads(GetVarint(s, p1), s, z, p2)
  BY <1>6, <1>14, <1>15, VarintRead DEF b
<1>21. Reads(GetVarint(s, p2), s, k, p3)
  <2>1. Lies(PutVarint(k), s, p2)
    BY <1>14, <1>15 DEF c
  <2>2. QED
    BY <1>4, <1>16, <2>1, VarintRead DEF c
<1>22. Decode(s) = IF ~count.ok THEN Malformed
      ELSE IF count.value = 0 THEN Read(<<>>, count.pos)
      ELSE IF ~first.ok THEN Malformed
      ELSE IF ~scale.ok THEN Malformed
      ELSE IF scale.value = 0 THEN Malformed
      ELSE DecodeBlocks(s, count.value, scale.value, UnZigZag(first.value), scale.pos)
  BY DEF Decode
<1>23. Malformed.ok = FALSE
  BY DEF Malformed
<1> HIDE DEF scale
<1>24. CASE p1 > Len(s) + 1
  <2>1. count = Malformed
    BY <1>19, <1>24 DEF Reads
  <2> HIDE DEF count, first
  <2>2. Decode(s) = Malformed
    BY <1>22, <1>23, <2>1
  <2>3. ~(p3 + m <= Len(s) + 1)
    BY <1>18, <1>24
  <2>4. QED
    BY <1>11, <1>18, <2>2, <2>3 DEF Reads, e
<1>25. CASE p1 <= Len(s) + 1
  <2>1. count = Read(n, p1)
    BY <1>19, <1>25 DEF Reads
  <2>2. count.ok = TRUE /\ count.value = n /\ count.pos = p1
    BY <2>1 DEF Read
  <2> HIDE DEF count
  <2>3. first = GetVarint(s, p1)
    BY <2>2
  <2>4. Decode(s) = IF ~first.ok THEN Malformed
      ELSE IF ~scale.ok THEN Malformed
      ELSE IF scale.value = 0 THEN Malformed
      ELSE DecodeBlocks(s, n, scale.value, UnZigZag(first.value), scale.pos)
    <3> HIDE DEF first
    <3> QED
      BY <1>22, <2>2
  <2> HIDE DEF first
  <2>5. CASE p2 > Len(s) + 1
    <3>1. first = Malformed
      BY <1>20, <2>3, <2>5 DEF Reads
    <3>2. Decode(s) = Malformed
      BY <1>23, <2>4, <3>1
    <3>3. ~(p3 + m <= Len(s) + 1)
      BY <1>18, <2>5
    <3>4. QED
      BY <1>11, <1>18, <3>2, <3>3 DEF Reads, e
  <2>6. CASE p2 <= Len(s) + 1
    <3>1. first = Read(z, p2)
      BY <1>20, <2>3, <2>6 DEF Reads
    <3>2. first.ok = TRUE /\ first.value = z /\ first.pos = p2
      BY <3>1 DEF Read
    <3>3. scale = GetVarint(s, p2)
      BY <3>2 DEF scale
    <3>4. Decode(s) = IF ~scale.ok THEN Malformed
        ELSE IF scale.value = 0 THEN Malformed
        ELSE DecodeBlocks(s, n, scale.value, x, scale.pos)
      BY <1>6, <2>4, <3>2
    <3>5. CASE p3 > Len(s) + 1
      <4>1. scale = Malformed
        BY <1>21, <3>3, <3>5 DEF Reads
      <4>2. Decode(s) = Malformed
        BY <1>23, <3>4, <4>1
      <4>3. ~(p3 + m <= Len(s) + 1)
        BY <3>5
      <4>4. QED
        BY <1>11, <1>18, <4>2, <4>3 DEF Reads, e
    <3>6. CASE p3 <= Len(s) + 1
      <4>1. scale = Read(k, p3)
        BY <1>21, <3>3, <3>6 DEF Reads
      <4>2. scale.ok = TRUE /\ scale.value = k /\ scale.pos = p3
        BY <4>1 DEF Read
      <4>3. Decode(s) = DecodeBlocks(s, n, k, x, p3)
        BY <1>4, <3>4, <4>2
      <4>4. Reads(DecodeBlocks(s, Len(v), k, v[1], p3), s, v, p3 + Len(EncodeBlocks(v, k)))
        <5>1. Lies(EncodeBlocks(v, k), s, p3)
          BY <1>18 DEF d
        <5>2. QED
          BY <1>3, <3>6, <5>1, BlocksRead
      <4>5. Reads(Decode(s), s, v, p3 + m)
        BY <1>1, <1>17, <4>3, <4>4 DEF d, x
      <4>6. QED
        BY <1>11, <1>18, <4>5 DEF e
    <3>7. QED
      BY <3>5, <3>6
  <2>7. QED
    BY <2>5, <2>6
<1>26. QED
  BY <1>24, <1>25

\* A stream that goes on as it likes behind an encoding, or breaks off in it.
LEMMA ColumnLies ==
  ASSUME NEW e \in Seq(Nat)
  PROVE  /\ \A rest \in Seq(Nat) : e \o rest \in Seq(Nat) /\ Len(e) <= Len(e \o rest) /\ Lies(e, e \o rest, 1)
         /\ \A k \in 0 .. Len(e) - 1 :
              /\ SubSeq(e, 1, k) \in Seq(Nat) /\ Len(SubSeq(e, 1, k)) < Len(e)
              /\ Lies(e, SubSeq(e, 1, k), 1)
<1>1. ASSUME NEW rest \in Seq(Nat)
      PROVE  e \o rest \in Seq(Nat) /\ Len(e) <= Len(e \o rest) /\ Lies(e, e \o rest, 1)
  <2> DEFINE s == e \o rest
  <2>1. s \in Seq(Nat) /\ Len(s) = Len(e) + Len(rest) /\ \A i \in 1 .. Len(e) : s[i] = e[i]
    OBVIOUS
  <2> HIDE DEF s
  <2>2. Lies(e, s, 1)
    BY <2>1 DEF Lies
  <2>3. Len(e) <= Len(s)
    BY <2>1
  <2>4. QED
    BY <2>1, <2>2, <2>3 DEF s
<1>2. ASSUME NEW k \in 0 .. Len(e) - 1
      PROVE  SubSeq(e, 1, k) \in Seq(Nat) /\ Len(SubSeq(e, 1, k)) < Len(e) /\ Lies(e, SubSeq(e, 1, k), 1)
  <2> DEFINE s == SubSeq(e, 1, k)
  <2>1. s \in Seq(Nat) /\ Len(s) = k /\ \A i \in 1 .. k : s[i] = e[i]
    OBVIOUS
  <2> HIDE DEF s
  <2>2. Lies(e, s, 1)
    BY <2>1 DEF Lies
  <2>3. QED
    BY <2>1, <2>2 DEF s
<1>3. QED
  BY <1>1, <1>2

\* Either of them.
LEMMA AnyColumnRead ==
  ASSUME NEW v \in Seq(Signed), Len(v) < Word, NEW s \in Seq(Nat), Lies(Encode(v), s, 1)
  PROVE  Encode(v) \in Seq(Nat) /\ Reads(Decode(s), s, v, 1 + Len(Encode(v)))
<1>1. CASE v = <<>>
  <2>1. Lies(Encode(<<>>), s, 1)
    BY <1>1
  <2>2. Encode(<<>>) \in Seq(Nat) /\ Reads(Decode(s), s, <<>>, 1 + Len(Encode(<<>>)))
    BY <2>1, EmptyColumnRead
  <2>3. QED
    BY <1>1, <2>2
<1>2. CASE v # <<>>
  <2>1. Len(v) > 0
    BY <1>2
  <2>2. QED
    BY <2>1, ColumnRead
<1>3. QED
  BY <1>1, <1>2

\* encode_column and decode_column: every column whose length is a word comes back,
\* values and bytes consumed, whatever follows it in the stream; and decode_column
\* refuses every stream that ends before the column does.
THEOREM ColumnRoundTrip ==
  ASSUME NEW v \in Seq(Signed), Len(v) < Word
  PROVE  LET s == Encode(v)
         IN  /\ s \in Seq(Nat)
             /\ \A rest \in Seq(Nat) : Decode(s \o rest) = Read(v, Len(s) + 1)
             /\ \A k \in 0 .. Len(s) - 1 : ~Decode(SubSeq(s, 1, k)).ok
<1> DEFINE e == Encode(v)
<1>1. e \in Seq(Nat)
  <2> DEFINE s == <<>>
  <2>1. s \in Seq(Nat) /\ Lies(e, s, 1)
    BY DEF Lies
  <2> HIDE DEF s
  <2>2. QED
    BY <2>1, AnyColumnRead
<1>2. ASSUME NEW s \in Seq(Nat), Lies(e, s, 1)
      PROVE  Reads(Decode(s), s, v, 1 + Len(e))
  BY <1>2, AnyColumnRead
<1> HIDE DEF e
<1>3. PICK m \in Nat : m = Len(e)
  BY <1>1
<1>4. ASSUME NEW rest \in Seq(Nat) PROVE Decode(e \o rest) = Read(v, m + 1)
  <2> DEFINE s == e \o rest
  <2>1. s \in Seq(Nat) /\ m <= Len(s) /\ Lies(e, s, 1)
    BY <1>1, <1>3, ColumnLies
  <2> HIDE DEF s
  <2>2. Reads(Decode(s), s, v, 1 + m)
    BY <1>2, <1>3, <2>1
  <2>3. 1 + m <= Len(s) + 1 /\ 1 + m = m + 1
    BY <2>1
  <2>4. Decode(s) = Read(v, m + 1)
    BY <2>2, <2>3 DEF Reads
  <2>5. QED
    BY <2>4 DEF s
<1>5. ASSUME NEW k \in 0 .. m - 1 PROVE ~Decode(SubSeq(e, 1, k)).ok
  <2> DEFINE s == SubSeq(e, 1, k)
  <2>1. s \in Seq(Nat) /\ Len(s) < m /\ Lies(e, s, 1)
    BY <1>1, <1>3, ColumnLies
  <2> HIDE DEF s
  <2>2. Reads(Decode(s), s, v, 1 + m)
    BY <1>2, <1>3, <2>1
  <2>3. ~(1 + m <= Len(s) + 1)
    BY <2>1
  <2>4. Decode(s) = Malformed
    BY <2>2, <2>3 DEF Reads
  <2>5. ~Decode(s).ok
    BY <2>4 DEF Malformed
  <2>6. QED
    BY <2>5 DEF s
<1>6. QED
  BY <1>1, <1>3, <1>4, <1>5 DEF e

\* encode_into fills its scratch with words, up to a column's bound.
ScratchIsColumn == scratch \in Seq(Signed) /\ Len(scratch) <= MaxLength

\* The columns of write_vfday: what its scratch holds comes back from its encoding.
THEOREM RoundTrips == CodecSpec => []RoundTrip
<1>1. CodecInit => ScratchIsColumn
  <2>1. MaxLength \in Nat
    BY Sizes
  <2>2. QED
    BY <2>1 DEF CodecInit, ScratchIsColumn
<1>2. ScratchIsColumn /\ [CodecNext]_scratch => ScratchIsColumn'
  <2> SUFFICES ASSUME ScratchIsColumn, [CodecNext]_scratch PROVE ScratchIsColumn'
    OBVIOUS
  <2>1. MaxLength \in Nat
    BY Sizes
  <2>2. CASE AppendValue
    <3>1. PICK n \in Values : scratch' = Append(scratch, n)
      BY <2>2 DEF AppendValue
    <3>2. n \in Signed
      BY CodecAssumption
    <3>3. QED
      BY <2>1, <2>2, <3>1, <3>2 DEF AppendValue, ScratchIsColumn
  <2>3. CASE Clear
    BY <2>1, <2>3 DEF Clear, CodecInit, ScratchIsColumn
  <2>4. CASE UNCHANGED scratch
    BY <2>4 DEF ScratchIsColumn
  <2>5. QED
    BY <2>2, <2>3, <2>4 DEF CodecNext
<1>3. ScratchIsColumn => RoundTrip
  <2> SUFFICES ASSUME ScratchIsColumn PROVE RoundTrip
    OBVIOUS
  <2> DEFINE s == Encode(scratch)
  <2>1. scratch \in Seq(Signed) /\ Len(scratch) < Word
    <3>1. MaxLength \in Nat /\ MaxLength < Word /\ Word \in Nat
      BY Sizes, CodecAssumption
    <3>2. QED
      BY <3>1 DEF ScratchIsColumn
  <2>2. /\ s \in Seq(Nat)
        /\ \A rest \in Seq(Nat) : Decode(s \o rest) = Read(scratch, Len(s) + 1)
        /\ \A k \in 0 .. Len(s) - 1 : ~Decode(SubSeq(s, 1, k)).ok
    BY <2>1, ColumnRoundTrip
  <2> HIDE DEF s
  <2>3. {<<>>, <<0>>, <<Byte - 1>>, s} \subseteq Seq(Nat)
    <3>1. Byte - 1 \in Nat
      BY Sizes
    <3>2. QED
      BY <2>2, <3>1
  <2>4. QED
    BY <2>2, <2>3 DEF RoundTrip, s
<1>4. QED
  BY <1>1, <1>2, <1>3, PTL DEF CodecSpec
=============================================================================
