-------------------------------- MODULE Ingest --------------------------------
(***************************************************************************)
(* The GFDL adapter: load_gfdl_day over a directory and load_gfdl_zip over *)
(* an archive, and parse_csv_rows, which they share.  A file per contract, *)
(* taken in the order of their names, is read row by row into a session.   *)
(*                                                                         *)
(* A name is the contract it parses to; a line is a row, or Torn if it has *)
(* not ten fields or one of them is out of its range.  What a row says     *)
(* besides date and time is left out.                                      *)
(***************************************************************************)
EXTENDS Registry, SequencesExt

CONSTANTS
  Contracts,     \* specifications but for the lot size
  Registries,    \* what the caller's registry may hold before
  OwnLot,        \* the lot size the caller gives
  Dates,         \* dates a row may carry
  Times,         \* times of day
  Torn,          \* a line that is no row
  Unparsable,    \* a name that is no contract's
  MaxFiles,      \* bound: files in an archive
  MaxRows        \* bound: lines in all of them

ASSUME IngestAssumption ==
  /\ Dates \subseteq Nat \ {NoDate} /\ Times \subseteq Nat
  /\ {OwnLot, MaxFiles, MaxRows} \subseteq Nat
  /\ \A known \in Registries : known \in Seq(Range(known))
  /\ Contracts \subseteq [underlying : STRING, kind : {"Option"}, expiry : Nat, strike : Nat,
                         right : {"Call", "Put"}, lot : Nat]
  /\ \A c, d \in Contracts : KeyOf(c) = KeyOf(d) => c = d

Lines == {Torn} \cup [date : Dates, time : Times]

VARIABLES
  registry,   \* the caller's
  kind,       \* "directory" or "zip"
  only,       \* the underlying asked for, "" for all
  expected,   \* the one date the day may carry, NoDate until it is known
  session,    \* [date, column], or NullSession
  rows,       \* [read, skipped], of lines
  tally,      \* [read, skipped], of files
  expiries,   \* expiries seen
  stage,      \* "closed", "open", "loaded" or "thrown"
  given,      \* history: the date known before any row
  taken       \* history: the files handed over so far

ivars == <<registry, kind, only, expected, session, rows, tally, expiries, stage, given, taken>>

NullSession == [date |-> NoDate, column |-> <<>>]

SpecOf(contract) == [contract EXCEPT !.lot = OwnLot]

-----------------------------------------------------------------------------
(* A file.                                                                  *)

LoadInit ==
  /\ registry \in Registries
  /\ kind \in {"directory", "zip"} /\ only \in {""} \cup {c.underlying : c \in Contracts}
  /\ expected = NoDate /\ session = NullSession
  /\ rows = [read |-> 0, skipped |-> 0] /\ tally = rows
  /\ expiries = {} /\ stage = "closed"
  /\ given = NoDate /\ taken = <<>>

\* The caller's date, or the one a zip has in its name.
OpenArchive ==
  /\ stage = "closed"
  /\ \E option, name \in {NoDate} \cup Dates :
       /\ kind = "directory" => name = NoDate
       /\ expected' = IF option # NoDate THEN option ELSE name
  /\ given' = expected' /\ stage' = "open"
  /\ UNCHANGED <<registry, kind, only, session, rows, tally, expiries, taken>>

\* No such directory, or no zip: an empty day and a warning.
CannotOpenArchive ==
  /\ stage = "closed" /\ stage' = "loaded"
  /\ UNCHANGED <<registry, kind, only, expected, session, rows, tally, expiries, given, taken>>

\* Not a contract's or not one asked for; unreadable or not to be decompressed;
\* or, in a directory, with nothing in it.
PassesOver(f) ==
  \/ f.contract = Unparsable
  \/ f.contract # Unparsable /\ only # "" /\ f.contract.underlying # only
  \/ f.bytes = "lost"
  \/ f.bytes = "none" /\ kind = "directory"

Accept_Bug(st, line) ==
  IF line = Torn THEN st
  ELSE LET date == IF st.expected = NoDate THEN line.date ELSE st.expected
       IN  IF line.date # date \/ line.time < st.previous
           THEN [st EXCEPT !.expected = date, !.previous = line.time]
           ELSE [expected |-> date, previous |-> line.time, kept |-> Append(st.kept, line)]

\* A row is kept if it is of the day's date, which the first row decides when
\* nothing else has, and not before the last row kept of its file.
Accept(st, line) ==
  IF line = Torn THEN st
  ELSE LET date == IF st.expected = NoDate THEN line.date ELSE st.expected
       IN  IF line.date # date \/ line.time < st.previous THEN [st EXCEPT !.expected = date]
           ELSE [expected |-> date, previous |-> line.time, kept |-> Append(st.kept, line)]

Parsed(lines) ==
  LET after[n \in 0 .. Len(lines)] ==
        IF n = 0 THEN [expected |-> expected, previous |-> 0, kept |-> <<>>]
        ELSE Accept(after[n - 1], lines[n])
  IN  after[Len(lines)]

ColumnOf(id) == IF id \in DOMAIN session.column THEN session.column[id] ELSE <<>>

\* MemorySessionData::append throws at the first row, if at any: the rows of a
\* file ascend.
Throws(id, kept) ==
  kept # <<>> /\ ColumnOf(id) # <<>> /\ kept[1].time < Last(ColumnOf(id)).time

PassOver(f) ==
  /\ PassesOver(f)
  /\ tally' = [tally EXCEPT !.skipped = @ + 1]
  /\ UNCHANGED <<registry, expected, session, rows, expiries, stage>>

ReadFile(f) ==
  LET id     == IdOf(registry', SpecOf(f.contract))
      parsed == Parsed(f.lines)
      kept   == parsed.kept
      column == [i \in DOMAIN session.column \cup {id} |->
                   IF i = id THEN ColumnOf(id) \o kept ELSE session.column[i]]
  IN  /\ ~PassesOver(f)
      /\ registry' = Added(registry, SpecOf(f.contract))
      /\ expected' = parsed.expected
      /\ IF Throws(id, kept) THEN stage' = "thrown" /\ UNCHANGED <<session, rows, tally, expiries>>
         ELSE /\ session' = IF kept = <<>> THEN session
                            ELSE [date |-> parsed.expected, column |-> column]
              /\ rows' = [read |-> rows.read + Len(kept),
                          skipped |-> rows.skipped + Len(f.lines) - Len(kept)]
              /\ tally' = [tally EXCEPT !.read = @ + 1]
              /\ expiries' = IF kind = "directory" THEN expiries \cup {f.contract.expiry} ELSE expiries
              /\ UNCHANGED stage

LinesTaken == FoldLeft(LAMBDA n, f : n + Len(f.lines), 0, taken)

NextFile ==
  /\ stage = "open" /\ Len(taken) < MaxFiles
  /\ \E contract \in Contracts \cup {Unparsable}, bytes \in {"lost", "none", "some"},
        n \in 0 .. MaxRows - LinesTaken :
       \E lines \in [1 .. n -> Lines] :
         LET f == [contract |-> contract, bytes |-> bytes, lines |-> lines]
         IN  /\ n > 0 => bytes = "some" /\ contract # Unparsable
             /\ PassOver(f) \/ ReadFile(f)
             /\ taken' = Append(taken, f)
  /\ UNCHANGED <<kind, only, given>>

\* The day is complete: a zip's expiries are those of what has printed.
FinishDay ==
  /\ stage = "open"
  /\ stage' = "loaded"
  /\ expiries' = IF kind = "zip" THEN {registry[id].expiry : id \in DOMAIN session.column} \ {NoDate}
                 ELSE expiries
  /\ UNCHANGED <<registry, kind, only, expected, session, rows, tally, given, taken>>

LoadNext == OpenArchive \/ CannotOpenArchive \/ NextFile \/ FinishDay

LoadSpec == LoadInit /\ [][LoadNext]_ivars

-----------------------------------------------------------------------------
(* Properties.                                                              *)

FilesRead == {n \in DOMAIN taken : ~PassesOver(taken[n])}

RowsIn(lines) == {i \in DOMAIN lines : lines[i] # Torn}

FirstDate(lines) == IF RowsIn(lines) = {} THEN NoDate ELSE lines[Min(RowsIn(lines))].date

\* The date the archive is of: known beforehand, or that of its first row.
DayOf ==
  LET withRows == {n \in FilesRead : RowsIn(taken[n].lines) # {}}
  IN  IF given # NoDate THEN given
      ELSE IF withRows = {} THEN NoDate ELSE FirstDate(taken[Min(withRows)].lines)

OfDay(line, day) == line # Torn /\ line.date = day

\* Of the day, and no earlier row of the day is later.
InOrder(lines, day, n) ==
  OfDay(lines[n], day) /\ \A i \in 1 .. n : OfDay(lines[i], day) => lines[i].time <= lines[n].time

RowsInOrder(lines, day) ==
  LET upto[n \in 0 .. Len(lines)] ==
        IF n = 0 THEN <<>>
        ELSE IF InOrder(lines, day, n) THEN Append(upto[n - 1], lines[n]) ELSE upto[n - 1]
  IN  upto[Len(lines)]

\* What the rows of some files come to, contract by contract, and the lines they
\* are out of.
Together(all, rowsOf) ==
  LET upto[n \in 0 .. Len(all)] ==
        IF n = 0 THEN [column |-> [c \in Contracts |-> <<>>], kept |-> 0, lines |-> 0]
        ELSE IF n \notin DOMAIN rowsOf THEN upto[n - 1]
        ELSE [column |-> [upto[n - 1].column EXCEPT ![all[n].contract] = @ \o rowsOf[n]],
              kept   |-> upto[n - 1].kept + Len(rowsOf[n]),
              lines  |-> upto[n - 1].lines + Len(all[n].lines)]
  IN  upto[Len(all)]

\* A day loaded is the archive's: every contract has the rows of its files that
\* are of the day and in order, and no others, whatever damage lies between them
\* or in other files; once the date is known beforehand nothing a file holds
\* changes what another contributes.  Every row is counted once, a session's
\* contracts are among the expiries reported, and a load is abandoned half way
\* only over two files of one contract.
LoadedAsPrinted ==
  LET all == Together(taken, [n \in FilesRead |-> RowsInOrder(taken[n].lines, DayOf)])
  IN  /\ stage = "loaded" =>
           /\ \A c \in Contracts :
                all.column[c] = IF IsKnown(registry, c) THEN ColumnOf(IdOf(registry, c)) ELSE <<>>
           /\ session # NullSession => session.date = DayOf
           /\ rows = [read |-> all.kept, skipped |-> all.lines - all.kept]
           /\ {registry[id].expiry : id \in DOMAIN session.column} \ {NoDate} \subseteq expiries
      /\ stage = "thrown" =>
           \E m, n \in FilesRead : m # n /\ taken[m].contract = taken[n].contract
=============================================================================
