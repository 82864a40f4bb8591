-------------------------------- MODULE DayFile --------------------------------
(***************************************************************************)
(* What a day file holds and what becomes of it in another program:        *)
(* write_vfday over a session of one registry, VfdaySession::open and the  *)
(* scan of VfdaySource over another.  A contract is written by identity,   *)
(* since the ids of the two registries have nothing to do with each other. *)
(*                                                                         *)
(* Regions, checksums and bytes are DayStore's and Codec's subject: here a *)
(* file is sound, or open refuses it.  A row is its time and a price.      *)
(* Every file is written before the scan; they are in the order of names.  *)
(***************************************************************************)
EXTENDS Registry, SequencesExt

CONSTANTS
  Listed,        \* specifications sessions are made of
  Foreign,       \* registries a program may already have
  FileDates, FileTimes, FilePrices,
  MaxPrinted,    \* bound: rows in all sessions
  MaxDayFiles    \* bound: files

ASSUME DayFileAssumption ==
  /\ FileDates \subseteq Nat \ {NoDate} /\ FileTimes \subseteq Nat /\ FilePrices \subseteq Nat
  /\ {MaxPrinted, MaxDayFiles} \subseteq Nat
  /\ \A known \in Foreign : known \in Seq(Range(known))

VARIABLES
  home,      \* registry of the session being put together
  day,       \* that session, or NoDay: its instruments in order of first print, their columns
  disk,      \* the files
  abroad,    \* the reader's registry
  source,    \* the scan: next file, files_ and cache_ by date, problems_
  written,   \* history: the registry and session each file was made from
  knew       \* history: the reader's registry before the scan

fvars == <<home, day, disk, abroad, source, written, knew>>

NoDay  == [date |-> NoDate, instruments |-> <<>>, column |-> <<>>]
NoScan == [next |-> 0, opened |-> <<>>, problems |-> {}]

ColumnIn(session, id) ==
  LET at == {k \in DOMAIN session.instruments : session.instruments[k] = id}
  IN  IF at = {} THEN <<>> ELSE session.column[CHOOSE k \in at : TRUE]

TotalOf(columns) == FoldLeft(LAMBDA n, column : n + Len(column), 0, columns)

\* The distinct times of a session, ascending (EventCursor has how they are found).
TimelineOf(columns) ==
  LET times == UNION {{columns[k][n].ts : n \in DOMAIN columns[k]} : k \in DOMAIN columns}
  IN  [n \in 1 .. Cardinality(times) |-> CHOOSE t \in times : Cardinality({u \in times : u <= t}) = n]

-----------------------------------------------------------------------------
(* Writing.                                                                 *)

StartDay ==
  /\ source = NoScan /\ day = NoDay /\ Len(disk) < MaxDayFiles
  /\ home' \in Foreign
  /\ \E d \in FileDates : day' = [NoDay EXCEPT !.date = d]
  /\ UNCHANGED <<disk, abroad, source, written, knew>>

\* A contract is added when it first prints, and its prints are in the order of time.
Printed ==
  /\ day # NoDay
  /\ TotalOf(day.column) + FoldLeft(LAMBDA n, f : n + f.rows, 0, disk) < MaxPrinted
  /\ \E spec \in Listed, t \in FileTimes, p \in FilePrices :
       LET id   == IdOf(home', spec)
           old  == ColumnIn(day, id)
           news == old = <<>>
           row  == [ts |-> t, px |-> p]
       IN  /\ home' = Added(home, spec)
           /\ ~news => Last(old).ts <= t
           /\ day' = IF news
                     THEN [day EXCEPT !.instruments = Append(@, id), !.column = Append(@, <<row>>)]
                     ELSE [day EXCEPT !.column =
                             [k \in DOMAIN @ |-> IF day.instruments[k] = id THEN Append(@[k], row) ELSE @[k]]]
  /\ UNCHANGED <<disk, abroad, source, written, knew>>

\* write_vfday: a table entry and a directory entry for each instrument.
FileOf(registry, session) ==
  [date |-> session.date,
   table |-> [k \in DOMAIN session.instruments |-> registry[session.instruments[k]]],
   column |-> session.column,
   rows |-> TotalOf(session.column),
   timeline |-> TimelineOf(session.column),
   sound |-> TRUE]

WriteDay ==
  /\ day # NoDay
  /\ disk' = Append(disk, FileOf(home, day))
  /\ written' = Append(written, [home |-> home, day |-> day])
  /\ day' = NoDay
  /\ UNCHANGED <<home, abroad, source, knew>>

\* External: bytes of a region that open reads change, or the file is cut short.
Spoil ==
  /\ source = NoScan /\ \A i \in DOMAIN disk : disk[i].sound
  /\ \E i \in DOMAIN disk : disk' = [disk EXCEPT ![i].sound = FALSE]
  /\ UNCHANGED <<home, day, abroad, source, written, knew>>

-----------------------------------------------------------------------------
(* Reading.                                                                 *)

Entered_Bug(st, spec) ==
  LET grown == Added(st.registry, spec)
  IN  [registry |-> grown, ids |-> Append(st.ids, Len(grown)), ok |-> st.ok]

\* One directory entry: its contract is added, and must be a new one to the file.
Entered(st, spec) ==
  LET grown == Added(st.registry, spec)
      id    == IdOf(grown, spec)
  IN  [registry |-> grown, ids |-> Append(st.ids, id),
       ok |-> st.ok /\ id \notin {st.ids[k] : k \in DOMAIN st.ids}]

\* The directory, entry by entry.
Walked(registry, table) ==
  LET after[n \in 0 .. Len(table)] ==
        IF n = 0 THEN [registry |-> registry, ids |-> <<>>, ok |-> TRUE]
        ELSE Entered(after[n - 1], table[n])
  IN  after[Len(table)]

\* open, into a registry: what is left of it either way, and the session.  What is
\* checked before the directory is walked adds nothing.
Opened(registry, f) ==
  LET walk == Walked(registry, f.table)
  IN  IF ~f.sound THEN [ok |-> FALSE, registry |-> registry]
      ELSE [ok |-> walk.ok /\ TotalOf(f.column) = f.rows, registry |-> walk.registry,
            session |-> [date |-> f.date, instruments |-> walk.ids, column |-> f.column,
                         timeline |-> f.timeline]]

\* write_vfday's verification, into a registry of its own: each contract is found
\* in the source by identity, lot size included.
Verifies(registry, session, f) ==
  LET back    == Opened(<<>>, f)
      reread  == back.session
      Same(id, spec) == KeyOf(registry[id]) = KeyOf(spec) /\ registry[id].lot = spec.lot
  IN  /\ back.ok
      /\ reread.date = session.date
      /\ TotalOf(reread.column) = TotalOf(session.column)
      /\ Len(reread.instruments) = Len(f.table)
      /\ reread.timeline = TimelineOf(session.column)
      /\ \A k \in DOMAIN reread.instruments :
           \E n \in DOMAIN session.instruments :
             /\ Same(session.instruments[n], back.registry[reread.instruments[k]])
             /\ session.column[n] = ColumnIn(reread, reread.instruments[k])

StartScan ==
  /\ source = NoScan /\ day = NoDay /\ disk # <<>>
  /\ source' = [NoScan EXCEPT !.next = 1]
  /\ abroad' \in Foreign
  /\ knew' = abroad'
  /\ UNCHANGED <<home, day, disk, written>>

Taken_Bug(opened, date) == FALSE

\* A file already claims the date.
Taken(opened, date) == date \in DOMAIN opened

\* The next file of the scan: opened and kept, or a problem.  A file whose date is
\* taken has added its contracts all the same.
ScanFile ==
  LET i      == source.next
      back   == Opened(abroad, disk[i])
      keep   == back.ok /\ ~Taken(source.opened, disk[i].date)
      opened == source.opened
  IN  /\ i \in DOMAIN disk
      /\ abroad' = back.registry
      /\ source' = [next |-> i + 1,
                    opened |-> IF ~keep THEN opened
                               ELSE [d \in DOMAIN opened \cup {disk[i].date} |->
                                       IF d = disk[i].date THEN [from |-> i, session |-> back.session]
                                       ELSE opened[d]],
                    problems |-> IF keep THEN source.problems ELSE source.problems \cup {i}]
      /\ UNCHANGED <<home, day, disk, written, knew>>

-----------------------------------------------------------------------------

FileInit ==
  /\ home = <<>> /\ day = NoDay /\ disk = <<>> /\ abroad = <<>>
  /\ source = NoScan /\ written = <<>> /\ knew = <<>>

FileNext == StartDay \/ Printed \/ WriteDay \/ Spoil \/ StartScan \/ ScanFile

FileSpec == FileInit /\ [][FileNext]_fvars

-----------------------------------------------------------------------------
(* Properties.                                                              *)

\* A session served from a file is the one written, whatever the registry it is
\* opened into already holds and whatever is opened after it: contract for
\* contract the same prints, the same steps; and the lot size it was written with,
\* unless the registry knew the contract with another one.  What write_vfday
\* verifies is always found.
ReloadedAsWritten ==
  /\ \A i \in DOMAIN disk : disk[i].sound => Verifies(written[i].home, written[i].day, disk[i])
  /\ \A d \in DOMAIN source.opened :
       LET back == source.opened[d].session
           from == written[source.opened[d].from]
       IN  /\ back.date = d /\ back.date = from.day.date
           /\ back.timeline = TimelineOf(from.day.column)
           /\ Len(back.instruments) = Len(from.day.instruments)
           /\ \A k \in DOMAIN from.day.instruments :
                LET spec == from.home[from.day.instruments[k]]
                IN  /\ IsKnown(abroad, spec)
                    /\ ColumnIn(back, IdOf(abroad, spec)) = from.day.column[k]
                    /\ \/ abroad[IdOf(abroad, spec)].lot = spec.lot
                       \/ IsKnown(knew, spec)
                       \/ \E i \in 1 .. source.opened[d].from - 1 :
                            \E n \in DOMAIN disk[i].table : KeyOf(disk[i].table[n]) = KeyOf(spec)

\* Every file of the directory is served or reported, never both and never
\* neither: a date is served from the first sound file that claims it.
EveryFileAccountedFor ==
  source.next > Len(disk) =>
    \A i \in DOMAIN disk :
      LET rivals == {n \in 1 .. i - 1 : disk[n].sound /\ disk[n].date = disk[i].date}
          served == disk[i].date \in DOMAIN source.opened /\ source.opened[disk[i].date].from = i
      IN  /\ served <=> disk[i].sound /\ rivals = {}
          /\ i \in source.problems <=> ~served
=============================================================================
