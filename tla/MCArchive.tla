------------------------------- MODULE MCArchive -------------------------------
(***************************************************************************)
(* What becomes of a day's data on its way to a strategy: the adapter that *)
(* loads an archive, the day file and its reader, the codec, and the store *)
(* of day files with its batch.  They are checked one at a time, as `turn' *)
(* says; the others rest.                                                  *)
(***************************************************************************)
EXTENDS Ingest, DayFile, Codec, MCDayStore

VARIABLE turn

\* Both ends of the range, their neighbours, half of it, zero's surroundings, and
\* multiples of a common divisor.
MCValues == {-32, -31, -17, -16, -8, -1, 0, 1, 8, 15, 16, 24, 31}

Contract(underlying, kindOf, expiry, strike, right, lot) ==
  [underlying |-> underlying, kind |-> kindOf, expiry |-> expiry, strike |-> strike,
   right |-> right, lot |-> lot]

MCCall   == Contract("A", "Option", 2, 1, "Call", 1)
MCPut    == Contract("A", "Option", 2, 1, "Put", 1)
MCOther  == Contract("B", "Option", 3, 1, "Call", 1)
MCFuture == Contract("A", "Future", 2, 0, "Call", 1)

MCContracts == {MCCall, MCOther}
MCListed    == {MCCall, MCPut, MCFuture}
MCHeld      == {<<>>, <<MCOther, [MCCall EXCEPT !.lot = 2]>>}
MCForeign   == {<<>>, <<MCPut, [MCCall EXCEPT !.lot = 2]>>}

ArchiveInit ==
  /\ turn \in {"load", "file", "codec", "store"}
  /\ LoadInit /\ FileInit /\ CodecInit /\ Init
  /\ turn # "load" => registry = <<>> /\ kind = "zip" /\ only = ""

LoadTurn  == turn = "load" /\ LoadNext /\ UNCHANGED <<turn, fvars, scratch, vars>>
FileTurn  == turn = "file" /\ FileNext /\ UNCHANGED <<turn, ivars, scratch, vars>>
CodecTurn == turn = "codec" /\ CodecNext /\ UNCHANGED <<turn, ivars, fvars, vars>>

\* Of a second run, a reader and damage any two meet.
StoreTurn ==
  /\ turn = "store" /\ Next
  /\ ~(runs' > 1 /\ scan'.scans > 0 /\ damage' > 0)
  /\ UNCHANGED <<turn, ivars, fvars, scratch>>

ArchiveNext == LoadTurn \/ FileTurn \/ CodecTurn \/ StoreTurn

ArchiveSpec == ArchiveInit /\ [][ArchiveNext]_<<turn, ivars, fvars, scratch, vars>>
=============================================================================
