---------------------------- MODULE MCEventCursor ----------------------------
(* Values for EventCursor's constants: three instruments, ids with a gap.    *)
EXTENDS EventCursor

MCInstruments == {0, 1, 3}
=============================================================================
