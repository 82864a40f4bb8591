-------------------------------- MODULE Replay --------------------------------
(***************************************************************************)
(* What whoever replays a session may count on: its events come one after  *)
(* the other in a fixed total order, each once, and the replay is over     *)
(* only when all have come.                                                *)
(***************************************************************************)
EXTENDS Integers, Sequences

VARIABLES
  session,    \* the events to replay
  emitted     \* those replayed so far, in order

rvars == <<session, emitted>>

\* By time, then by instrument, then by row.
Before(a, b) ==
  \/ a.ts < b.ts
  \/ a.ts = b.ts /\ a.instrument < b.instrument
  \/ a.ts = b.ts /\ a.instrument = b.instrument /\ a.row < b.row

Replayed == {emitted[i] : i \in DOMAIN emitted}
Left     == session \ Replayed

Init == session = {} /\ emitted = <<>>

\* Another session, or the same again, once the last one is over.
Begin == Left = {} /\ emitted' = <<>>

Emit ==
  \E e \in Left :
    /\ \A f \in Left \ {e} : Before(e, f)
    /\ emitted' = Append(emitted, e)
    /\ session' = session

Next == Begin \/ Emit

Spec == Init /\ [][Next]_rvars
=============================================================================
