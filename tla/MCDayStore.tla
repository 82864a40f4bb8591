----------------------------- MODULE MCDayStore -----------------------------
(* Values for DayStore's constants: two archives of one day.                 *)
EXTENDS DayStore

MCDates == <<1, 1>>
=============================================================================
