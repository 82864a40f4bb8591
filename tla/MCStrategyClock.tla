--------------------------- MODULE MCStrategyClock ---------------------------
(* Values for StrategyClock's constants: a week broken by a weekend.         *)
EXTENDS StrategyClock

MCWeek == <<1, 2, 5>>
MCPlan == <<3, 5>>
=============================================================================
