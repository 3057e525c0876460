------------------------------ MODULE MCTimers ------------------------------
(* Small instances of Timers: seconds are scaled, their order is kept. *)
EXTENDS Timers

ShortDelays == [t \in Timer |-> CASE t = "cmd" -> 1 [] t = "btn" -> 3 [] t = "sms" -> 6]
=============================================================================
