----------------------------- MODULE MCSignals ------------------------------
(* Small instances of Signals. *)
EXTENDS Signals

\* A traffic light of two channels: dark, one on (a lamp burnt out), both on
TwoLamps == {{}, {1}, {1, 2}}
=============================================================================
