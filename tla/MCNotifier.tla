----------------------------- MODULE MCNotifier -----------------------------
(* Small instances of Notifier. *)
EXTENDS Notifier

FirstAndLast == {1, MaxDest}
SomeSignal   == {0, 20}
=============================================================================
