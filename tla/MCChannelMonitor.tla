-------------------------- MODULE MCChannelMonitor --------------------------
(* Small instances of ChannelMonitor. *)
EXTENDS ChannelMonitor

Rec(s, k, t) == [samples |-> s, checks |-> k, checkTime |-> t,
                 level |-> 4, cdiv |-> 4, ddiv |-> 2]
OneParam   == {Rec(2, 2, 1)}
TwoParams  == {Rec(2, 1, 1), Rec(3, 3, 2)}
LampOnOff  == {0, 4}
Masks      == {0 .. N - 1}
OneByOne   == {{c} : c \in 0 .. N - 1}
LampsCycle == {{0, 1}, {1}}
FirstOnly  == {{0}}
=============================================================================
