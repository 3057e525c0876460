---------------------------- MODULE MCResumeTime ----------------------------
(* Small instances of ResumeTime: two checks of two losses. *)
EXTENDS ResumeTime

OneParam   == {[samples |-> 2, checks |-> 2, checkTime |-> 1,
                level |-> 2, cdiv |-> 2, ddiv |-> 2]}
LampOnOff  == {0, 2}
LampsCycle == {{0, 1}, {1}}
FirstOnly  == {{0}}
=============================================================================
