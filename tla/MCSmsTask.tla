----------------------------- MODULE MCSmsTask ------------------------------
(* Small instances of SmsTask. *)
EXTENDS SmsTask

\* An ip, a reset alone, a reset between two others, an ip that a shorter text
\* leaves behind it
FourTexts == {<<"ip">>, <<"rst">>, <<"ip", "rst", "other">>, <<"other", "ip">>}
=============================================================================
