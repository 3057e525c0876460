---------------------------- MODULE MCSerialPort ----------------------------
(* Small instances of SerialPort. *)
EXTENDS SerialPort
=============================================================================
