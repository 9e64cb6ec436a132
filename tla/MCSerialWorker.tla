---------------------------- MODULE MCSerialWorker ----------------------------
(* Small instance of SerialWorker with one auto-config command.            *)
EXTENDS SerialWorker
===============================================================================
