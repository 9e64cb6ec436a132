----------------------------- MODULE MCSerialLink -----------------------------
(* Small instance of SerialLink: every Connect spawns a fresh thread.      *)
EXTENDS SerialLink
===============================================================================
