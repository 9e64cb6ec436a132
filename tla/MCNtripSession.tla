---------------------------- MODULE MCNtripSession ----------------------------
(* Small instance of NtripSession: the timeouts keep their order            *)
(* (GGA_FIRST < GGA_RETRY < TABLE = GGA_INTERVAL < FIRST_RESPONSE = SILENCE)*)
EXTENDS NtripSession
===============================================================================
