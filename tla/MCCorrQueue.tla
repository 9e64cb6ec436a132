------------------------------ MODULE MCCorrQueue ------------------------------
(* Small instance of CorrQueue: two serial workers taking turns.           *)
EXTENDS CorrQueue
===============================================================================
