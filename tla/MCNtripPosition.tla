---------------------------- MODULE MCNtripPosition ----------------------------
(* Small instance of NtripPosition: two attempts tell a budget that is      *)
(* renewed, spent and overspent apart; the profiles are one for each thing  *)
(* the worker says about a position.                                        *)
EXTENDS NtripPosition

W(m, s, set, r) == [mode |-> m, source |-> s, manualSet |-> set, requires |-> r]
AllWishes ==
  {W("when", "receiver", FALSE, "unknown"), W("always", "receiver", FALSE, "no"),
   W("off", "manual", TRUE, "yes"), W("always", "manual", FALSE, "yes"),
   W("when", "manual", TRUE, "yes"), W("when", "manual", TRUE, "no")}
===============================================================================
