----------------------------- MODULE NtripPosition -----------------------------
(***************************************************************************)
(* The position of the NTRIP worker, on top of NtripWorker: whether a GGA  *)
(* is wanted, where it comes from, what went out, and what the worker says *)
(* about it, in the event log and as the trouble the session band shows.   *)
(* The receiver's latest sentence is a slot the serial worker writes at    *)
(* any moment.  Every action of NtripWorker is taken with its effect here. *)
(***************************************************************************)
EXTENDS NtripWorker

CONSTANT Wishes     \* the position settings of a profile, see Wish

\* requires: what the cached sourcetable says of the mountpoint.
Wish == [mode : {"off", "always", "when"}, source : {"manual", "receiver"},
         manualSet : BOOLEAN, requires : {"unknown", "yes", "no"}]

ASSUME WishesAssumption == Wishes \subseteq Wish

VARIABLES wish,         \* the job's
          slot_gga,     \* last_gga: "none", a "noFix" sentence, or a "fix"
          sent,         \* conn.gga_sent is above zero
          taken,        \* what on_gga_due writes: "manual", "noFix" or "fix"
          answered,     \* conn.answered_at is set
          starveNoted,  \* conn.starve_noted
          claim,        \* ghost: what "Receiving data" said of the position:
                        \* "none", "sending", or "broken" by a miss since
          trouble,      \* the latest PositionTrouble
          told          \* what the run's event log has said, each at most once

posVars  == <<wish, slot_gga, sent, taken, answered, starveNoted, claim, trouble, told>>
connPos  == <<sent, taken, answered, starveNoted, claim>>
npVars   == <<vars, posVars>>

PosInit == /\ Init
           /\ wish \in Wishes /\ slot_gga \in {"none", "noFix", "fix"}
           /\ sent = FALSE /\ taken = "manual" /\ answered = FALSE
           /\ starveNoted = FALSE /\ claim = "none"
           /\ trouble = "none" /\ told = {}
-------------------------------------------------------------------------------
(* What the profile wants and what exists to send *)

gga_policy == \/ wish.mode = "always"
              \/ wish.mode = "when" /\ wish.requires # "no"

manual_position_set == wish.manualSet

Available == IF wish.source = "manual" THEN manual_position_set ELSE slot_gga # "none"

position_ready   == gga_policy /\ Available
position_matters == kind = "mount" /\ wish.requires # "no"

\* gga_plan, said with the first corrections.
gga_plan == IF kind = "mount" /\ gga_policy /\ Available THEN "sending" ELSE "none"

starving == position_matters /\ answered /\ ~streaming /\ ~sent
-------------------------------------------------------------------------------
(* What the worker makes of a close *)

\* fault: the hint does not ask what was sent
KickShaped_Always(end) == end \in {"RemoteClosed", "StreamSilence"}
KickShaped(end) == end \in {"RemoteClosed", "StreamSilence"} /\ ~sent

gga_hint(end, diedFast) ==
  kind = "mount" /\ KickShaped(end) /\ (wish.requires = "yes" \/ diedFast)

position_verdict(end, diedFast, forbidden) ==
  CASE ~position_matters -> "none"
    [] gga_hint(end, diedFast) -> "Starved"
    [] forbidden /\ end = "UnknownResponse" /\ ~position_ready -> "Refused"
    [] OTHER -> "none"

\* fault: a close with a diagnosis of its own leaves the last hint standing
Reported_Kept(verdict) ==
  IF verdict = "none" THEN UNCHANGED <<trouble, told>>
  ELSE trouble' = verdict /\ told' = told \cup {verdict}
\* report_trouble, or the withdrawal.
Reported(verdict) ==
  /\ trouble' = verdict
  /\ told' = told \cup ({verdict} \ {"none"})
-------------------------------------------------------------------------------
(* The steps of NtripWorker, and what they do here *)

\* on_line: every sentence with a good checksum is kept, one that says "no
\* fix" too; nothing clears the slot.
\* fault: the slot follows the receiver's connection
SerialLine_Cleared == slot_gga' \in {"none", "noFix", "fix"}
SerialLine == slot_gga' \in {"noFix", "fix"}

Receiver == /\ SerialLine
            /\ UNCHANGED <<vars, wish, connPos, trouble, told>>

\* drive_connection: a new ConnState, and two notices a run is given once.
Assumes   == kind = "mount" /\ wish.mode = "when" /\ wish.requires = "unknown"
WarnsOff  == kind = "mount" /\ wish.mode = "off" /\ wish.requires = "yes"

PosEstablish ==
  /\ Establish
  /\ IF pc' = "dispatch"
     THEN /\ sent' = FALSE /\ taken' = "manual" /\ answered' = FALSE
          /\ starveNoted' = FALSE /\ claim' = "none"
          /\ told' = told \cup {n \in {"assumed", "warned"} :
                                  IF n = "assumed" THEN Assumes ELSE WarnsOff}
     ELSE UNCHANGED <<connPos, told>>
  /\ UNCHANGED <<wish, slot_gga, trouble>>

\* on_gga_due: a position that is missing is missed in this step.
Miss == /\ claim' = IF claim = "none" THEN claim ELSE "broken"
        /\ UNCHANGED <<sent, taken, answered, starveNoted, trouble, told>>

OnGgaDue == /\ (pc' = "writing") <=> Available
            /\ IF ~Available THEN Miss
               ELSE /\ taken' = IF wish.source = "manual" THEN "manual" ELSE slot_gga
                    /\ UNCHANGED <<sent, answered, starveNoted, claim, trouble, told>>

OnFirstCorrections ==
  /\ claim' = IF streaming THEN claim ELSE gga_plan
  /\ UNCHANGED <<sent, taken, answered, starveNoted, trouble, told>>

OnClose(end) ==
  /\ \E diedFast, forbidden \in BOOLEAN :
       Reported(position_verdict(end, diedFast, forbidden))
  /\ UNCHANGED connPos

PosDispatch ==
  /\ Dispatch
  /\ IF outs = <<>> THEN UNCHANGED <<connPos, trouble, told>>
     ELSE CASE Head(outs) = "GgaDue" -> OnGgaDue
            [] Head(outs) = "Corrections" -> OnFirstCorrections
            [] Head(outs) = "Sourcetable" -> UNCHANGED <<connPos, trouble, told>>
            [] OTHER -> OnClose(Head(outs))
  /\ UNCHANGED <<wish, slot_gga>>

\* fault: the hint of an earlier attempt stays when a position goes out
Voided_Kept == trouble
Voided == IF sent THEN trouble ELSE "none"

PosWrite ==
  /\ Write
  /\ \/ sent' = TRUE /\ trouble' = Voided
     \/ UNCHANGED <<sent, trouble>>
  /\ taken' = "manual"
  /\ UNCHANGED <<wish, slot_gga, answered, starveNoted, claim, told>>

\* The session schedules no position for a policy that is off, and a stream of
\* an NTRIP caster has answered.  The suspicion is looked at before the outputs
\* of this read are dispatched.
PosRead ==
  /\ Read
  /\ gga_policy \/ \A i \in DOMAIN outs' : outs'[i] # "GgaDue"
  /\ answered' \in {answered, kind # "raw"} /\ (session' = "streaming" /\ kind = "mount" => answered')
  /\ \E fiveSeconds \in BOOLEAN :
       IF fiveSeconds /\ starving /\ ~starveNoted
       THEN starveNoted' = TRUE /\ Reported("Starved")
       ELSE UNCHANGED <<starveNoted, trouble, told>>
  /\ UNCHANGED <<wish, slot_gga, sent, taken, claim>>

PosRest == /\ Top \/ Poll \/ Recv \/ Publish \/ Ended \/ Verdict \/ Waiting
           /\ UNCHANGED posVars

PosWorker == PosEstablish \/ PosDispatch \/ PosWrite \/ PosRead \/ PosRest

PosNext == \/ Receiver
           \/ Canceller /\ UNCHANGED posVars
           \/ PosWorker

PosSpec == /\ PosInit /\ [][PosNext]_npVars
           /\ WF_npVars((pc = "writing" => sockShut) /\ PosWorker)
           /\ WF_npVars(CancelShutdown /\ Canceller /\ UNCHANGED posVars)
-------------------------------------------------------------------------------
(* Properties *)

PosTypeOK ==
  /\ wish \in Wish /\ slot_gga \in {"none", "noFix", "fix"}
  /\ {sent, answered, starveNoted} \subseteq BOOLEAN
  /\ taken \in {"manual", "noFix", "fix"}
  /\ claim \in {"none", "sending", "broken"}
  /\ trouble \in {"none", "Starved", "Refused"}
  /\ told \subseteq {"assumed", "warned", "Starved", "Refused"}

\* on_gga_due: once a position reached the caster, nothing of this connection
\* blames its absence, neither the suspicion while it lasts, nor the verdict
\* when it ends, nor what an earlier attempt left behind.
NoBlameOnceSent == sent => trouble = "none"

\* gga_plan: "sending" is fact, not intent; no "not sent" of the same
\* connection contradicts it, whatever becomes of the receiver.
PlanIsFact == claim # "broken"

\* dispatch: the hint that stands when a connection has been closed is about
\* that close, and a close with its own diagnosis withdraws an earlier one.
BlameFitsTheClose ==
  pc = "verdict" /\ terminal \in (S!Reasons \cup {"NoLine"}) \ {"Cancelled"} =>
    /\ trouble = "Starved" => terminal \in {"RemoteClosed", "StreamSilence"}
    /\ trouble = "Refused" => terminal \in {"UnknownResponse", "NoLine"}

\* What the worker says of a position is so: it blames no absence of one that
\* was sent, contradicts no claim, and its hint is about the close it stands by.
PositionWords == PosTypeOK /\ NoBlameOnceSent /\ PlanIsFact /\ BlameFitsTheClose

\* supervise: the budget of connects is kept, and a table that arrived is a
\* success whatever else the same read brought.
SupervisorInv == TypeOK /\ RetryBudget /\ TableIsSuccess

\* gga_plan's "none until the receiver supplies a fix": a position passed
\* through is a fix.
OnlyFixesPass == pc = "writing" => taken # "noFix"
===============================================================================
