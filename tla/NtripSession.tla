----------------------------- MODULE NtripSession -----------------------------
(***************************************************************************)
(* The sans-IO NTRIP session of crates/ntrip-core/src/session.rs: what its *)
(* entry points do to the phase, to the deadlines and to the GGA scheduler,*)
(* and what they emit (the protocol lines for the log are left out).       *)
(*                                                                         *)
(* A feed of bytes is reduced to the verdict the parser can reach on it,   *)
(* from a line still incomplete to a header block with its body behind it. *)
(* Deadlines are countdowns in units of the tick gap the caller promises   *)
(* (500 ms at most): time passes one unit, then a tick is owed.            *)
(***************************************************************************)
EXTENDS Naturals, Sequences

CONSTANTS FIRST_RESPONSE, TABLE, SILENCE, GGA_FIRST, GGA_INTERVAL, GGA_RETRY

ASSUME TimeoutsAssumption ==
  {FIRST_RESPONSE, TABLE, SILENCE, GGA_FIRST, GGA_INTERVAL, GGA_RETRY} \subseteq Nat \ {0}

VARIABLES mount,        \* the request named a mountpoint
          raw,          \* Transport::RawTcp
          phase,
          chunked,      \* the body in progress is chunked
          firstLeft,    \* until first_deadline
          tableLeft,    \* until the table's deadline
          quiet,        \* since last_rx
          gga,          \* the GGA scheduler
          ggaLeft,      \* until the Due instant
          out,          \* what the latest call emitted, in order
          tickOwed,     \* time passed since the latest on_tick
          owed,         \* ghost: GgaDue emitted and not answered
          closes,       \* ghost: Close outputs so far
          age,          \* ghost: time since new, or since the body began
          idle,         \* ghost: time since bytes arrived
          sinceArm,     \* ghost: time since the scheduler was armed
          armedBy       \* ghost: by what event

conf   == <<mount, raw>>
timers == <<firstLeft, tableLeft, quiet>>
sched  == <<gga, ggaLeft, sinceArm, armedBy>>
vars   == <<conf, phase, chunked, timers, sched, out, tickOwed, owed, closes, age, idle>>

Header == {"StatusLine", "HttpHeaders"}
Reasons == {"Unauthorized", "MountpointNotFound", "UnknownResponse",
            "FirstResponseTimeout", "SourcetableTimeout", "StreamSilence",
            "StreamCorrupt", "RemoteClosed", "Cancelled"}

\* NtripSession::new: RawTcp has no handshake and no GGA.
Init ==
  /\ mount \in BOOLEAN /\ raw \in BOOLEAN
  /\ phase = IF raw THEN "Streaming" ELSE "StatusLine"
  /\ chunked = FALSE
  /\ firstLeft = FIRST_RESPONSE /\ tableLeft = 0 /\ quiet = 0
  /\ gga \in IF raw THEN {"Disabled"} ELSE {"Disabled", "Idle"}
  /\ ggaLeft = 0 /\ sinceArm = 0 /\ armedBy = "none"
  /\ out = <<>> /\ tickOwed = FALSE
  /\ owed = 0 /\ closes = 0 /\ age = 0 /\ idle = 0

-------------------------------------------------------------------------------
(* What the calls are made of: each settles out, closes, phase, chunked,    *)
(* tableLeft, the scheduler and age.                                        *)

Emits(o) == \E i \in DOMAIN out : out[i] = o
Emit(outputs) ==
  /\ out' = outputs
  /\ closes' = closes + (IF \E i \in DOMAIN outputs : outputs[i] \in Reasons THEN 1 ELSE 0)

Stay(outputs) ==
  /\ Emit(outputs)
  /\ UNCHANGED <<phase, chunked, tableLeft, sched, age>>

\* emit_close, the funnel of every close: the reason comes last.
CloseWith(before, reason) ==
  /\ Emit(Append(before, reason))
  /\ phase' = "Done"
  /\ UNCHANGED <<chunked, tableLeft, sched, age>>

Arm(delay, event) == IF gga = "Disabled" THEN UNCHANGED sched
                     ELSE /\ gga' = "Due" /\ ggaLeft' = delay
                          /\ sinceArm' = 0 /\ armedBy' = event

EnterStreaming(isChunked, outputs) ==
  /\ Emit(outputs)
  /\ phase' = "Streaming" /\ chunked' = isChunked /\ age' = 0
  /\ Arm(GGA_FIRST, "stream")
  /\ tableLeft' = tableLeft

EnterTable(isChunked) ==
  /\ Emit(<<>>)
  /\ phase' = "Table" /\ chunked' = isChunked /\ age' = 0
  /\ tableLeft' = TABLE
  /\ UNCHANGED sched

\* finalize_table: the product of a table request, the diagnosis of a mount
\* request; `after' is the close a remote end forced, if one did.
FinalizeTable(after) ==
  IF mount THEN CloseWith(<<>>, "MountpointNotFound")
  ELSE /\ Emit(<<"Sourcetable">> \o after)
       /\ phase' = "Done"
       /\ UNCHANGED <<chunked, tableLeft, sched, age>>

Payload == {<<>>, <<"Corrections">>}

-------------------------------------------------------------------------------
(* on_bytes: the verdicts of one feed.  A feed that crosses from the header *)
(* into the body takes the transition and the body's first verdict at once; *)
(* if that closes, what the transition armed is not kept: nothing reads it. *)

\* The first line: incomplete, HTTP with headers to come, ICY, a v1 table, or
\* neither (nonsense, ICY for a table request, or 16 KiB without a verdict).
OnStatusLine ==
  /\ phase = "StatusLine"
  /\ \/ Stay(<<>>)
     \/ Emit(<<>>) /\ phase' = "HttpHeaders"
        /\ UNCHANGED <<chunked, tableLeft, sched, age>>
     \/ mount /\ \E outputs \in Payload : EnterStreaming(FALSE, outputs)
     \/ EnterTable(FALSE)
     \/ FinalizeTable(<<>>)
     \/ CloseWith(<<>>, "UnknownResponse")

\* fault: the declared content type alone decides
IsTable_Declared(declared) == declared
\* An empty-mountpoint request always expects a table.
IsTable(declared) == ~mount \/ declared

\* classify_http at the blank line, which may be in the status line's feed.
OnHttp ==
  /\ phase \in Header
  /\ \/ phase = "HttpHeaders" /\ Stay(<<>>)
     \/ CloseWith(<<>>, "Unauthorized")
     \/ CloseWith(<<>>, "UnknownResponse")
     \/ \E declared, isChunked \in BOOLEAN :
          /\ IsTable(declared)
          /\ \/ EnterTable(isChunked)
             \/ FinalizeTable(<<>>)
             \/ isChunked /\ CloseWith(<<>>, "StreamCorrupt")
     \/ \E declared, isChunked \in BOOLEAN, outputs \in Payload :
          /\ ~IsTable(declared)
          /\ \/ EnterStreaming(isChunked, outputs)
             \/ isChunked /\ CloseWith(outputs, "StreamCorrupt")
             \/ isChunked /\ CloseWith(outputs, "RemoteClosed")

OnTable ==
  /\ phase = "Table"
  /\ \/ Stay(<<>>)
     \/ FinalizeTable(<<>>)
     \/ chunked /\ CloseWith(<<>>, "StreamCorrupt")

\* Chunks decoded before a framing error or the terminal chunk still count.
OnStream ==
  /\ phase = "Streaming"
  /\ \E outputs \in Payload :
       \/ Stay(outputs)
       \/ chunked /\ CloseWith(outputs, "StreamCorrupt")
       \/ chunked /\ CloseWith(outputs, "RemoteClosed")

\* fault: a feed moves the first-response deadline
FirstAfterFeed_Moved == FIRST_RESPONSE
FirstAfterFeed == firstLeft
\* fault: only payload counts as a sign of life
QuietAfterFeed_Payload == IF out' = <<>> THEN quiet ELSE 0
QuietAfterFeed == 0

OnBytes ==
  /\ \/ OnStatusLine \/ OnHttp \/ OnTable \/ OnStream
     \/ phase = "Done" /\ Stay(<<>>)
  /\ quiet' = IF phase = "Done" THEN quiet ELSE QuietAfterFeed
  /\ idle' = 0
  /\ firstLeft' = FirstAfterFeed
  /\ UNCHANGED <<conf, tickOwed, owed>>

-------------------------------------------------------------------------------
(* on_tick, the answers to GgaDue, the remote close, the cancel *)

Expired == \/ phase \in Header /\ firstLeft = 0
           \/ phase = "Table" /\ tableLeft = 0
           \/ phase = "Streaming" /\ quiet >= SILENCE
TimeoutReason == CASE phase \in Header -> "FirstResponseTimeout"
                   [] phase = "Table" -> "SourcetableTimeout"
                   [] OTHER -> "StreamSilence"

AfterDue == "AwaitSent"

\* Silence is looked at before GGA: a dead stream asks for no position.
OnTick ==
  /\ \/ Expired /\ CloseWith(<<>>, TimeoutReason) /\ owed' = owed
     \/ /\ ~Expired /\ phase = "Streaming" /\ gga = "Due" /\ ggaLeft = 0
        /\ Emit(<<"GgaDue">>) /\ gga' = AfterDue /\ owed' = owed + 1
        /\ UNCHANGED <<phase, chunked, tableLeft, ggaLeft, sinceArm, armedBy, age>>
     \/ /\ ~Expired /\ ~(phase = "Streaming" /\ gga = "Due" /\ ggaLeft = 0)
        /\ Stay(<<>>) /\ owed' = owed
  /\ tickOwed' = FALSE
  /\ UNCHANGED <<conf, firstLeft, quiet, idle>>

Answer(delay, event) ==
  /\ owed > 0 /\ owed' = 0
  /\ Arm(delay, event)
  /\ out' = <<>>
  /\ UNCHANGED <<conf, phase, chunked, timers, tickOwed, closes, age, idle>>

gga_sent == Answer(GGA_INTERVAL, "sent")
\* fault: a miss waits as long as a success
gga_missed_Slow == Answer(GGA_INTERVAL, "missed")
gga_missed == Answer(GGA_RETRY, "missed")

\* fault: a session that is done closes again
OnRemoteClose_Always ==
  /\ CloseWith(<<>>, "RemoteClosed")
  /\ UNCHANGED <<conf, firstLeft, quiet, tickOwed, owed, idle>>
OnRemoteClose ==
  /\ \/ phase = "Done" /\ Stay(<<>>)
     \/ phase \in Header /\ CloseWith(<<>>, "UnknownResponse")
     \/ phase = "Table" /\ FinalizeTable(<<"RemoteClosed">>)
     \/ phase = "Streaming" /\ CloseWith(<<>>, "RemoteClosed")
  /\ UNCHANGED <<conf, firstLeft, quiet, tickOwed, owed, idle>>

Cancel ==
  /\ IF phase = "Done" THEN Stay(<<>>) ELSE CloseWith(<<>>, "Cancelled")
  /\ UNCHANGED <<conf, firstLeft, quiet, tickOwed, owed, idle>>

\* The caller's clock.  The ghosts stop counting past every timeout.
Horizon == FIRST_RESPONSE + TABLE + SILENCE + GGA_INTERVAL + GGA_RETRY + GGA_FIRST
Later(t) == IF t < Horizon THEN t + 1 ELSE t
\* fault: a deadline that has passed is subtracted from
Sooner_NoFloor(t) == t - 1
Sooner(t) == IF t > 0 THEN t - 1 ELSE 0

Elapse ==
  /\ ~tickOwed /\ tickOwed' = TRUE
  /\ firstLeft' = Sooner(firstLeft) /\ tableLeft' = Sooner(tableLeft)
  /\ ggaLeft' = Sooner(ggaLeft)
  /\ quiet' = Later(quiet) /\ age' = Later(age) /\ idle' = Later(idle)
  /\ sinceArm' = Later(sinceArm)
  /\ UNCHANGED <<conf, phase, chunked, gga, armedBy, out, owed, closes>>

Call == OnBytes \/ OnTick \/ gga_sent \/ gga_missed \/ OnRemoteClose \/ Cancel

Next == Call \/ Elapse

Spec == Init /\ [][Next]_vars
-------------------------------------------------------------------------------
(* Properties *)

TypeOK ==
  /\ {mount, raw, chunked, tickOwed} \subseteq BOOLEAN
  /\ phase \in Header \cup {"Table", "Streaming", "Done"}
  /\ gga \in {"Disabled", "Idle", "Due", "AwaitSent"}
  /\ {firstLeft, tableLeft, quiet, ggaLeft, owed, closes, age, idle,
      sinceArm} \subseteq Nat
  /\ armedBy \in {"none", "stream", "sent", "missed"}
  /\ out \in Seq(Reasons \cup {"GgaDue", "Corrections", "Sourcetable"})

\* Module invariant of session.rs: Close is emitted exactly once, ever.
CloseOnce == closes <= 1 /\ (closes = 1 => phase = "Done")

\* ... and the session is inert afterwards, whatever is still fed to it.
InertWhenDone == [][phase = "Done" => phase' = "Done" /\ out' \in {out, <<>>}]_vars

\* GgaDue is never emitted twice without gga_sent or gga_missed in between.
GgaAlternates == owed <= 1

\* No trickle of bytes holds a session back from its verdict: the header is
\* classified within FIRST_RESPONSE of the request, and a table is complete
\* within TABLE of its header.
VerdictInTime == /\ phase \in Header => age <= FIRST_RESPONSE
                 /\ phase = "Table" => age <= TABLE

\* A stream is declared dead when nothing at all arrived for SILENCE, not
\* before, and not later than the tick after.
SilenceExact == /\ phase = "Streaming" => idle <= SILENCE
                /\ Emits("StreamSilence") => idle >= SILENCE

\* A streaming session with GGA enabled never goes position-silent: its slot
\* is armed, and comes up GGA_FIRST after the stream began, GGA_INTERVAL after
\* a position was sent and GGA_RETRY after one was missing.
Slot == [none |-> 0, stream |-> GGA_FIRST, sent |-> GGA_INTERVAL, missed |-> GGA_RETRY]
GgaOnTime ==
  phase = "Streaming" /\ gga # "Disabled" /\ owed = 0
    => gga = "Due" /\ sinceArm + ggaLeft = Slot[armedBy]

\* on_tick's two clocks of a stream, both to the tick: its silence and the slot
\* of its next position.
StreamClocks == TypeOK /\ SilenceExact /\ GgaOnTime

\* The interface the worker is written against: each call returns one of the
\* outputs SessionOutputs allows for what was asked and the stage reached.
Kind  == IF raw THEN "raw" ELSE IF mount THEN "mount" ELSE "table"
Stage == CASE phase = "Streaming" -> "streaming" [] phase = "Done" -> "done"
           [] OTHER -> "open"
Outputs == INSTANCE SessionOutputs WITH kind <- Kind, stage <- Stage
KeepsPromise == Outputs!Spec
===============================================================================
