------------------------------- MODULE Logger -------------------------------
(* The logger thread of logging.rs: two daily files, the correction         *)
(* captures, and the threads that send it commands.  Every open may fail.   *)
(* The channel keeps the order of its sends.                                *)
EXTENDS Naturals, SequencesExt

CONSTANTS MaxClock,       \* seconds that pass
          Midnight,       \* the last second of the first day
          MaxQueued,      \* commands in the channel
          MaxConns,       \* connections with a capture
          MaxBlocks,      \* correction blocks of one connection
          Toggled,        \* the sinks whose option the user changes
          FirstBytesApart \* no two captures begin within one second

ASSUME LoggerBounds ==
  /\ {MaxClock, Midnight, MaxQueued, MaxConns, MaxBlocks} \subseteq Nat
  /\ Toggled \subseteq {"events", "nmea"} /\ FirstBytesApart \in BOOLEAN

Sinks == {"events", "nmea"}
None  == 0

VARIABLES
  chan,      \* LogCmd's under way
  log,       \* the thread's sinks, and what became of what it was given
  clock,     \* the local time, in seconds
  flushDue,  \* next_flush has passed
  running,   \* the thread is in its loop
  opt,       \* settings.app.write_event_log, write_nmea_log
  snap,      \* what the Options dialog opened with
  conn       \* the NTRIP worker's connection, and the blocks it captured

loggerVars == <<chan, log, clock, flushDue, running, opt, snap, conn>>
-------------------------------------------------------------------------------
(* DailySink *)

Today == IF clock <= Midnight THEN 1 ELSE 2
NewSink(on) == [enabled |-> on, current |-> None, dirty |-> FALSE, failed |-> FALSE]

\* fault: a sink that is switched off keeps writing to its open file
SetEnabled_Kept(s, on) == [s EXCEPT !.enabled = on \/ s.current # None, !.failed = FALSE]
SetEnabled(s, on) ==
  [s EXCEPT !.enabled = on, !.failed = FALSE,
            !.dirty = @ /\ on, !.current = IF on THEN @ ELSE None]

\* fault: the flag is not lowered by a file that opens again
Reopened_Failed(s) == [s EXCEPT !.current = Today, !.dirty = TRUE]
Reopened(s) == [s EXCEPT !.current = Today, !.dirty = TRUE, !.failed = FALSE]

\* write_line: the sink, what it has to say, and whether the line was dropped;
\* "opens" is whether the file can be opened, where that is tried.
WriteLine(s, opens) ==
  LET Result(to, says, lost) == [sink |-> to, says |-> says, lost |-> lost]
  IN
  IF ~s.enabled THEN Result(s, "none", FALSE)
  ELSE IF s.current = Today THEN Result([s EXCEPT !.dirty = TRUE], "none", FALSE)
  ELSE IF opens THEN Result(Reopened(s), IF s.current = None THEN "none" ELSE "rolled", FALSE)
  ELSE Result([s EXCEPT !.current = None, !.dirty = FALSE, !.failed = TRUE],
              IF s.failed THEN "none" ELSE "failed", TRUE)
-------------------------------------------------------------------------------
(* CaptureSink *)

NewCapture == [armed |-> None, open |-> None, count |-> 0, dirty |-> FALSE, failed |-> FALSE]
\* end: the file is closed, the sink disarmed, and the receipt told
Ended(c) == [c EXCEPT !.armed = None, !.dirty = FALSE, !.open = None, !.count = 0]
Receipt(c) == IF c.open = None THEN {} ELSE {[name |-> c.open, conn |-> c.armed, count |-> c.count]}

\* fault: the failure of the last connection still holds
Begun_StillFailed(c, id) == [Ended(c) EXCEPT !.armed = id]
Begun(c, id) == [Ended(c) EXCEPT !.armed = id, !.failed = FALSE]

\* A file is named after the second of its first bytes (and the mountpoint);
\* File::create truncates what is there.
Created(disk, name) ==
  [n \in DOMAIN disk \cup {name} |-> IF n = name THEN <<>> ELSE disk[n]]
-------------------------------------------------------------------------------
(* What a command does to the thread.  Beside the sinks, "log" remembers    *)
(* the captures on the disk, the receipts the user was shown, the           *)
(* connections known to have none, and what became of each sink's last      *)
(* line: written, dropped as the user knows, or dropped and nobody knows.   *)

NewLog == [events |-> NewSink(opt.events), nmea |-> NewSink(opt.nmea), cap |-> NewCapture,
           disk |-> <<>>, receipts |-> {}, refused |-> {},
           fate |-> [s \in Sinks |-> "written"]]

Fate(before, written, told) ==
  IF ~written.lost THEN "written" ELSE IF told THEN "told" ELSE
  IF before = "told" THEN "told" ELSE "untold"

\* What the thread itself reports is a line of the event log, whose own answer
\* is dropped.
Notice(l, opens) ==
  LET written == WriteLine(l.events, opens)
  IN  [l EXCEPT !.events = written.sink, !.fate["events"] = Fate(@, written, FALSE)]

\* A line, and the notice of a rollover behind it, in the fresh event log too.
Line(l, s, opens, noticeOpens) ==
  LET written == WriteLine(l[s], opens)
      after   == [l EXCEPT ![s] = written.sink, !.fate[s] = Fate(@, written, written.says = "failed")]
  IN  IF written.says = "rolled" THEN Notice(after, noticeOpens) ELSE after

\* emit: a capture's notice is an event line.
Close(l, c, opens) ==
  LET closed == [l EXCEPT !.cap = c, !.receipts = @ \cup Receipt(l.cap)]
  IN  IF l.cap.open = None THEN closed ELSE Notice(closed, opens)

\* The bytes of a command go where the sink is, whoever sent them.
Store(l, block, name) ==
  [l EXCEPT !.cap.open = name, !.cap.count = @ + 1, !.cap.dirty = TRUE,
            !.disk[name] = Append(@, block)]
Data(l, block, creates, opens) ==
  IF l.cap.open # None THEN Store(l, block, l.cap.open)
  ELSE IF l.cap.armed = None \/ l.cap.failed THEN l
  ELSE IF creates THEN Notice(Store([l EXCEPT !.disk = Created(@, clock)], block, clock), opens)
  ELSE Notice([l EXCEPT !.cap.failed = TRUE, !.refused = @ \cup {l.cap.armed}], opens)

Obeyed(l, cmd, opens, other) ==
  CASE cmd.what \in Sinks -> Line(l, cmd.what, opens, other)
    [] cmd.what = "set"   -> [l EXCEPT ![cmd.sink] = SetEnabled(@, cmd.on),
                                       !.fate[cmd.sink] = "written"]
    [] cmd.what = "begin" -> Close(l, Begun(l.cap, cmd.conn), opens)
    [] cmd.what = "data"  -> Data(l, [conn |-> cmd.conn, nth |-> cmd.nth], other, opens)
    [] cmd.what = "end"   -> Close(l, Ended(l.cap), opens)

Flushed(l) == [l EXCEPT !.events.dirty = FALSE, !.nmea.dirty = FALSE, !.cap.dirty = FALSE]
\* fault: files are flushed only when no command comes for a second
FlushAfterCommand_Idle == FALSE
\* The deadline is looked at after every command.
FlushAfterCommand == flushDue
-------------------------------------------------------------------------------
(* run *)

LoggerInit ==
  /\ opt \in [Sinks -> BOOLEAN] /\ (\A s \in Sinks \ Toggled : opt[s]) /\ snap = <<>>
  /\ chan = <<>> /\ log = NewLog /\ flushDue = FALSE /\ running = TRUE
  /\ clock = 1 /\ conn = [up |-> FALSE, sent |-> <<>>]

\* One turn of the loop that received a command.
Handle ==
  /\ running /\ chan # <<>> /\ Head(chan).what # "shutdown"
  /\ \E opens, other \in BOOLEAN :
       LET done == Obeyed(log, Head(chan), opens, other)
       IN  log' = IF FlushAfterCommand THEN Flushed(done) ELSE done
  /\ chan' = Tail(chan)
  /\ flushDue' = (flushDue /\ ~FlushAfterCommand)
  /\ UNCHANGED <<clock, running, opt, snap, conn>>

\* ... and one that waited the deadline out.
Timeout ==
  /\ running /\ chan = <<>> /\ flushDue
  /\ log' = Flushed(log) /\ flushDue' = FALSE
  /\ UNCHANGED <<chan, clock, running, opt, snap, conn>>

\* Shutdown: a capture left open is closed, everything is flushed.
Quit ==
  /\ running /\ chan # <<>> /\ Head(chan).what = "shutdown"
  /\ \E opens \in BOOLEAN : log' = Flushed(Close(log, Ended(log.cap), opens))
  /\ running' = FALSE /\ chan' = Tail(chan)
  /\ UNCHANGED <<clock, flushDue, opt, snap, conn>>

Deadline ==
  /\ running /\ ~flushDue /\ flushDue' = TRUE
  /\ UNCHANGED <<chan, log, clock, running, opt, snap, conn>>
SecondPasses ==
  /\ clock < MaxClock /\ clock' = clock + 1
  /\ UNCHANGED <<chan, log, flushDue, running, opt, snap, conn>>
-------------------------------------------------------------------------------
(* The senders.  Once the thread has ended, a send is lost.                 *)

Sends(cmds) ==
  /\ running /\ Len(chan) + Len(cmds) <= MaxQueued
  /\ chan' = chan \o cmds
  /\ UNCHANGED <<log, clock, flushDue, running>>

SetCmd(s, on) == [what |-> "set", sink |-> s, on |-> on]
\* ghost: which block of which connection it is, or comes after
CaptureCmd(what) == [what |-> what, conn |-> Len(conn'.sent), nth |-> Last(conn'.sent)]

\* Hub::event, Hub::nmea_record
SendLine(s) == Sends(<<[what |-> s]>>) /\ UNCHANGED <<opt, snap, conn>>

\* The Options dialog: a toggle takes effect at once, Cancel takes it back.
OpenOptions ==
  /\ snap = <<>> /\ snap' = <<opt>>
  /\ UNCHANGED <<chan, log, clock, flushDue, running, opt, conn>>
Toggle(s) ==
  /\ snap # <<>> /\ opt' = [opt EXCEPT ![s] = ~@]
  /\ Sends(<<SetCmd(s, ~opt[s])>>) /\ UNCHANGED <<snap, conn>>

\* fault: Cancel puts the setting back and leaves the thread as it is
RevertCmds_None == <<>>
RevertCmds ==
  LET Back(s) == IF opt[s] = snap[1][s] THEN <<>> ELSE <<SetCmd(s, snap[1][s])>>
  IN  Back("events") \o Back("nmea")
CancelOptions ==
  /\ snap # <<>> /\ opt' = snap[1] /\ snap' = <<>>
  /\ Sends(RevertCmds) /\ UNCHANGED conn
KeepOptions ==
  /\ snap # <<>> /\ snap' = <<>>
  /\ UNCHANGED <<chan, log, clock, flushDue, running, opt, conn>>

\* The NTRIP worker: a capture per connection.  Two that begin in one second
\* would share a name; a reconnect waits ten.
BeginCapture ==
  /\ ~conn.up /\ Len(conn.sent) < MaxConns
  /\ FirstBytesApart => /\ clock \notin DOMAIN log.disk
                        /\ \A i \in DOMAIN chan : chan[i].what # "data"
  /\ conn' = [up |-> TRUE, sent |-> Append(conn.sent, 0)]
  /\ Sends(<<CaptureCmd("begin")>>) /\ UNCHANGED <<opt, snap>>
CaptureBytes ==
  /\ conn.up /\ Last(conn.sent) < MaxBlocks
  /\ conn' = [conn EXCEPT !.sent[Len(conn.sent)] = @ + 1]
  /\ Sends(<<CaptureCmd("data")>>) /\ UNCHANGED <<opt, snap>>
EndCapture ==
  /\ conn.up /\ conn' = [conn EXCEPT !.up = FALSE]
  /\ Sends(<<CaptureCmd("end")>>) /\ UNCHANGED <<opt, snap>>

\* Logger::shutdown, at the exit of the application: behind the worker's last
\* command, or in the midst of them when the worker was abandoned.
Shutdown ==
  /\ \A i \in DOMAIN chan : chan[i].what # "shutdown"
  /\ Sends(<<[what |-> "shutdown"]>>) /\ UNCHANGED <<opt, snap, conn>>

Thread == Handle \/ Timeout \/ Quit
LoggerNext ==
  \/ Thread \/ Deadline \/ SecondPasses
  \/ \E s \in Sinks : SendLine(s)
  \/ \E s \in Toggled : Toggle(s)
  \/ OpenOptions \/ CancelOptions \/ KeepOptions
  \/ BeginCapture \/ CaptureBytes \/ EndCapture \/ Shutdown

\* The thread runs, and time passes.
LoggerFairness == WF_loggerVars(Thread) /\ WF_loggerVars(Deadline)
LoggerSpec == LoggerInit /\ [][LoggerNext]_loggerVars /\ LoggerFairness
-------------------------------------------------------------------------------
(* Properties *)

UnderWay(what) == \E i \in DOMAIN chan : chan[i].what = what
Blocks(c, n) == [i \in 1..n |-> [conn |-> c, nth |-> i]]

\* logging.rs, "raw correction bytes, per connection": a file the user has the
\* receipt of holds that connection's blocks and no other's, in order, as many
\* as the receipt says; and a connection that ended has its receipt for all it sent,
\* or the user knows that its file could not be made.
CapturesStand ==
  /\ \A r \in log.receipts : log.disk[r.name] = Blocks(r.conn, r.count)
  /\ running /\ chan = <<>> =>
       \A c \in DOMAIN conn.sent :
         \/ c = Len(conn.sent) /\ conn.up
         \/ conn.sent[c] = 0 \/ c \in log.refused
         \/ \E r \in log.receipts : r.conn = c /\ r.count = conn.sent[c]

\* The thread does what the Options say, however they were changed, taken
\* back and changed again, once it has caught up.
OptionsInForce ==
  running /\ ~UnderWay("set") => \A s \in Sinks : log[s].enabled = opt[s]

\* DailySink, "Suppresses repeated open-failure lines": repeated ones only.  A sink
\* that drops lines has said so.
NmeaLossIsTold  == log.fate["nmea"] # "untold"
EventLossIsTold == log.fate["events"] # "untold"

\* What the user is told of the logs is so: the options he chose are in force,
\* and a sink that cannot write has said it.
LogIsHonest == OptionsInForce /\ NmeaLossIsTold

\* logging.rs, "Writers are buffered and flushed once per second": what was
\* written is flushed though commands never stop coming.
WritesReachTheDisk ==
  (log.events.dirty \/ log.cap.dirty) ~> ~(log.events.dirty \/ log.cap.dirty)
===============================================================================
