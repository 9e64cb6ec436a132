----------------------------- MODULE SerialWorker -----------------------------
(***************************************************************************)
(* One serial worker thread (workers/serial.rs: run, drain_corrections,    *)
(* forward_block) against a port whose calls succeed, make partial         *)
(* progress or fail, a user who may cancel at any time, and a producer     *)
(* that may push forever.  A block is its number of bytes still to write;  *)
(* the queue is its length (CorrQueue has its contents).                   *)
(*                                                                         *)
(* The flag test and the port call it guards are two steps: a cancel may   *)
(* fall between them.                                                      *)
(***************************************************************************)
EXTENDS Naturals

CONSTANTS Cap,          \* blocks the queue holds
          BlockLen,     \* bytes (write progress units) of a block
          Commands      \* NovAtel commands after open, 0 without autoconfig

ASSUME WorkerAssumption ==
  Cap \in Nat \ {0} /\ BlockLen \in Nat \ {0} /\ Commands \in Nat

VARIABLES pc, cancel, failed,   \* failed: `failure' is Some
          qlen,                 \* blocks queued
          rest,                 \* bytes of the current block not yet written
          cmds,                 \* commands still to send
          cut,                  \* ghost: a block was left partly written
          late                  \* ghost: port calls that ended after the cancel

vars == <<pc, cancel, failed, qlen, rest, cmds, cut, late>>

Init == /\ pc = "opening" /\ cancel = FALSE /\ failed = FALSE
        /\ qlen = 0 /\ rest = 0 /\ cmds = Commands
        /\ cut = FALSE /\ late = 0

Goto(from, to) == pc = from /\ pc' = to

\* Bound of the ghost counter: the most calls worth telling apart.
LateBound == IF Commands > 2 THEN Commands ELSE 2
CallEnds == late' = IF cancel /\ late <= LateBound THEN late + 1 ELSE late

\* fault: nothing gives way to the pushed block
Push_NoCap == /\ pc \notin {"opening", "ended"} /\ qlen <= Cap
              /\ qlen' = qlen + 1
              /\ UNCHANGED <<pc, cancel, failed, rest, cmds, cut, late>>
\* Blocks are pushed for as long as the worker is attached.
Push == /\ pc \notin {"opening", "ended"}
        /\ qlen' = IF qlen < Cap THEN qlen + 1 ELSE qlen
        /\ UNCHANGED <<pc, cancel, failed, rest, cmds, cut, late>>

Cancel == /\ ~cancel /\ cancel' = TRUE
          /\ UNCHANGED <<pc, failed, qlen, rest, cmds, cut, late>>

\* A failed open ends the thread; a successful one attaches the queue.
Open == /\ Goto("opening", "config") \/ Goto("opening", "ended")
        /\ UNCHANGED <<cancel, failed, qlen, rest, cmds, cut, late>>

\* The auto-config commands, none of them guarded by the flag; the first
\* that fails ends the worker.
Command == /\ cmds > 0
           /\ \/ Goto("config", "config") /\ cmds' = cmds - 1 /\ failed' = failed
              \/ Goto("config", "loop") /\ failed' = TRUE /\ cmds' = cmds
           /\ CallEnds
           /\ UNCHANGED <<cancel, qlen, rest, cut>>

Configured == /\ cmds = 0 /\ Goto("config", "loop")
              /\ UNCHANGED <<cancel, failed, qlen, rest, cmds, cut, late>>

\* while failure.is_none() && !cancel
LoopTest ==
  /\ IF failed \/ cancel THEN Goto("loop", "closing") ELSE Goto("loop", "drain")
  /\ UNCHANGED <<cancel, failed, qlen, rest, cmds, cut, late>>

\* drain_corrections: leave when cancelled or empty, else take a block.
\* fault: the drain goes on until the queue is empty
Drain_UntilEmpty ==
  /\ IF qlen = 0 THEN Goto("drain", "read") /\ UNCHANGED <<qlen, rest>>
     ELSE Goto("drain", "block") /\ qlen' = qlen - 1 /\ rest' = BlockLen
  /\ UNCHANGED <<cancel, failed, cmds, cut, late>>
Drain ==
  /\ IF cancel \/ qlen = 0 THEN Goto("drain", "read") /\ UNCHANGED <<qlen, rest>>
     ELSE Goto("drain", "block") /\ qlen' = qlen - 1 /\ rest' = BlockLen
  /\ UNCHANGED <<cancel, failed, cmds, cut, late>>

Partial == 0 < rest /\ rest < BlockLen

\* forward_block: back to the drain when the block is out or the user gave up.
\* fault: a block is written to its end before the flag is looked at
BlockTest_WholeBlock ==
  /\ IF rest = 0 THEN Goto("block", "drain") ELSE Goto("block", "write")
  /\ UNCHANGED <<cancel, failed, qlen, rest, cmds, cut, late>>
BlockTest ==
  /\ IF rest = 0 \/ cancel
       THEN Goto("block", "drain") /\ cut' = (cut \/ Partial)
       ELSE Goto("block", "write") /\ cut' = cut
  /\ UNCHANGED <<cancel, failed, qlen, rest, cmds, late>>

\* fault: a failed write is retried with the next block
WriteFails_Next ==
  /\ Goto("write", "drain")
  /\ cut' = (cut \/ Partial)
  /\ UNCHANGED <<failed, rest>>
\* Any error, a zero-length write and a timeout included, ends the loop.
WriteFails ==
  /\ Goto("write", "loop") /\ failed' = TRUE
  /\ cut' = (cut \/ Partial) /\ rest' = rest

Write == /\ \/ /\ Goto("write", "block") /\ rest > 0
               /\ \E n \in 1 .. rest : rest' = rest - n
               /\ UNCHANGED <<failed, cut>>
            \/ WriteFails
         /\ CallEnds
         /\ UNCHANGED <<cancel, qlen, cmds>>

\* Data or a timeout: back to the loop's head; any other error ends it.
Read == /\ Goto("read", "loop")
        /\ failed' \in {failed, TRUE}
        /\ CallEnds
        /\ UNCHANGED <<cancel, qlen, rest, cmds, cut>>

\* set_active(false) clears the queue; Disconnected is posted.
Close == /\ Goto("closing", "ended")
         /\ qlen' = 0
         /\ UNCHANGED <<cancel, failed, rest, cmds, cut, late>>

Worker == \/ Open \/ Command \/ Configured \/ LoopTest \/ Drain \/ BlockTest
          \/ Write \/ Read \/ Close

Next == Push \/ Cancel \/ Worker

\* Every port call but the open is bounded by the 50 ms port timeout, so the
\* thread keeps going; the producer and the user are free.
Spec == Init /\ [][Next]_vars /\ WF_vars(pc # "opening" /\ Worker)
-------------------------------------------------------------------------------
(* Properties *)

TypeOK == /\ pc \in {"opening", "config", "loop", "drain", "block", "write",
                     "read", "closing", "ended"}
          /\ {cancel, failed, cut} \subseteq BOOLEAN
          /\ qlen \in 0 .. Cap /\ rest \in 0 .. BlockLen /\ cmds \in 0 .. Commands
          /\ late \in 0 .. LateBound + 1

\* drain_corrections' comment: a Disconnect must not starve behind the writes,
\* however long the overrun lasts.  The producer is unrestrained here.
CancelEnds == (cancel /\ pc # "opening") ~> pc = "ended"

\* What the two seconds of a Disconnect rest on: after a cancel at most the
\* call under way and one read, or the auto-config commands, still run.
CancelLatency == pc # "opening" => late <= LateBound

\* A correction block cut short, by an error or by a cancel, is the last thing
\* written to the port: no other block follows its torn frame.
CutBlockIsLast == cut => pc \notin {"block", "write"}

\* What holds at every step of the loop: its types, the bound on what follows a
\* cancel (drain_corrections, forward_block), and nothing behind a torn frame.
LoopInv == TypeOK /\ CancelLatency /\ CutBlockIsLast
===============================================================================
