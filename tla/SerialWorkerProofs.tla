-------------------------- MODULE SerialWorkerProofs --------------------------
(***************************************************************************)
(* The latency of a cancel and the torn frame, for every queue bound,      *)
(* block length and number of auto-config commands.                        *)
(*                                                                         *)
(* LoopInv is not inductive: a call that ends late must be known to be the *)
(* only one since the flag was last seen down.  LateBudget says how many   *)
(* late calls each program point may have behind it, and TornFrame who     *)
(* stops the loop once a block was left unfinished.                        *)
(***************************************************************************)
EXTENDS SerialWorker, TLAPS

\* TypeOK in two parts: the three flags, and the rest.
Flags == cancel \in BOOLEAN /\ failed \in BOOLEAN /\ cut \in BOOLEAN
Typed == /\ pc \in {"opening", "config", "loop", "drain", "block", "write",
                    "read", "closing", "ended"}
         /\ qlen \in 0 .. Cap /\ rest \in 0 .. BlockLen
         /\ cmds \in 0 .. Commands /\ late \in Nat

\* A call counts as late only after the cancel.  The commands take no notice
\* of it, so each one sent is one less to send; a write is begun with the flag
\* down, and the read follows it without another test.
LateBudget == /\ ~cancel => late = 0
              /\ pc = "opening" => late = 0 /\ cmds = Commands
              /\ pc = "config" => late + cmds <= Commands
              /\ pc = "write" => late = 0
              /\ pc \in {"drain", "block", "read"} => late <= 1
              /\ late <= LateBound

\* A torn block leaves the error or the cancel that tore it behind; only the
\* cancel lets the loop body finish, and there the drain takes no other block.
TornFrame == cut => \/ pc \in {"loop", "closing", "ended"} /\ (failed \/ cancel)
                    \/ pc \in {"drain", "read"} /\ cancel

IInv == Flags /\ Typed /\ LateBudget /\ TornFrame

\* The late-call bound is a number of at least two calls and no fewer than the
\* auto-config commands.
LEMMA LateBoundNat ==
  LateBound \in Nat /\ LateBound >= 2 /\ LateBound >= Commands
BY WorkerAssumption DEF LateBound

\* The initial state satisfies the invariant.
LEMMA IInvInit == Init => IInv
<1> SUFFICES ASSUME Init PROVE IInv
    OBVIOUS
<1> USE WorkerAssumption, LateBoundNat DEF Init
<1>1. Flags
  BY Zenon DEF Flags
<1>2. Typed
  BY DEF Typed
<1>3. LateBudget
  BY DEF LateBudget
<1>4. TornFrame
  BY DEF TornFrame
<1> QED BY <1>1, <1>2, <1>3, <1>4 DEF IInv

\* Every step of the worker, the producer and the user preserves the types.
LEMMA FlagsStep == Flags /\ [Next]_vars => Flags'
<1> SUFFICES ASSUME Flags, [Next]_vars PROVE Flags'
    OBVIOUS
<1> USE DEF Flags, Goto, Partial
<1>1. CASE Push
  BY <1>1, Zenon DEF Push
<1>2. CASE Cancel
  BY <1>2, Zenon DEF Cancel
<1>3. CASE Open
  BY <1>3, Zenon DEF Open
<1>4. CASE Command
  BY <1>4, Zenon DEF Command
<1>5. CASE Configured
  BY <1>5, Zenon DEF Configured
<1>6. CASE LoopTest
  BY <1>6, Zenon DEF LoopTest
<1>7. CASE Drain
  BY <1>7, Zenon DEF Drain
<1>8. CASE BlockTest
  BY <1>8, Zenon DEF BlockTest
<1>9. CASE Write
  BY <1>9, Zenon DEF Write, WriteFails
<1>10. CASE Read
  BY <1>10, Zenon DEF Read
<1>11. CASE Close
  BY <1>11, Zenon DEF Close
<1>12. CASE UNCHANGED vars
  BY <1>12, Zenon DEF vars
<1> QED BY <1>1, <1>2, <1>3, <1>4, <1>5, <1>6, <1>7, <1>8, <1>9, <1>10, <1>11,
           <1>12 DEF Next, Worker

\* ... and the rest of the invariant.
LEMMA IInvStep == IInv /\ [Next]_vars => IInv'
<1> SUFFICES ASSUME IInv, [Next]_vars PROVE IInv'
    OBVIOUS
<1> USE WorkerAssumption, LateBoundNat
<1> USE DEF IInv, Typed, LateBudget, TornFrame, Goto
<1>0. Flags'
  BY FlagsStep
<1>1. CASE Push
  BY <1>0, <1>1 DEF Push
<1>2. CASE Cancel
  BY <1>0, <1>2 DEF Cancel
<1>3. CASE Open
  BY <1>0, <1>3 DEF Open
<1>4. CASE Command
  <2>1. Typed'
    BY <1>4 DEF Command, CallEnds
  <2>2. LateBudget'
    BY <1>4 DEF Command, CallEnds
  <2>3. TornFrame'
    BY <1>4 DEF Command, CallEnds
  <2> QED BY <1>0, <2>1, <2>2, <2>3
<1>5. CASE Configured
  BY <1>0, <1>5 DEF Configured
<1>6. CASE LoopTest
  BY <1>0, <1>6 DEF LoopTest
<1>7. CASE Drain
  BY <1>0, <1>7 DEF Drain
<1>8. CASE BlockTest
  <2>1. Typed'
    BY <1>8 DEF BlockTest, Partial
  <2>2. LateBudget'
    BY <1>8 DEF BlockTest, Partial
  <2>3. TornFrame'
    <3>1. ~cut
      BY <1>8, Zenon DEF BlockTest
    <3>2. rest = 0 => ~Partial
      BY DEF Partial
    <3>3. CASE rest = 0 \/ cancel
      BY <1>8, <3>1, <3>2, <3>3, Zenon DEF BlockTest
    <3>4. CASE ~(rest = 0 \/ cancel)
      BY <1>8, <3>1, <3>4, Zenon DEF BlockTest
    <3> QED BY <3>3, <3>4
  <2> QED BY <1>0, <2>1, <2>2, <2>3
<1>9. CASE Write
  <2>1. Typed'
    BY <1>9 DEF Write, WriteFails, CallEnds, Partial
  <2>2. LateBudget'
    BY <1>9 DEF Write, WriteFails, CallEnds, Partial
  <2>3. TornFrame'
    BY <1>9 DEF Write, WriteFails, CallEnds, Partial
  <2> QED BY <1>0, <2>1, <2>2, <2>3
<1>10. CASE Read
  <2>1. Typed'
    BY <1>10 DEF Read, CallEnds
  <2>2. LateBudget'
    BY <1>10 DEF Read, CallEnds
  <2>3. TornFrame'
    BY <1>10 DEF Read, CallEnds
  <2> QED BY <1>0, <2>1, <2>2, <2>3
<1>11. CASE Close
  BY <1>0, <1>11 DEF Close
<1>12. CASE UNCHANGED vars
  BY <1>0, <1>12 DEF vars
<1> QED BY <1>1, <1>2, <1>3, <1>4, <1>5, <1>6, <1>7, <1>8, <1>9, <1>10, <1>11,
           <1>12 DEF Next, Worker

LEMMA IInvHolds == Spec => []IInv
BY IInvInit, IInvStep, PTL DEF Spec

\* The loop's types, the bound on the port calls that outlive a cancel
\* (drain_corrections and forward_block test the flag, the auto-config
\* commands do not) and the torn frame that no block follows, for every
\* queue bound, block length and number of commands.
THEOREM LoopInvHolds == Spec => []LoopInv
<1>1. IInv => LoopInv
  <2> SUFFICES ASSUME IInv PROVE LoopInv
      OBVIOUS
  <2>1. {cancel, failed, cut} \subseteq BOOLEAN
    BY Zenon DEF IInv, Flags
  <2>2. late \in 0 .. LateBound + 1
    BY LateBoundNat DEF IInv, Typed, LateBudget
  <2>3. TypeOK
    BY <2>1, <2>2 DEF IInv, Typed, TypeOK
  <2>4. CancelLatency
    BY DEF IInv, LateBudget, CancelLatency
  <2>5. CutBlockIsLast
    BY DEF IInv, TornFrame, CutBlockIsLast
  <2> QED BY <2>3, <2>4, <2>5 DEF LoopInv
<1> QED BY IInvHolds, <1>1, PTL

-------------------------------------------------------------------------------
(* The way out of a cancelled worker *)

\* How many of its own steps a cancelled worker is from its end, at most.  No
\* term of it is the queue's length, nor what is left of the block.
StepsLeft == CASE pc = "ended"   -> 0
               [] pc = "closing" -> 1
               [] pc = "loop"    -> 2
               [] pc = "read"    -> 3
               [] pc = "drain"   -> 4
               [] pc = "block"   -> 5
               [] pc = "write"   -> 6
               [] pc = "config"  -> 3 + cmds
               [] OTHER          -> 4 + cmds

\* The safety half of CancelEnds, and what the comment in drain_corrections
\* asks for: once the flag is up every step of the opened worker brings its end
\* nearer, and no push, however fast the producer, puts it off.
THEOREM CancelShortensTheWay ==
  Spec => [][cancel /\ pc # "opening"
               => /\ StepsLeft \in Nat /\ StepsLeft' \in Nat
                  /\ Worker => StepsLeft' < StepsLeft
                  /\ ~Worker => StepsLeft' = StepsLeft]_vars
<1>1. ASSUME IInv, Next, cancel, pc # "opening"
      PROVE  /\ StepsLeft \in Nat /\ StepsLeft' \in Nat
             /\ Worker => StepsLeft' < StepsLeft
             /\ ~Worker => StepsLeft' = StepsLeft
  <2>1. Typed /\ Typed'
    BY <1>1, IInvStep DEF IInv
  <2>2. StepsLeft \in Nat /\ StepsLeft' \in Nat
    BY <2>1, WorkerAssumption DEF Typed, StepsLeft
  <2>3. ASSUME Worker PROVE StepsLeft' < StepsLeft
    <3> USE <1>1, <2>1, WorkerAssumption DEF Typed, StepsLeft, Goto
    <3>1. CASE Command
      BY <3>1 DEF Command
    <3>2. CASE Configured
      BY <3>2 DEF Configured
    <3>3. CASE LoopTest
      BY <3>3 DEF LoopTest
    <3>4. CASE Drain
      BY <3>4 DEF Drain
    <3>5. CASE BlockTest
      BY <3>5 DEF BlockTest
    <3>6. CASE Write
      BY <3>6 DEF Write, WriteFails
    <3>7. CASE Read
      BY <3>7 DEF Read
    <3>8. CASE Close
      BY <3>8 DEF Close
    <3> QED BY <2>3, <3>1, <3>2, <3>3, <3>4, <3>5, <3>6, <3>7, <3>8 DEF Worker, Open
  <2>4. ASSUME ~Worker PROVE StepsLeft' = StepsLeft
    BY <1>1, <2>4 DEF StepsLeft, Next, Push, Cancel
  <2> QED BY <2>2, <2>3, <2>4
<1> QED BY IInvHolds, <1>1, PTL DEF Spec
===============================================================================
