----------------------------- MODULE CorrQueueAbs -----------------------------
(***************************************************************************)
(* What the corrections queue promises (doc comments of CorrQueue in       *)
(* crates/app/src/workers/mod.rs), with every call atomic and no lock in   *)
(* sight.  A receiver session is the time from one attach to the following *)
(* detach.  Corrections pushed while no receiver is attached are refused;  *)
(* otherwise they join a bounded queue that gives up its OLDEST block when *)
(* it is full; a detach forgets the backlog.                               *)
(***************************************************************************)
EXTENDS Naturals, Sequences

CONSTANTS Capacity,     \* blocks the queue holds
          MaxPush,      \* bound: push calls in a behaviour
          MaxAttach     \* bound: receiver sessions in a behaviour

VARIABLES attached,     \* a receiver session is open
          epoch,        \* ghost: receiver sessions opened so far
          seq,          \* ghost: push calls so far
          queue,        \* the backlog, oldest block first
          overruns,     \* blocks given up to make room
          rejected,     \* ghost: pushes refused for want of a receiver
          delivered     \* ghost: the pops, in order

avars == <<attached, epoch, seq, queue, overruns, rejected, delivered>>

Bound(s) == IF Len(s) >= Capacity THEN Tail(s) ELSE s

Init == /\ attached = FALSE
        /\ epoch = 0 /\ seq = 0 /\ overruns = 0 /\ rejected = 0
        /\ queue = <<>> /\ delivered = <<>>

Push == /\ seq < MaxPush
        /\ seq' = seq + 1
        /\ IF attached
             THEN /\ queue' = Append(Bound(queue), [seq |-> seq + 1, epoch |-> epoch])
                  /\ overruns' = overruns + (IF Len(queue) >= Capacity THEN 1 ELSE 0)
                  /\ rejected' = rejected
             ELSE /\ rejected' = rejected + 1
                  /\ UNCHANGED <<queue, overruns>>
        /\ UNCHANGED <<attached, epoch, delivered>>

Attach == /\ ~attached /\ epoch < MaxAttach
          /\ attached' = TRUE
          /\ epoch' = epoch + 1
          /\ UNCHANGED <<seq, queue, overruns, rejected, delivered>>

\* The backlog goes with the session that could have used it.
Detach == /\ attached
          /\ attached' = FALSE
          /\ queue' = <<>>
          /\ UNCHANGED <<epoch, seq, overruns, rejected, delivered>>

Pop == /\ attached /\ queue # <<>>
       /\ delivered' = Append(delivered, [blk |-> Head(queue), session |-> epoch])
       /\ queue' = Tail(queue)
       /\ UNCHANGED <<attached, epoch, seq, overruns, rejected>>

Next == Push \/ Attach \/ Detach \/ Pop

Spec == Init /\ [][Next]_avars
===============================================================================
