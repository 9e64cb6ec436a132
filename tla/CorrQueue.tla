------------------------------- MODULE CorrQueue -------------------------------
(***************************************************************************)
(* The corrections queue of crates/app/src/workers/mod.rs at the grain of  *)
(* its mutex and its atomic flag: one producer (the NTRIP worker) pushes,  *)
(* serial workers attach, pop and detach.                                  *)
(*                                                                         *)
(* A critical section is one step, enabled while the mutex is free, except *)
(* push, which is split where another thread can interfere: it loads       *)
(* `active' under the mutex, and set_active stores that flag without it.   *)
(* A definition marked "fault" is a plausible slip in the one below it; no *)
(* specification uses it.                                                  *)
(***************************************************************************)
EXTENDS Naturals, Sequences

CONSTANTS Workers,      \* serial worker threads
          CapArg,       \* the argument of CorrQueue::new
          MaxPush,      \* bound: push calls in a behaviour
          MaxAttach     \* bound: attaches in a behaviour

ASSUME CapArgAssumption == CapArg \in Nat
ASSUME BoundsAssumption == MaxPush \in Nat /\ MaxAttach \in Nat

Cap == IF CapArg > 1 THEN CapArg ELSE 1

VARIABLES active,       \* the AtomicBool
          q,            \* the deque, front first
          overruns,     \* the AtomicU64
          cleared,      \* ghost: blocks a detach threw away
          delivered,    \* ghost: what the pops returned, in order
          ppc,          \* the producer inside push
          inflight,     \* the block of the latest admitted push
          seq,          \* ghost: push calls so far
          rejected,     \* ghost: pushes that returned Inactive
          wpc,          \* each serial worker's place in the queue's calls
          session,      \* ghost: the epoch each worker attached in
          epoch         \* ghost: set_active(true) calls so far

dequeVars == <<q, overruns, cleared, delivered>>
pushVars  == <<ppc, inflight, seq, rejected>>
workVars  == <<wpc, session, epoch>>
cqvars    == <<active, dequeVars, pushVars, workVars>>

NoBlock == [seq |-> 0, epoch |-> 0]

Init == /\ active = FALSE
        /\ q = <<>> /\ overruns = 0 /\ cleared = 0 /\ delivered = <<>>
        /\ ppc = "idle" /\ inflight = NoBlock /\ seq = 0 /\ rejected = 0
        /\ wpc = [w \in Workers |-> "out"]
        /\ session = [w \in Workers |-> 0] /\ epoch = 0

\* fault: `active' is loaded before the mutex is taken
MutexFree_CheckOutside == TRUE
\* From its load of `active' to its push_back, push holds the mutex.
MutexFree == ppc # "admitted"

Step(w, from, to) == wpc[w] \in from /\ wpc' = [wpc EXCEPT ![w] = to]

-------------------------------------------------------------------------------
(* The producer: push *)

\* The mutex, then the flag: a lowered one discards the block (Inactive).
PushLoad ==
  /\ ppc = "idle" /\ seq < MaxPush
  /\ seq' = seq + 1
  /\ \/ active /\ ppc' = "admitted" /\ rejected' = rejected
        /\ inflight' = [seq |-> seq + 1, epoch |-> epoch]
     \/ ~active /\ rejected' = rejected + 1 /\ UNCHANGED <<ppc, inflight>>
  /\ UNCHANGED <<active, dequeVars, workVars>>

\* fault: off by one, the deque grows past its capacity
Room_OffByOne(s) == IF Len(s) > Cap THEN Tail(s) ELSE s
\* pop_front when the deque is at its capacity.
Room(s) == IF Len(s) >= Cap THEN Tail(s) ELSE s

\* fault: the drop goes uncounted
Overrun_Silent == 0
Overrun == IF Len(q) >= Cap THEN 1 ELSE 0

\* push_back, and the guard is dropped.
PushStore ==
  /\ ppc = "admitted" /\ ppc' = "unlocked"
  /\ q' = Append(Room(q), inflight)
  /\ overruns' = overruns + Overrun
  /\ UNCHANGED <<active, cleared, delivered, inflight, seq, rejected, workVars>>

Sleepers == {w \in Workers : wpc[w] = "asleep"}

\* fault: nobody is notified
Wake_Never == wpc' = wpc
\* notify_one: a sleeping waiter wakes, if there is one.
Wake == IF Sleepers = {} THEN wpc' = wpc
        ELSE \E w \in Sleepers : wpc' = [wpc EXCEPT ![w] = "woken"]

PushNotify ==
  /\ ppc = "unlocked" /\ ppc' = "idle"
  /\ Wake
  /\ UNCHANGED <<active, dequeVars, inflight, seq, rejected, session, epoch>>

Producer == PushLoad \/ PushStore \/ PushNotify

-------------------------------------------------------------------------------
(* A serial worker: set_active(true), the pops, set_active(false) *)

Attach(w) ==
  /\ epoch < MaxAttach /\ epoch' = epoch + 1
  /\ Step(w, {"out"}, "in")
  /\ session' = [session EXCEPT ![w] = epoch + 1]
  /\ active' = TRUE
  /\ UNCHANGED <<dequeVars, pushVars>>

\* pop_front of try_pop, and of pop_timeout once it has the mutex back: a
\* block that arrives with the timeout is not left behind.
Pop(w) ==
  /\ MutexFree /\ q # <<>>
  /\ Step(w, {"in", "woken", "expired"}, "in")
  /\ q' = Tail(q)
  /\ delivered' = Append(delivered, [blk |-> Head(q), session |-> session[w]])
  /\ UNCHANGED <<active, overruns, cleared, pushVars, session, epoch>>

\* pop_timeout on an empty deque waits and gives the mutex up.
Sleep(w) ==
  /\ MutexFree /\ q = <<>>
  /\ Step(w, {"in", "woken"}, "asleep")
  /\ UNCHANGED <<active, dequeVars, pushVars, session, epoch>>

\* The timeout passes; pop_timeout returns None if the deque is still empty.
Expire(w) ==
  /\ \/ Step(w, {"asleep"}, "expired")
     \/ MutexFree /\ q = <<>> /\ Step(w, {"expired"}, "in")
  /\ UNCHANGED <<active, dequeVars, pushVars, session, epoch>>

\* set_active(false): the store, outside the mutex ...
DetachStore(w) ==
  /\ Step(w, {"in"}, "clearing")
  /\ active' = FALSE
  /\ UNCHANGED <<dequeVars, pushVars, session, epoch>>

\* fault: the flag goes down and the backlog stays
Backlog_Kept == q
Backlog == <<>>

\* ... then the clear, under it.
DetachClear(w) ==
  /\ MutexFree
  /\ Step(w, {"clearing"}, "out")
  /\ q' = Backlog
  /\ cleared' = cleared + Len(q)
  /\ UNCHANGED <<active, overruns, delivered, pushVars, session, epoch>>

\* The application keeps one serial handle, so workers attach one at a time.
\* (SerialLink drops this premise: a join that times out abandons a worker.)
Alone == \A w \in Workers : wpc[w] = "out"

Worker(w) == \/ Alone /\ Attach(w)
             \/ Pop(w) \/ Sleep(w) \/ Expire(w)
             \/ DetachStore(w) \/ DetachClear(w)

Next == Producer \/ \E w \in Workers : Worker(w)

\* A push that began ends, a notified waiter runs, a detach that began ends;
\* nobody has to push, attach or detach, and a timeout need never pass.
Fairness == /\ WF_cqvars(PushStore) /\ WF_cqvars(PushNotify)
            /\ \A w \in Workers : WF_cqvars(wpc[w] = "woken" /\ Pop(w))
                                  /\ WF_cqvars(DetachClear(w))

Spec == Init /\ [][Next]_cqvars
FairSpec == Spec /\ Fairness
-------------------------------------------------------------------------------
(* Properties *)

Attached(w) == wpc[w] \in {"in", "asleep", "woken", "expired"}

Blocks == [seq : Nat, epoch : Nat]

TypeOK == /\ active \in BOOLEAN
          /\ q \in Seq(Blocks) /\ Len(q) <= Cap
          /\ delivered \in Seq([blk : Blocks, session : Nat])
          /\ {overruns, cleared, seq, rejected, epoch} \subseteq Nat
          /\ ppc \in {"idle", "admitted", "unlocked"}
          /\ inflight \in Blocks
          /\ wpc \in [Workers -> {"out", "in", "asleep", "woken", "expired", "clearing"}]
          /\ session \in [Workers -> Nat]

\* set_active's comment: a later session never replays a stale backlog.
\* Every block a worker pops was pushed during that worker's own attachment.
NoStaleReplay ==
  \A i \in DOMAIN delivered : delivered[i].blk.epoch = delivered[i].session

\* No block vanishes from the push accounting: each call was refused,
\* delivered, counted as an overrun, cleared by a detach, is queued, or is
\* about to be.
EveryBlockAccounted ==
  seq = rejected + Len(delivered) + overruns + cleared + Len(q)
        + (IF ppc = "admitted" THEN 1 ELSE 0)

\* PushOutcome::Inactive says "No serial worker attached": push refuses no
\* block while a worker is between its attach and its detach.
InactiveMeansNoWorker ==
  [][rejected' # rejected => \A w \in Workers : ~Attached(w)]_cqvars

\* A block queued over a sleeping pop_timeout reaches it though the timeout
\* never passes.
WaiterServed == \A w \in Workers :
  (wpc[w] = "asleep" /\ q # <<>>) ~> (wpc[w] \notin {"asleep", "woken"})

\* Why NoStaleReplay holds, as an inductive invariant: only one worker is
\* inside, the flag is up exactly while it is attached, everything queued or
\* admitted belongs to its session, and nothing outlives it.
BlocksOf(e) == [seq : Nat, epoch : {e}]
Fresh == {d \in [blk : Blocks, session : Nat] : d.blk.epoch = d.session}

OneWorker == \A v, w \in Workers : wpc[v] # "out" /\ wpc[w] # "out" => v = w
CurrentSession == \A w \in Workers : wpc[w] # "out" => session[w] = epoch
FlagWhileAttached == active <=> \E w \in Workers : Attached(w)
BacklogIsCurrent == /\ q \in Seq(BlocksOf(epoch))
                    /\ ppc = "admitted" => inflight \in BlocksOf(epoch)
NothingOutlives == Alone => q = <<>> /\ ppc # "admitted"

SessionInv == /\ OneWorker /\ CurrentSession /\ FlagWhileAttached
              /\ BacklogIsCurrent /\ NothingOutlives
              /\ delivered \in Seq(Fresh)

-------------------------------------------------------------------------------
(* CorrQueue implements CorrQueueAbs: a push takes effect when it is        *)
(* admitted and a detach when it lowers the flag.                           *)

Promised == IF ~active THEN <<>>
            ELSE IF ppc = "admitted" THEN Append(Room(q), inflight) ELSE q

Abs == INSTANCE CorrQueueAbs WITH
         Capacity <- Cap, attached <- active, queue <- Promised,
         overruns <- overruns + (IF ppc = "admitted" THEN Overrun ELSE 0)

AbsSpec == Abs!Spec
===============================================================================
