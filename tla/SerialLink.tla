------------------------------ MODULE SerialLink ------------------------------
(***************************************************************************)
(* The serial side as the application runs it: the Connect/Disconnect      *)
(* toggle of the UI thread (ui/main_window.rs), the serial worker threads  *)
(* it spawns, cancels and joins (workers/serial.rs), the status channel    *)
(* back to the UI, and the corrections queue between a serial worker and   *)
(* the NTRIP worker, whose actions come from CorrQueue.                    *)
(*                                                                         *)
(* A worker's loop is reduced to what the queue sees of it (SerialWorker   *)
(* has the loop itself).  Opening the port is a driver call with no        *)
(* timeout and no cancellation: "slow" says whether this driver may use up *)
(* the two seconds a Disconnect waits.                                     *)
(***************************************************************************)
EXTENDS Naturals, Sequences

CONSTANTS Workers, CapArg, MaxPush, MaxAttach,   \* as in CorrQueue
          NoWorker,
          Few         \* of Workers, those there are when the driver is slow

ASSUME QueueAssumption == CapArg \in Nat /\ MaxPush \in Nat /\ MaxAttach \in Nat
ASSUME LinkAssumption == NoWorker \notin Workers /\ Few \subseteq Workers

VARIABLES active, q, overruns, cleared, delivered, ppc, inflight, seq, rejected,
          wpc, session, epoch,                   \* as in CorrQueue
          slow,       \* an open may outlast a join; as the driver is, for good
          handle,     \* App.serial: the worker the UI holds
          joining,    \* the worker the UI thread is joining, blocked
          cancel,     \* each worker's cancel flag
          life,       \* each worker thread's progress
          chan,       \* serial statuses on their way to the UI
          shown       \* the status the UI shows

CQ == INSTANCE CorrQueue

queueVars == <<active, q, overruns, cleared, delivered, ppc, inflight, seq,
               rejected, wpc, session, epoch>>
linkVars  == <<slow, handle, joining, cancel, life, chan, shown>>
vars      == <<queueVars, linkVars>>

Init == /\ CQ!Init /\ slow \in BOOLEAN
        /\ handle = NoWorker /\ joining = NoWorker
        /\ cancel = [w \in Workers |-> FALSE]
        /\ life = [w \in Workers |-> "unborn"]
        /\ chan = <<>> /\ shown = "Disconnected"

Move(w, from, to) == life[w] = from /\ life' = [life EXCEPT ![w] = to]
Post(status) == chan' = Append(chan, status)

-------------------------------------------------------------------------------
(* The UI thread; it does nothing else while it joins *)

\* A fresh thread: which of the unborn stands for it makes no difference.
Unborn == {w \in IF slow THEN Few ELSE Workers : life[w] = "unborn"}
Connect ==
  /\ joining = NoWorker /\ handle = NoWorker /\ Unborn # {}
  /\ LET w == CHOOSE w \in Unborn : TRUE
     IN Move(w, "unborn", "opening") /\ handle' = w
  /\ UNCHANGED <<queueVars, slow, joining, cancel, chan, shown>>

\* fault: the thread is told to stop and never waited for
Disconnect_NoJoin ==
  /\ joining = NoWorker /\ handle # NoWorker
  /\ cancel' = [cancel EXCEPT ![handle] = TRUE]
  /\ handle' = NoWorker
  /\ UNCHANGED <<queueVars, slow, joining, life, chan, shown>>
\* fault: the handle is dropped and joined, the flag never raised
Disconnect_NoCancel ==
  /\ joining = NoWorker /\ handle # NoWorker
  /\ joining' = handle /\ handle' = NoWorker
  /\ UNCHANGED <<queueVars, slow, cancel, life, chan, shown>>
\* Take the handle, raise the flag, start the join.
Disconnect ==
  /\ joining = NoWorker /\ handle # NoWorker
  /\ cancel' = [cancel EXCEPT ![handle] = TRUE]
  /\ joining' = handle /\ handle' = NoWorker
  /\ UNCHANGED <<queueVars, slow, life, chan, shown>>

JoinExpires == joining # NoWorker /\ life[joining] # "finished" /\ slow
\* fault: no deadline on the join
JoinReturns_Forever ==
  /\ joining # NoWorker /\ life[joining] = "finished"
  /\ joining' = NoWorker
  /\ UNCHANGED <<queueVars, slow, handle, cancel, life, chan, shown>>
\* The thread finished, or the deadline passed and the thread is abandoned.
JoinReturns ==
  /\ joining # NoWorker /\ (life[joining] = "finished" \/ JoinExpires)
  /\ joining' = NoWorker
  /\ UNCHANGED <<queueVars, slow, handle, cancel, life, chan, shown>>

\* End of every frame: a worker that ended by itself leaves the handle.
\* fault: the handle is only looked at as a closing status is drained
Reap_OnStatus ==
  /\ joining = NoWorker /\ handle # NoWorker /\ life[handle] = "finished"
  /\ chan # <<>> /\ Head(chan) = "Disconnected"
  /\ handle' = NoWorker
  /\ UNCHANGED <<queueVars, slow, joining, cancel, life, chan, shown>>
Reap ==
  /\ joining = NoWorker /\ handle # NoWorker /\ life[handle] = "finished"
  /\ handle' = NoWorker
  /\ UNCHANGED <<queueVars, slow, joining, cancel, life, chan, shown>>

\* drain_events applies the statuses in the order they were posted.
Apply ==
  /\ joining = NoWorker /\ chan # <<>>
  /\ shown' = Head(chan) /\ chan' = Tail(chan)
  /\ UNCHANGED <<queueVars, slow, handle, joining, cancel, life>>

-------------------------------------------------------------------------------
(* A serial worker thread *)

\* open_port returns; a failure is posted and the queue never touched.
OpenReturns(w) ==
  /\ \/ Move(w, "opening", "connected") /\ Post("Connected")
     \/ Move(w, "opening", "ending") /\ Post("Disconnected")
  /\ UNCHANGED <<queueVars, slow, handle, joining, cancel, shown>>

\* set_active(true) follows the post, whatever the cancel flag says by now.
SetActive(w) ==
  /\ Move(w, "connected", "draining")
  /\ CQ!Attach(w)
  /\ UNCHANGED <<slow, handle, joining, cancel, chan, shown>>

Forward(w) == life[w] = "draining" /\ CQ!Pop(w) /\ UNCHANGED linkVars

\* fault: the loop watches the port and never its flag
Leave_IgnoresCancel(w) ==
  /\ Move(w, "draining", "detached") /\ ~cancel[w]
  /\ CQ!DetachStore(w)
  /\ UNCHANGED <<slow, handle, joining, cancel, chan, shown>>
\* The loop ends on its flag or on a failure of the port, at any moment.
Leave(w) ==
  /\ Move(w, "draining", "detached")
  /\ CQ!DetachStore(w)
  /\ UNCHANGED <<slow, handle, joining, cancel, chan, shown>>

Clear(w) == CQ!DetachClear(w) /\ UNCHANGED linkVars

\* The thread posts its closing status ...
\* fault: the closing status is forgotten
Close_Silent(w) ==
  /\ wpc[w] = "out" /\ Move(w, "detached", "ending")
  /\ UNCHANGED <<queueVars, slow, handle, joining, cancel, chan, shown>>
Close(w) ==
  /\ wpc[w] = "out" /\ Move(w, "detached", "ending")
  /\ Post("Disconnected")
  /\ UNCHANGED <<queueVars, slow, handle, joining, cancel, shown>>

\* ... and the system ends it a beat later (is_finished).
Finish(w) ==
  /\ Move(w, "ending", "finished")
  /\ UNCHANGED <<queueVars, slow, handle, joining, cancel, chan, shown>>

Push == CQ!Producer /\ UNCHANGED linkVars

UI == Connect \/ Disconnect \/ JoinReturns \/ Reap \/ Apply
Thread(w) == \/ OpenReturns(w) \/ SetActive(w) \/ Forward(w)
             \/ Leave(w) \/ Clear(w) \/ Close(w) \/ Finish(w)

Next == UI \/ Push \/ \E w \in Workers : Thread(w)

\* The UI runs its frames; a worker takes its straight-line steps, and leaves
\* once cancelled (SerialWorker shows that its loop does).  The driver answers
\* an open in time, or perhaps never.  Nobody has to click, push, or unplug.
Fairness ==
  /\ WF_vars(JoinReturns) /\ WF_vars(Reap) /\ WF_vars(Apply)
  /\ WF_vars(ppc # "idle" /\ Push)
  /\ \A w \in Workers :
       /\ WF_vars(~slow /\ OpenReturns(w)) /\ WF_vars(SetActive(w))
       /\ WF_vars(cancel[w] /\ Leave(w)) /\ WF_vars(Clear(w))
       /\ WF_vars(Close(w)) /\ WF_vars(Finish(w))

Spec == Init /\ [][Next]_vars /\ Fairness
-------------------------------------------------------------------------------
(* Properties *)

Statuses == {"Connected", "Disconnected"}

TypeOK ==
  /\ CQ!TypeOK /\ slow \in BOOLEAN
  /\ {handle, joining} \subseteq Workers \cup {NoWorker}
  /\ cancel \in [Workers -> BOOLEAN]
  /\ life \in [Workers -> {"unborn", "opening", "connected", "draining",
                           "detached", "ending", "finished"}]
  /\ chan \in Seq(Statuses) /\ shown \in Statuses

Alive(w) == life[w] \notin {"unborn", "finished"}

\* The application is the disciplined user CorrQueue assumes: its workers
\* attach one at a time, so every guarantee of CorrQueue holds in the program;
\* a worker abandoned in a slow open is the exception.
QueueUsedAsIntended == CQ!Init /\ [][slow \/ CQ!Next]_queueVars

\* Once the UI has drained its channel, it shows Connected exactly while a
\* worker stands between its two posts: no late status of an earlier worker
\* has the last word, unless that one was abandoned.
ShownIsCurrent ==
  ~slow /\ chan = <<>> => (shown = "Connected" <=>
                    \E w \in Workers : life[w] \in {"connected", "draining", "detached"})

\* PushOutcome::Inactive's comment, "No serial worker attached; bytes
\* discarded by design": no push is refused while a worker is attached.
InactiveMeansNoWorker == CQ!InactiveMeansNoWorker

\* A worker nobody holds any more was told to stop, or has stopped.
NoOrphanUncancelled ==
  \A w \in Workers : Alive(w) /\ handle # w => cancel[w]

\* A Disconnect never freezes the window for good.
DisconnectReturns == joining # NoWorker ~> joining = NoWorker

\* Every cancelled worker the driver has answered, abandoned or not, ends and
\* lets go of the queue.
CancelledWorkerEnds ==
  \A w \in Workers : (cancel[w] /\ life[w] # "opening")
                       ~> (life[w] = "finished" /\ wpc[w] = "out")

\* A worker that ended by itself (failed open, USB unplug) leaves the UI able
\* to connect again.
DeadHandleReaped ==
  \A w \in Workers : (handle = w /\ life[w] = "finished") ~> handle # w

\* The three together, of every state: types, the state shown, and no worker
\* that is neither held nor told to stop.
LinkInv == TypeOK /\ ShownIsCurrent /\ NoOrphanUncancelled

\* No worker is lost and no window stuck: a cancelled worker ends, and one that
\* ended by itself is noticed.
WorkersEnd == CancelledWorkerEnds /\ DeadHandleReaped
===============================================================================
