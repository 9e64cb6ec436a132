------------------------------ MODULE NtripWorker ------------------------------
(***************************************************************************)
(* The NTRIP worker thread of crates/app/src/workers/ntrip.rs: supervise,  *)
(* connect, drive_connection and dispatch, the reconnect budget and the    *)
(* drop alert, against the thread that cancels it (NtripHandle::cancel:    *)
(* the flag first, then the shutdown of the socket found in the slot).     *)
(*                                                                         *)
(* A step ends wherever the other thread can be seen: each load of the     *)
(* cancel flag, each use of the slot and each blocking call is a step.     *)
(* The session is what SessionOutputs promises.  Left out: the push into   *)
(* the corrections queue (CorrQueue), the log lines, the statistics, the   *)
(* captures, and a connect helper that panics.                             *)
(***************************************************************************)
EXTENDS Naturals, Sequences

CONSTANT MaxAttempts    \* job.max_attempts

ASSUME MaxAttemptsAssumption == MaxAttempts \in Nat

VARIABLES kind,         \* the job: "table", "mount" or "raw"
          reconnect,    \* job.reconnect.enabled()
          pc,
          cancel,       \* the shared flag
          canceller,    \* the cancelling thread
          slot,         \* sock_slot holds the connection's socket
          sockShut,     \* the connection's socket was shut down
          attempts,     \* attempts_done
          armed,        \* alert_armed
          session, outs,
          streaming,    \* conn.streaming
          terminal,     \* how the connection ended, "none" while it lives
          status,       \* the Stopped status, "none" before
          dry,          \* ghost: connects since corrections last arrived
          table,        \* ghost: a sourcetable product was dispatched
          gaveUp        \* ghost: the user had cancelled when the connection ended

job    == <<kind, reconnect>>
shared == <<cancel, canceller, slot, sockShut>>
conn   == <<session, outs, streaming>>
vars   == <<job, pc, shared, attempts, armed, conn, terminal, status, dry, table, gaveUp>>

S == INSTANCE SessionOutputs WITH stage <- session, out <- outs

\* connect_ntrip: a table fetch is one-shot.
Init == /\ kind \in {"table", "mount", "raw"}
        /\ reconnect \in IF kind = "table" THEN {FALSE} ELSE BOOLEAN
        /\ pc = "top"
        /\ cancel = FALSE /\ canceller = "idle" /\ slot = FALSE /\ sockShut = FALSE
        /\ attempts = 0 /\ armed = FALSE
        /\ session = "open" /\ outs = <<>> /\ streaming = FALSE
        /\ terminal = "none" /\ status = "none"
        /\ dry = 0 /\ table = FALSE /\ gaveUp = FALSE

-------------------------------------------------------------------------------
(* NtripHandle::cancel: Disconnect, pressed as often as the user likes, or  *)
(* the exit of the application.                                             *)

CancelFlag == /\ canceller \in {"idle", "done"} /\ canceller' = "flagged"
              /\ cancel' = TRUE
              /\ UNCHANGED <<slot, sockShut>>

\* fault: the socket is left alone
CancelShutdown_Never == /\ canceller = "flagged" /\ canceller' = "done"
                        /\ UNCHANGED <<cancel, slot, sockShut>>
CancelShutdown == /\ canceller = "flagged" /\ canceller' = "done"
                  /\ sockShut' = (sockShut \/ slot)
                  /\ UNCHANGED <<cancel, slot>>

Canceller == /\ CancelFlag \/ CancelShutdown
             /\ UNCHANGED <<job, pc, attempts, armed, conn, terminal, status,
                            dry, table, gaveUp>>

-------------------------------------------------------------------------------
(* The ends of a connection, and what supervise makes of them *)

\* transient: UnknownResponse without a complete line is a drop ("NoLine").
Transient == {"FirstResponseTimeout", "SourcetableTimeout", "StreamSilence",
              "StreamCorrupt", "RemoteClosed", "NoLine", "Failed"}
Ends == S!Reasons \cup {"NoLine", "Failed", "FailedPermanent", "TableDone"}

\* fault: the attempts are counted one too far
BudgetLeft_OffByOne == attempts <= MaxAttempts
BudgetLeft == attempts < MaxAttempts
\* should_reconnect
Reconnectable == terminal \in Transient /\ reconnect /\ BudgetLeft

Stop(how) == pc' = "stopped" /\ status' = how
Go(to) == pc' = to /\ status' = status

\* drive_connection, or the connect before it, returns.
EndWith(end) == /\ Go("ended") /\ terminal' = end
                /\ gaveUp' = (cancel \/ sockShut)

\* The connection is classified: its slot was emptied before.  TableDone and
\* Cancelled return at once, the rest after one more look at the flag.
\* fault: no second look
GivenUp_Unseen == terminal = "Cancelled"
GivenUp == terminal = "Cancelled" \/ cancel

\* fault: the alert is only disarmed by the next connection
Disarmed_Kept == armed
Disarmed == FALSE

Verdict ==
  /\ pc = "verdict"
  /\ IF terminal = "TableDone" THEN Stop("ok") /\ armed' = armed
     ELSE IF GivenUp THEN Stop("ok") /\ armed' = armed
     ELSE /\ armed' = Disarmed
          /\ IF Reconnectable THEN Go("waiting") ELSE Stop("failed")
  /\ UNCHANGED <<job, shared, attempts, conn, terminal, dry, table, gaveUp>>

Ended == /\ pc = "ended" /\ Go("verdict")
         /\ slot' = FALSE
         /\ UNCHANGED <<job, cancel, canceller, sockShut, attempts, armed, conn,
                        terminal, dry, table, gaveUp>>

\* The reconnect delay, in slices that look at the flag.
Waiting == /\ pc = "waiting"
           /\ \/ cancel /\ Stop("ok")
              \/ ~cancel /\ Go("top")
           /\ UNCHANGED <<job, shared, attempts, armed, conn, terminal, dry,
                          table, gaveUp>>

-------------------------------------------------------------------------------
(* supervise's head, connect and await_cancellable *)

Bounded(n) == IF n > MaxAttempts + 2 THEN MaxAttempts + 2 ELSE n

\* The ConnState of the last connection is gone.
Top == /\ pc = "top"
       /\ IF cancel THEN Stop("ok") /\ UNCHANGED <<attempts, dry>>
          ELSE Go("poll") /\ attempts' = attempts + 1 /\ dry' = Bounded(dry + 1)
       /\ streaming' = FALSE
       /\ UNCHANGED <<job, shared, armed, session, outs, terminal, table, gaveUp>>

\* The flag is looked at before each slice of waiting for the helper; a result
\* may arrive in the slice after the flag went up.
Poll == /\ pc = "poll"
        /\ IF cancel THEN Stop("ok") ELSE Go("recv")
        /\ UNCHANGED <<job, shared, attempts, armed, conn, terminal, dry, table, gaveUp>>

Recv == /\ pc = "recv"
        /\ \/ Go("poll") /\ UNCHANGED <<terminal, gaveUp, sockShut>>
           \/ Go("publish") /\ sockShut' = FALSE /\ UNCHANGED <<terminal, gaveUp>>
           \/ EndWith("Failed") /\ sockShut' = sockShut
        /\ UNCHANGED <<job, cancel, canceller, slot, attempts, armed, conn, dry, table>>

\* The clone in the slot; it stays empty if the clone cannot be made.
Publish == /\ pc = "publish" /\ Go("establish")
           /\ slot' \in BOOLEAN
           /\ UNCHANGED <<job, cancel, canceller, sockShut, attempts, armed,
                          conn, terminal, dry, table, gaveUp>>

\* The read timeout, the TLS handshake (which looks at the flag) and the
\* request.  A request is smaller than an empty send buffer and does not block.
Establish ==
  /\ pc = "establish"
  /\ \/ /\ Go("dispatch") /\ terminal' = "none" /\ gaveUp' = gaveUp
        /\ session' = S!FirstStage(kind) /\ outs' = <<>> /\ streaming' = FALSE
     \/ /\ \/ cancel /\ EndWith("Cancelled")
           \/ EndWith("FailedPermanent")
           \/ EndWith("Failed")
        /\ UNCHANGED conn
  /\ UNCHANGED <<job, shared, attempts, armed, dry, table>>

-------------------------------------------------------------------------------
(* drive_connection's loop *)

\* The first Sourcetable or Close decides how the connection ends.
\* fault: the last one does
Decide_Last(end) == end
Decide(end) == IF terminal = "none" THEN end ELSE terminal

EndOf(reason) == IF reason = "UnknownResponse" THEN {reason, "NoLine"} ELSE {reason}

\* fault: the attempt budget is never renewed
OnCorrections_NoReset == UNCHANGED attempts /\ armed' = TRUE
\* on_corrections: the first of a connection end the outage.
OnCorrections == IF streaming THEN UNCHANGED <<attempts, armed>>
                 ELSE attempts' = 0 /\ armed' = TRUE

\* dispatch, one output at a time: sending a position may block.
DispatchOne ==
  /\ outs' = Tail(outs) /\ session' = session
  /\ CASE Head(outs) = "Corrections" ->
            /\ OnCorrections /\ streaming' = TRUE /\ dry' = 0 /\ pc' = pc
            /\ UNCHANGED <<terminal, table>>
       [] Head(outs) = "GgaDue" ->      \* no position to send, or one
            /\ pc' \in {pc, "writing"}
            /\ UNCHANGED <<attempts, armed, streaming, terminal, dry, table>>
       [] Head(outs) = "Sourcetable" ->
            /\ terminal' = Decide("TableDone") /\ table' = TRUE /\ pc' = pc
            /\ UNCHANGED <<attempts, armed, streaming, dry>>
       [] OTHER ->
            /\ \E end \in EndOf(Head(outs)) : terminal' = Decide(end)
            /\ pc' = pc
            /\ UNCHANGED <<attempts, armed, streaming, dry, table>>
  /\ UNCHANGED <<status, gaveUp>>

\* All dispatched: return, or let the session hear of a cancel, or read.
LoopTest ==
  /\ IF terminal # "none" THEN EndWith(terminal) /\ UNCHANGED <<session, outs>>
     ELSE IF cancel THEN /\ \E a \in S!Cancelling(session) : session' = a.to /\ outs' = a.out
                         /\ UNCHANGED <<pc, terminal, status, gaveUp>>
     ELSE Go("read") /\ UNCHANGED <<session, outs, terminal, gaveUp>>
  /\ UNCHANGED <<attempts, armed, streaming, dry, table>>

Dispatch == /\ pc = "dispatch"
            /\ IF outs = <<>> THEN LoopTest ELSE DispatchOne
            /\ UNCHANGED <<job, shared>>

\* The position is out, or the write failed; either way the scheduler is
\* re-armed and the dispatch goes on.
Write == /\ pc = "writing" /\ Go("dispatch")
         /\ UNCHANGED <<job, shared, attempts, armed, conn, terminal, dry, table, gaveUp>>

\* The read: bytes, nothing within READ_TIMEOUT, or an end of the socket, which
\* is the user's if the flag is up by then.  A tick follows.
AtEnd == IF cancel THEN S!Cancelling(session) ELSE S!RemoteClose(kind, session)

Read ==
  /\ pc = "read" /\ Go("dispatch")
  /\ \E a \in S!Bytes(kind, session) \cup S!Nothing(session) \cup AtEnd :
       \E b \in S!Tick(kind, a.to) : session' = b.to /\ outs' = a.out \o b.out
  /\ UNCHANGED <<job, shared, attempts, armed, streaming, terminal, dry, table, gaveUp>>

-------------------------------------------------------------------------------
Worker == \/ Top \/ Poll \/ Recv \/ Publish \/ Establish \/ Dispatch
          \/ Write \/ Read \/ Ended \/ Verdict \/ Waiting

Next == Canceller \/ Worker

\* The thread runs, and each of its blocking calls has a timeout, but for the
\* write of a position: only a shutdown is sure to end that one.  The
\* cancelling thread completes what it began.
Spec == /\ Init /\ [][Next]_vars
        /\ WF_vars((pc = "writing" => sockShut) /\ Worker)
        /\ WF_vars(CancelShutdown /\ Canceller)
-------------------------------------------------------------------------------
(* Properties *)

\* The first connect is not counted against a budget of zero.
Limit == IF MaxAttempts = 0 THEN 1 ELSE MaxAttempts

TypeOK ==
  /\ kind \in {"table", "mount", "raw"}
  /\ pc \in {"top", "poll", "recv", "publish", "establish", "dispatch", "writing",
             "read", "ended", "verdict", "waiting", "stopped"}
  /\ {reconnect, cancel, slot, sockShut, armed, streaming, table, gaveUp} \subseteq BOOLEAN
  /\ canceller \in {"idle", "flagged", "done"}
  /\ attempts \in 0 .. Limit /\ dry \in Nat
  /\ session \in {"open", "streaming", "done"} /\ outs \in Seq(S!Outputs)
  /\ terminal \in Ends \cup {"none"} /\ status \in {"none", "ok", "failed"}

\* supervise: however a caster answers, at most MaxAttempts connects in a row
\* bring no corrections.
RetryBudget == dry <= Limit

\* ... and an outage is ridden until then: a session that reconnects is given
\* up by itself only for a permanent end or a spent budget, and a permanent
\* end is never retried.
GivesUpRightly ==
  /\ status = "failed" /\ reconnect => terminal \notin Transient \/ dry >= MaxAttempts
  /\ pc = "waiting" => terminal \in Transient /\ reconnect

\* supervise's comment: an armed alert, where it is looked at, is exactly "a
\* healthy stream just dropped"; so retries and failed connects stay silent,
\* and every lost stream is counted.
AlertOncePerOutage == pc = "verdict" => (armed <=> streaming)

\* A connection that ended under a user who had given up rings no alert, is
\* not retried and is not reported as failed, whatever it ended with: the
\* shutdown's own end of stream is never taken for the caster's.
NoBlameAfterCancel == gaveUp => pc # "waiting" /\ status # "failed"

\* dispatch: the caster may close in the same breath as it ends its table;
\* the first output decides.
TableIsSuccess == pc = "stopped" /\ table => status = "ok"

\* NtripHandle::cancel "actually unblocks": a Disconnect ends the thread from
\* wherever it is, a write that blocks included.  Only a socket that could not
\* be cloned into the slot is out of its reach.
CancelStops == (canceller # "idle") ~> (pc = "stopped" \/ (pc = "writing" /\ ~slot))
===============================================================================
