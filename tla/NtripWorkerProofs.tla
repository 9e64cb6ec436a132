--------------------------- MODULE NtripWorkerProofs ---------------------------
(***************************************************************************)
(* The reconnect budget, the drop alert and the silence after a cancel,    *)
(* for every max_attempts.                                                 *)
(*                                                                         *)
(* The three rest on one invariant: the budget in use is what the ghost    *)
(* counts, the alert is armed exactly while a connection streams, and      *)
(* neither a shut socket nor a connection given up is seen before the flag.*)
(***************************************************************************)
EXTENDS NtripPosition, SequenceTheorems, TLAPS

Connected == {"establish", "dispatch", "writing", "read", "ended", "verdict"}

Budget == /\ attempts \in Nat /\ attempts <= Limit /\ dry = attempts
          /\ pc \in {"top", "waiting"} => attempts = 0 \/ attempts < MaxAttempts
          /\ streaming => attempts = 0

Alert == /\ armed \in BOOLEAN /\ streaming \in BOOLEAN
         /\ pc \in Connected => (armed <=> streaming)
         /\ pc \notin Connected \cup {"stopped"} => ~armed
         /\ pc \in {"poll", "recv", "publish", "establish"} => ~streaming

GivenUpFlag == /\ cancel \in BOOLEAN /\ sockShut \in BOOLEAN /\ gaveUp \in BOOLEAN
               /\ sockShut => cancel
               /\ canceller = "flagged" => cancel
               /\ gaveUp => cancel /\ pc \in {"ended", "verdict", "stopped"}
               /\ gaveUp => status # "failed"

Outcome == /\ status # "none" => pc = "stopped"
           /\ GivesUpRightly

IInv == Budget /\ Alert /\ GivenUpFlag /\ Outcome

\* The initial state satisfies the invariant.
LEMMA IInvInit == Init => IInv
<1> SUFFICES ASSUME Init PROVE IInv
    OBVIOUS
<1>1. Budget
  BY MaxAttemptsAssumption DEF Init, Budget, Limit
<1>2. Alert
  BY DEF Init, Alert, Connected
<1>3. GivenUpFlag /\ Outcome
  BY DEF Init, GivenUpFlag, Outcome, GivesUpRightly
<1> QED BY <1>1, <1>2, <1>3 DEF IInv

\* Every step of the worker and of the thread that cancels it preserves it.
LEMMA IInvStep == IInv /\ [Next]_vars => IInv'
<1> SUFFICES ASSUME IInv, [Next]_vars PROVE IInv'
    OBVIOUS
<1> USE MaxAttemptsAssumption
<1> USE DEF IInv, Connected, job, shared, conn, Go, Stop, EndWith
<1>1. CASE Canceller
  BY <1>1 DEF Canceller, CancelFlag, CancelShutdown, Budget, Alert, GivenUpFlag, Outcome, GivesUpRightly
<1>2. CASE Top
  <2>1. Budget'
    <3>1. CASE cancel
      BY <1>2, <3>1 DEF Top, Budget
    <3>2. CASE ~cancel
      <4>1. attempts \in Nat /\ dry = attempts /\ attempts < Limit /\ Limit \in Nat
            /\ Limit <= MaxAttempts + 1
        BY <1>2 DEF Top, Budget, Limit
      <4>2. Bounded(dry + 1) = attempts + 1
        BY <4>1 DEF Bounded
      <4>3. attempts' = attempts + 1 /\ dry' = attempts + 1 /\ pc' = "poll"
            /\ streaming' = FALSE
        BY <1>2, <3>2, <4>2 DEF Top
      <4> QED BY <4>1, <4>3 DEF Budget, Limit
    <3> QED BY <3>1, <3>2
  <2>2. Alert'
    BY <1>2 DEF Top, Alert
  <2>3. GivenUpFlag'
    BY <1>2 DEF Top, GivenUpFlag
  <2>4. Outcome'
    BY <1>2, <2>1 DEF Top, Outcome, GivesUpRightly
  <2> QED BY <2>1, <2>2, <2>3, <2>4
<1>3. CASE Poll
  BY <1>3 DEF Poll, Budget, Alert, GivenUpFlag, Outcome, GivesUpRightly
<1>4. CASE Recv
  <2>1. /\ pc = "recv" /\ pc' \in {"poll", "publish", "ended"} /\ status' = status
        /\ UNCHANGED <<reconnect, cancel, canceller, attempts, armed, streaming, dry>>
        /\ sockShut' = sockShut \/ sockShut' = FALSE
    BY <1>4 DEF Recv
  <2>2. \/ pc' = "ended" /\ gaveUp' = (cancel \/ sockShut)
        \/ gaveUp' = gaveUp
    BY <1>4 DEF Recv
  <2>3. Budget'
    BY <2>1 DEF Budget, Limit
  <2>4. Alert'
    BY <2>1 DEF Alert
  <2>5. GivenUpFlag'
    <3>1. status = "none" /\ ~gaveUp
      BY <2>1 DEF Outcome, GivenUpFlag
    <3>2. (sockShut' => cancel') /\ (canceller' = "flagged" => cancel')
          /\ cancel' \in BOOLEAN /\ sockShut' \in BOOLEAN
      <4>1. cancel' = cancel /\ canceller' = canceller
        BY <2>1
      <4>2. CASE sockShut' = sockShut
        BY <4>1, <4>2 DEF GivenUpFlag
      <4>3. CASE sockShut' = FALSE
        BY <4>1, <4>3 DEF GivenUpFlag
      <4> QED BY <2>1, <4>2, <4>3
    <3>3. gaveUp' \in BOOLEAN /\ (gaveUp' => cancel' /\ pc' = "ended")
      <4>1. CASE gaveUp' = gaveUp
        BY <3>1, <4>1 DEF GivenUpFlag
      <4>2. CASE pc' = "ended" /\ gaveUp' = (cancel \/ sockShut)
        BY <2>1, <4>2 DEF GivenUpFlag
      <4> QED BY <2>2, <4>1, <4>2
    <3> QED BY <2>1, <3>1, <3>2, <3>3 DEF GivenUpFlag
  <2>6. Outcome'
    BY <2>1 DEF Outcome, GivesUpRightly
  <2> QED BY <2>3, <2>4, <2>5, <2>6
<1>5. CASE Publish
  BY <1>5 DEF Publish, Budget, Alert, GivenUpFlag, Outcome, GivesUpRightly
<1>6. CASE Establish
  <2>1. Budget'
    BY <1>6 DEF Establish, Budget
  <2>2. Alert'
    <3>1. /\ pc = "establish" /\ pc' \in {"dispatch", "ended"} /\ armed' = armed
          /\ streaming' = FALSE \/ streaming' = streaming
      BY <1>6 DEF Establish
    <3>2. armed = FALSE /\ streaming = FALSE
      BY <3>1 DEF Alert
    <3>3. armed' = FALSE /\ streaming' = FALSE
      BY <3>1, <3>2
    <3> QED BY <3>1, <3>3 DEF Alert
  <2>3. GivenUpFlag'
    BY <1>6 DEF Establish, GivenUpFlag, Outcome
  <2>4. Outcome'
    BY <1>6 DEF Establish, Outcome, GivesUpRightly
  <2> QED BY <2>1, <2>2, <2>3, <2>4
<1>7. CASE Dispatch
  <2>1. CASE outs = <<>>
    <3>1. Budget'
      BY <1>7, <2>1 DEF Dispatch, LoopTest, Budget
    <3>2. Alert'
      BY <1>7, <2>1 DEF Dispatch, LoopTest, Alert
    <3>3. GivenUpFlag'
      <4>1. pc = "dispatch" /\ UNCHANGED <<cancel, canceller, sockShut, status>>
        BY <1>7, <2>1 DEF Dispatch, LoopTest
      <4>2. \/ pc' = "ended" /\ gaveUp' = (cancel \/ sockShut)
            \/ gaveUp' = gaveUp
        BY <1>7, <2>1 DEF Dispatch, LoopTest
      <4>3. ~gaveUp /\ status # "failed"
        BY <4>1 DEF GivenUpFlag, Outcome
      <4> QED BY <4>1, <4>2, <4>3 DEF GivenUpFlag
    <3>4. Outcome'
      BY <1>7, <2>1 DEF Dispatch, LoopTest, Outcome, GivesUpRightly
    <3> QED BY <3>1, <3>2, <3>3, <3>4
  <2>2. CASE outs # <<>>
    <3>1. pc = "dispatch" /\ pc' \in {"dispatch", "writing"}
          /\ UNCHANGED <<reconnect, cancel, canceller, sockShut, status, gaveUp>>
      BY <1>7, <2>2 DEF Dispatch, DispatchOne
    <3>2. \/ UNCHANGED <<attempts, armed, streaming, dry>>
          \/ OnCorrections /\ streaming' = TRUE /\ dry' = 0
      BY <1>7, <2>2 DEF Dispatch, DispatchOne
    <3>3. Budget'
      BY <3>1, <3>2 DEF OnCorrections, Budget, Limit
    <3>4. Alert'
      <4>1. CASE UNCHANGED <<armed, streaming>>
        BY <3>1, <4>1 DEF Alert
      <4>2. CASE OnCorrections /\ streaming' = TRUE
        <5>1. armed' = TRUE
          <6>1. CASE streaming
            BY <3>1, <4>2, <6>1 DEF OnCorrections, Alert
          <6>2. CASE ~streaming
            BY <4>2, <6>2 DEF OnCorrections
          <6> QED BY <6>1, <6>2
        <5> QED BY <3>1, <4>2, <5>1 DEF Alert
      <4> QED BY <3>2, <4>1, <4>2
    <3>5. GivenUpFlag' /\ Outcome'
      BY <3>1 DEF GivenUpFlag, Outcome, GivesUpRightly
    <3> QED BY <3>3, <3>4, <3>5
  <2> QED BY <2>1, <2>2
<1>8. CASE Write
  BY <1>8 DEF Write, Budget, Alert, GivenUpFlag, Outcome, GivesUpRightly
<1>9. CASE Read
  BY <1>9 DEF Read, Budget, Alert, GivenUpFlag, Outcome, GivesUpRightly
<1>10. CASE Ended
  BY <1>10 DEF Ended, Budget, Alert, GivenUpFlag, Outcome, GivesUpRightly
<1>11. CASE Verdict
  <2>0. pc = "verdict" /\ status = "none"
        /\ UNCHANGED <<reconnect, cancel, canceller, sockShut, attempts, streaming,
                       terminal, dry, gaveUp>>
    BY <1>11 DEF Verdict, Outcome
  <2>1. CASE terminal = "TableDone" \/ GivenUp
    <3>1. pc' = "stopped" /\ status' = "ok" /\ armed' = armed
      BY <1>11, <2>1 DEF Verdict
    <3> QED BY <2>0, <3>1 DEF Budget, Alert, GivenUpFlag, Outcome, GivesUpRightly
  <2>2. CASE terminal # "TableDone" /\ ~GivenUp
    <3>1. ~cancel /\ ~gaveUp /\ armed' = FALSE
      BY <1>11, <2>2 DEF Verdict, GivenUp, Disarmed, GivenUpFlag
    <3>2. CASE Reconnectable
      <4>1. pc' = "waiting" /\ status' = "none" /\ terminal \in Transient
            /\ reconnect /\ attempts < MaxAttempts
        BY <1>11, <2>0, <2>2, <3>2 DEF Verdict, Reconnectable, BudgetLeft
      <4> QED BY <2>0, <3>1, <4>1 DEF Budget, Alert, GivenUpFlag, Outcome, GivesUpRightly
    <3>3. CASE ~Reconnectable
      <4>1. pc' = "stopped" /\ status' = "failed"
        BY <1>11, <2>2, <3>3 DEF Verdict
      <4>2. reconnect => terminal \notin Transient \/ dry >= MaxAttempts
        BY <3>3 DEF Reconnectable, BudgetLeft, Budget
      <4> QED BY <2>0, <3>1, <4>1, <4>2 DEF Budget, Alert, GivenUpFlag, Outcome, GivesUpRightly
    <3> QED BY <3>2, <3>3
  <2> QED BY <2>1, <2>2
<1>12. CASE Waiting
  BY <1>12 DEF Waiting, Budget, Alert, GivenUpFlag, Outcome, GivesUpRightly
<1>13. CASE UNCHANGED vars
  BY <1>13 DEF vars, Budget, Alert, GivenUpFlag, Outcome, GivesUpRightly
<1> QED
  BY <1>1, <1>2, <1>3, <1>4, <1>5, <1>6, <1>7, <1>8, <1>9, <1>10, <1>11, <1>12, <1>13
     DEF Next, Worker

LEMMA IInvariant == Spec => []IInv
<1> QED BY IInvInit, IInvStep, PTL DEF Spec

\* supervise: never more than MaxAttempts connects in a row without corrections
\* (one, if the budget is zero).
THEOREM WithinBudget == Spec => []RetryBudget
<1>1. IInv => RetryBudget
  BY DEF IInv, Budget, RetryBudget
<1> QED BY IInvariant, <1>1, PTL

\* supervise: a reconnecting session stops by itself only for a permanent end or
\* a spent budget, and retries only a transient one.
THEOREM OutageIsRidden == Spec => []GivesUpRightly
<1>1. IInv => GivesUpRightly
  BY DEF IInv, Outcome
<1> QED BY IInvariant, <1>1, PTL

\* supervise: where the alert is looked at, it is armed exactly when the
\* connection that ended had brought corrections.
THEOREM OneAlertPerOutage == Spec => []AlertOncePerOutage
<1>1. IInv => AlertOncePerOutage
  BY DEF IInv, Alert, Connected, AlertOncePerOutage
<1> QED BY IInvariant, <1>1, PTL

\* supervise, NtripHandle::cancel: what ends under a cancelled session is
\* neither alerted, nor retried, nor reported as a failure.
THEOREM CancelIsQuiet == Spec => []NoBlameAfterCancel
<1>1. IInv => NoBlameAfterCancel
  BY DEF IInv, GivenUpFlag, NoBlameAfterCancel
<1> QED BY IInvariant, <1>1, PTL

-------------------------------------------------------------------------------
(* The order of the outputs *)

Stages == {"open", "streaming", "done"}

\* The types the invariant above leaves open.
Types == /\ kind \in {"table", "mount", "raw"}
         /\ reconnect \in BOOLEAN /\ slot \in BOOLEAN /\ table \in BOOLEAN
         /\ pc \in {"top", "poll", "recv", "publish", "establish", "dispatch", "writing",
                    "read", "ended", "verdict", "waiting", "stopped"}
         /\ canceller \in {"idle", "flagged", "done"}
         /\ session \in Stages /\ outs \in Seq(S!Outputs)
         /\ terminal \in Ends \cup {"none"} /\ status \in {"none", "ok", "failed"}

\* While outputs are dispatched: a table comes first, before anything decided the
\* connection's end, and a close comes last.
Orderly ==
  /\ pc \notin {"dispatch", "writing"} => outs = <<>>
  /\ \A i \in DOMAIN outs : /\ outs[i] = "Sourcetable" => i = 1 /\ terminal = "none"
                            /\ outs[i] \in S!Reasons => i = Len(outs)
  /\ pc \in {"dispatch", "writing"} /\ terminal \notin {"none", "TableDone"} => outs = <<>>
  /\ pc = "read" => terminal = "none"

\* A table decided the connection that brought it, and the worker goes straight
\* to its end.
TableInv ==
  table => /\ terminal = "TableDone"
           /\ pc \in {"dispatch", "writing", "ended", "verdict", "stopped"}
           /\ pc = "stopped" => status = "ok"

\* A table's outputs, put together.
LEMMA TableForms ==
  /\ <<"Sourcetable">> \o <<>> = <<"Sourcetable">>
  /\ <<"Sourcetable">> \o <<"RemoteClosed">> = <<"Sourcetable", "RemoteClosed">>
  /\ \A y \in {"GgaDue", "StreamSilence"} :
       <<"Corrections">> \o <<y>> = <<"Corrections", y>>
<1>1. ASSUME NEW X, NEW c \in X, NEW r \in X
      PROVE  <<c>> \o <<>> = <<c>> /\ <<c>> \o <<r>> = <<c, r>>
  <2>1. <<c>> \in Seq(X) /\ Len(<<c>>) = 1 /\ <<c>>[1] = c
        /\ <<r>> \in Seq(X) /\ Len(<<r>>) = 1 /\ <<r>>[1] = r
    OBVIOUS
  <2>2. <<c>> \o <<r>> \in Seq(X) /\ Len(<<c>> \o <<r>>) = 2
        /\ (<<c>> \o <<r>>)[1] = c /\ (<<c>> \o <<r>>)[2] = r
    BY <2>1, ConcatProperties
  <2>3. <<c, r>> \in Seq(X) /\ Len(<<c, r>>) = 2
    OBVIOUS
  <2>4. \A i \in 1 .. 2 : (<<c>> \o <<r>>)[i] = <<c, r>>[i]
    BY <2>2
  <2> QED BY <2>1, <2>2, <2>3, <2>4, SeqEqual, ConcatEmptySeq
<1>2. /\ "Sourcetable" \in S!Outputs /\ "RemoteClosed" \in S!Outputs
      /\ "Corrections" \in S!Outputs
      /\ {"GgaDue", "StreamSilence"} \subseteq S!Outputs
  BY DEF S!Outputs, S!Reasons
<1> QED BY <1>1, <1>2

\* What one read brings: nothing, one output, or corrections or a table before
\* one more output; a refused header or a position due, never both.
Lone(o, at, to) ==
  \E x \in S!Outputs : /\ o = <<x>>
                       /\ x = "UnknownResponse" => at = "open"
                       /\ x = "GgaDue" => to = "streaming"
Pair(o, to) ==
  \E x \in {"Corrections", "Sourcetable"},
     y \in {"GgaDue", "StreamSilence", "StreamCorrupt", "RemoteClosed"} :
       o = <<x, y>> /\ (y = "GgaDue" => to = "streaming")

\* The bytes of a read, or the end of the socket.
LEMMA ReadAnswers ==
  ASSUME NEW k, NEW at \in Stages,
         NEW a \in S!Bytes(k, at) \cup S!Nothing(at) \cup S!RemoteClose(k, at)
                   \cup S!Cancelling(at)
  PROVE  /\ a.to \in Stages /\ (at # "open" => a.to # "open")
         /\ \/ a.out = <<>>
            \/ a.to = "streaming" /\ a.out = <<"Corrections">>
            \/ a.to = "done" /\ (Lone(a.out, at, a.to) \/ Pair(a.out, a.to))
<1> DEFINE Fine == /\ a.to \in Stages /\ (at # "open" => a.to # "open")
                   /\ \/ a.out = <<>>
                      \/ a.to = "streaming" /\ a.out = <<"Corrections">>
                      \/ a.to = "done" /\ (Lone(a.out, at, a.to) \/ Pair(a.out, a.to))
<1>1. ASSUME NEW r \in S!Reasons, r = "UnknownResponse" => at = "open",
             a.to = "done", a.out = <<r>>
      PROVE  Fine
  <2>1. r \in S!Outputs /\ r # "GgaDue"
    BY DEF S!Outputs, S!Reasons
  <2> QED BY <1>1, <2>1 DEF Lone, Stages
<1>2. ASSUME NEW R, R \subseteq S!Reasons, "UnknownResponse" \in R => at = "open",
             a \in S!Closes(R)
      PROVE  Fine
  <2>1. PICK r \in R : a.to = "done" /\ a.out = <<r>>
    BY <1>2 DEF S!Closes, S!Answer
  <2> QED BY <1>1, <1>2, <2>1
<1>3. ASSUME a \in S!StreamBytes PROVE Fine
  <2>1. CASE a \in {S!Answer("streaming", <<>>), S!Answer("streaming", <<"Corrections">>)}
    <3>1. a.to = "streaming" /\ (a.out = <<>> \/ a.out = <<"Corrections">>)
      BY <2>1 DEF S!Answer
    <3> QED BY <3>1 DEF Stages
  <2>2. CASE a \in {S!Answer("done", <<"Corrections", r>>) : r \in {"StreamCorrupt", "RemoteClosed"}}
    <3>1. PICK r \in {"StreamCorrupt", "RemoteClosed"} :
            a.to = "done" /\ a.out = <<"Corrections", r>>
      BY <2>2 DEF S!Answer
    <3>2. Pair(a.out, a.to)
      BY <3>1 DEF Pair
    <3> QED BY <3>1, <3>2 DEF Stages
  <2>3. CASE a \in S!Closes({"StreamCorrupt", "RemoteClosed"})
    BY <1>2, <2>3 DEF S!Reasons
  <2> QED BY <1>3, <2>1, <2>2, <2>3 DEF S!StreamBytes
<1>4. ASSUME a \in S!Nothing(at) PROVE Fine
  BY <1>4 DEF S!Nothing, S!Answer
<1>5. ASSUME a \in S!Product(<<>>) \cup S!Product(<<"RemoteClosed">>) PROVE Fine
  <2>1. /\ <<"Sourcetable">> \o <<>> = <<"Sourcetable">>
        /\ <<"Sourcetable">> \o <<"RemoteClosed">> = <<"Sourcetable", "RemoteClosed">>
    BY TableForms
  <2>2. a.to = "done" /\ (a.out = <<"Sourcetable">> \/ a.out = <<"Sourcetable", "RemoteClosed">>)
    BY <1>5, <2>1 DEF S!Product, S!Answer
  <2>3. "Sourcetable" \in S!Outputs
    BY DEF S!Outputs
  <2>4. Lone(a.out, at, a.to) \/ Pair(a.out, a.to)
    BY <2>2, <2>3 DEF Lone, Pair
  <2> QED BY <2>2, <2>4 DEF Stages
<1>6. /\ {"Unauthorized", "UnknownResponse", "StreamCorrupt"} \subseteq S!Reasons
      /\ {"MountpointNotFound"} \subseteq S!Reasons /\ {"RemoteClosed"} \subseteq S!Reasons
      /\ {"UnknownResponse"} \subseteq S!Reasons /\ {"Cancelled"} \subseteq S!Reasons
  BY DEF S!Reasons
<1> HIDE DEF Fine
<1>7. ASSUME a \in S!Bytes(k, at) PROVE Fine
  <2>1. CASE at = "streaming"
    BY <1>3, <1>7, <2>1 DEF S!Bytes
  <2>2. CASE at = "open"
    BY <1>2, <1>3, <1>4, <1>5, <1>6, <1>7, <2>2 DEF S!Bytes
  <2>3. CASE at = "done"
    BY <1>4, <1>7, <2>3 DEF S!Bytes
  <2> QED BY <2>1, <2>2, <2>3 DEF Stages
<1>8. ASSUME a \in S!RemoteClose(k, at) PROVE Fine
  <2>1. CASE at = "streaming"
    BY <1>2, <1>6, <1>8, <2>1 DEF S!RemoteClose
  <2>2. CASE at = "open"
    BY <1>2, <1>5, <1>6, <1>8, <2>2 DEF S!RemoteClose
  <2>3. CASE at = "done"
    BY <1>4, <1>8, <2>3 DEF S!RemoteClose
  <2> QED BY <2>1, <2>2, <2>3 DEF Stages
<1>9. ASSUME a \in S!Cancelling(at) PROVE Fine
  BY <1>2, <1>4, <1>6, <1>9 DEF S!Cancelling
<1>10. Fine
  BY <1>4, <1>7, <1>8, <1>9
<1> QED BY <1>10 DEF Fine

\* The tick that follows the read.
LEMMA TickAnswers ==
  ASSUME NEW k, NEW at \in Stages, NEW b \in S!Tick(k, at)
  PROVE  \/ b.to = at /\ b.out = <<>>
         \/ at # "done" /\ b.to = "done" /\ \E r \in S!Reasons \ {"UnknownResponse"} : b.out = <<r>>
               /\ (at = "streaming" => r = "StreamSilence")
         \/ at = "streaming" /\ b.to = at /\ b.out = <<"GgaDue">>
<1>1. CASE b \in S!Nothing(at)
  BY <1>1 DEF S!Nothing, S!Answer
<1>2. ASSUME NEW R, R \subseteq S!Reasons \ {"UnknownResponse"}, b \in S!Closes(R)
      PROVE  \E r \in R : b.to = "done" /\ b.out = <<r>>
  BY <1>2 DEF S!Closes, S!Answer
<1>3. CASE at = "streaming" /\ b \notin S!Nothing(at)
  <2>1. b \in S!Closes({"StreamSilence"}) \/ b = S!Answer(at, <<"GgaDue">>)
    BY <1>3 DEF S!Tick
  <2>2. CASE b \in S!Closes({"StreamSilence"})
    <3>1. b.to = "done" /\ b.out = <<"StreamSilence">>
      BY <2>2 DEF S!Closes, S!Answer
    <3> QED BY <1>3, <3>1 DEF S!Reasons
  <2>3. CASE b = S!Answer(at, <<"GgaDue">>)
    BY <1>3, <2>3 DEF S!Answer
  <2> QED BY <2>1, <2>2, <2>3
<1>4. CASE at = "open" /\ b \notin S!Nothing(at)
  <2>1. b \in S!Closes({"FirstResponseTimeout", "SourcetableTimeout"})
    BY <1>4 DEF S!Tick
  <2>2. {"FirstResponseTimeout", "SourcetableTimeout"} \subseteq S!Reasons \ {"UnknownResponse"}
    BY DEF S!Reasons
  <2>3. PICK r \in {"FirstResponseTimeout", "SourcetableTimeout"} :
          b.to = "done" /\ b.out = <<r>>
    BY <1>2, <2>1, <2>2
  <2> QED BY <1>4, <2>2, <2>3
<1>5. CASE at = "done" /\ b \notin S!Nothing(at)
  BY <1>5 DEF S!Tick
<1> QED BY <1>1, <1>3, <1>4, <1>5 DEF Stages

\* What was read is in order.
LEMMA ReadInOrder ==
  ASSUME NEW o, NEW t, NEW u, o = <<>> \/ Lone(o, t, u) \/ Pair(o, u)
  PROVE  /\ o \in Seq(S!Outputs)
         /\ \A i \in DOMAIN o : /\ o[i] = "Sourcetable" => i = 1
                                /\ o[i] \in S!Reasons => i = Len(o)
<1>1. CASE o = <<>>
  BY <1>1
<1>2. CASE Lone(o, t, u)
  <2>1. PICK x \in S!Outputs : o = <<x>>
    BY <1>2 DEF Lone
  <2> QED BY <2>1
<1>3. CASE Pair(o, u)
  <2>1. PICK x \in {"Corrections", "Sourcetable"},
             y \in {"GgaDue", "StreamSilence", "StreamCorrupt", "RemoteClosed"} : o = <<x, y>>
    BY <1>3 DEF Pair
  <2>2. x \in S!Outputs /\ y \in S!Outputs /\ x \notin S!Reasons /\ y # "Sourcetable"
    BY DEF S!Outputs, S!Reasons
  <2> QED BY <2>1, <2>2
<1> QED BY <1>1, <1>2, <1>3

\* A whole read: the bytes or the end of the socket, then the tick.
LEMMA ReadBrings ==
  ASSUME Types, Read
  PROVE  /\ session' \in Stages /\ (session # "open" => session' # "open")
         /\ outs' = <<>> \/ Lone(outs', session, session') \/ Pair(outs', session')
<1>0. PICK a \in S!Bytes(kind, session) \cup S!Nothing(session) \cup AtEnd :
        \E b \in S!Tick(kind, a.to) : session' = b.to /\ outs' = a.out \o b.out
  BY DEF Read
<1>1. PICK b \in S!Tick(kind, a.to) : session' = b.to /\ outs' = a.out \o b.out
  BY <1>0
<1>2. a \in S!Bytes(kind, session) \cup S!Nothing(session) \cup S!RemoteClose(kind, session)
            \cup S!Cancelling(session)
  BY DEF AtEnd
<1>3. /\ session \in Stages
      /\ a.to \in Stages /\ (session # "open" => a.to # "open")
      /\ \/ a.out = <<>>
         \/ a.to = "streaming" /\ a.out = <<"Corrections">>
         \/ a.to = "done" /\ (Lone(a.out, session, a.to) \/ Pair(a.out, a.to))
  BY <1>2, ReadAnswers DEF Types
<1>4. /\ "GgaDue" \in S!Outputs /\ "Corrections" \in S!Outputs
      /\ \A r \in S!Reasons : r \in S!Outputs /\ r # "GgaDue"
  BY DEF S!Outputs, S!Reasons
<1>5. a.out \in Seq(S!Outputs)
  <2>1. CASE a.out = <<"Corrections">>
    BY <1>4, <2>1
  <2>2. CASE a.out # <<"Corrections">>
    BY <1>3, <2>2, ReadInOrder
  <2> QED BY <2>1, <2>2
<1>6. CASE b.to = a.to /\ b.out = <<>>
  <2>1. outs' = a.out
    BY <1>1, <1>5, <1>6, ConcatEmptySeq
  <2>2. a.out = <<"Corrections">> => Lone(outs', session, session')
    BY <1>4, <2>1 DEF Lone
  <2> QED BY <1>1, <1>3, <1>6, <2>1, <2>2
<1>7. ASSUME a.to # "done", NEW y \in S!Outputs, y # "UnknownResponse",
             y = "GgaDue" => session' = "streaming", b.out = <<y>>,
             a.to = "streaming" => y \in {"GgaDue", "StreamSilence"}, session' \in Stages
      PROVE  Lone(outs', session, session') \/ Pair(outs', session')
  <2>1. CASE a.out = <<>>
    <3>1. outs' = <<y>>
      BY <1>1, <1>7, <2>1, ConcatEmptySeq
    <3> QED BY <1>7, <3>1 DEF Lone
  <2>2. CASE a.out = <<"Corrections">> /\ a.to = "streaming"
    <3>1. outs' = <<"Corrections", y>>
      BY <1>1, <1>7, <2>2, TableForms
    <3> QED BY <1>7, <2>2, <3>1 DEF Pair
  <2> QED BY <1>3, <1>7, <2>1, <2>2
<1>8. CASE a.to # "done" /\ b.to = "done"
           /\ \E r \in S!Reasons \ {"UnknownResponse"} :
                b.out = <<r>> /\ (a.to = "streaming" => r = "StreamSilence")
  <2>1. PICK r \in S!Reasons \ {"UnknownResponse"} :
                b.out = <<r>> /\ (a.to = "streaming" => r = "StreamSilence")
    BY <1>8
  <2>2. session' = "done" /\ session' \in Stages
    BY <1>1, <1>8 DEF Stages
  <2> QED BY <1>4, <1>7, <1>8, <2>1, <2>2
<1>9. CASE a.to = "streaming" /\ b.to = a.to /\ b.out = <<"GgaDue">>
  <2>1. session' = "streaming" /\ session' \in Stages
    BY <1>1, <1>9 DEF Stages
  <2> QED BY <1>4, <1>7, <1>9, <2>1
<1> QED BY <1>3, <1>6, <1>8, <1>9, TickAnswers

\* What is left after one output is in order still.
LEMMA TailInOrder ==
  ASSUME outs \in Seq(S!Outputs), outs # <<>>, Orderly,
         outs' = Tail(outs)
  PROVE  /\ outs' \in Seq(S!Outputs)
         /\ \A i \in DOMAIN outs' : /\ outs'[i] # "Sourcetable"
                                    /\ outs'[i] \in S!Reasons => i = Len(outs')
         /\ Head(outs) \in S!Outputs
         /\ Head(outs) = outs[1] /\ 1 \in DOMAIN outs
         /\ Head(outs) \in S!Reasons => outs' = <<>>
<1>1. /\ Head(outs) \in S!Outputs /\ Tail(outs) \in Seq(S!Outputs)
      /\ Len(Tail(outs)) = Len(outs) - 1 /\ Len(outs) \in Nat \ {0}
      /\ \A i \in 1 .. Len(Tail(outs)) : Tail(outs)[i] = outs[i + 1]
  BY HeadTailProperties, EmptySeq, LenProperties
<1>2. DOMAIN outs = 1 .. Len(outs) /\ DOMAIN outs' = 1 .. Len(outs')
  BY <1>1, LenProperties
<1>3. \A i \in DOMAIN outs' : outs'[i] = outs[i + 1] /\ i + 1 \in DOMAIN outs /\ i + 1 # 1
  BY <1>1, <1>2
<1>4. \A i \in DOMAIN outs' : /\ outs'[i] # "Sourcetable"
                              /\ outs'[i] \in S!Reasons => i = Len(outs')
  BY <1>1, <1>2, <1>3 DEF Orderly
<1>5. Head(outs) = outs[1] /\ 1 \in DOMAIN outs
  BY <1>1, <1>2
<1>6. Head(outs) \in S!Reasons => outs' = <<>>
  <2>1. Head(outs) \in S!Reasons => Len(outs') = 0
    BY <1>1, <1>5 DEF Orderly
  <2> QED BY <1>1, <2>1, EmptySeq
<1> QED BY <1>1, <1>4, <1>5, <1>6

LEMMA FlagTypes ==
  Types /\ [Next]_vars => reconnect' \in BOOLEAN /\ slot' \in BOOLEAN /\ table' \in BOOLEAN
BY Zenon DEF Types, Next, vars, job, shared, Canceller, CancelFlag, CancelShutdown, Worker,
   Top, Poll, Recv, Publish, Establish, Dispatch, LoopTest, DispatchOne, Write, Read,
   Ended, Verdict, Waiting

OrderInv == Types /\ Orderly /\ TableInv

\* A step that brings no output and dispatches none.
LEMMA QuietStep ==
  ASSUME OrderInv, [Next]_vars, outs' = outs, pc \notin {"dispatch", "writing"},
         pc' \notin {"dispatch", "writing"},
         kind' = kind, session' \in Stages, table' = table,
         pc' \in {"top", "poll", "recv", "publish", "establish", "read", "ended",
                  "verdict", "waiting", "stopped"},
         pc' = "read" => terminal' = "none",
         canceller' \in {"idle", "flagged", "done"},
         terminal' \in Ends \cup {"none"}, status' \in {"none", "ok", "failed"},
         table => /\ terminal' = terminal /\ pc' \in {"ended", "verdict", "stopped"}
                  /\ pc' = "stopped" => status' = "ok"
  PROVE  OrderInv'
<1>1. outs = <<>> /\ outs' = <<>>
  BY DEF OrderInv, Orderly
<1>2. Types'
  <2>1. outs' \in Seq(S!Outputs)
    BY <1>1
  <2> QED BY <2>1, FlagTypes DEF OrderInv, Types
<1>3. Orderly'
  BY <1>1 DEF Orderly
<1>4. TableInv'
  BY DEF OrderInv, TableInv
<1> QED BY <1>2, <1>3, <1>4 DEF OrderInv

LEMMA OrderStep == OrderInv /\ [Next]_vars => OrderInv'
<1> SUFFICES ASSUME OrderInv, [Next]_vars PROVE OrderInv'
    OBVIOUS
<1> USE DEF job, shared, conn, Go, Stop, EndWith
<1>0. {"Failed", "FailedPermanent", "Cancelled", "TableDone", "NoLine"} \subseteq Ends
  BY DEF Ends, S!Reasons
<1>1. CASE Canceller \/ UNCHANGED vars
  <2>1. UNCHANGED <<kind, pc, session, outs, terminal, status, table>>
    BY <1>1 DEF Canceller, vars
  <2>2. canceller' \in {"idle", "flagged", "done"}
    BY <1>1 DEF Canceller, CancelFlag, CancelShutdown, vars, OrderInv, Types
  <2>3. Types' /\ TableInv'
    BY <2>1, <2>2, FlagTypes DEF OrderInv, Types, TableInv
  <2>4. Orderly'
    BY <2>1 DEF OrderInv, Orderly
  <2> QED BY <2>3, <2>4 DEF OrderInv
<1>2. CASE Top
  <2>1. ~table
    BY <1>2 DEF Top, OrderInv, TableInv
  <2> QED BY <1>2, <2>1, QuietStep DEF Top, OrderInv, Types
<1>3. CASE Poll
  <2>1. ~table
    BY <1>3 DEF Poll, OrderInv, TableInv
  <2> QED BY <1>3, <2>1, QuietStep DEF Poll, OrderInv, Types
<1>4. CASE Recv
  <2>1. ~table
    BY <1>4 DEF Recv, OrderInv, TableInv
  <2> QED BY <1>0, <1>4, <2>1, QuietStep DEF Recv, OrderInv, Types
<1>5. CASE Publish
  <2>1. ~table
    BY <1>5 DEF Publish, OrderInv, TableInv
  <2> QED BY <1>5, <2>1, QuietStep DEF Publish, OrderInv, Types
<1>6. CASE Establish
  <2>1. ~table
    BY <1>6 DEF Establish, OrderInv, TableInv
  <2>2. CASE pc' = "dispatch"
    <3>1. /\ terminal' = "none" /\ outs' = <<>> /\ session' = S!FirstStage(kind)
          /\ UNCHANGED <<kind, canceller, status, table>>
      BY <1>6, <2>2 DEF Establish
    <3>2. session' \in Stages /\ outs' \in Seq(S!Outputs)
      BY <3>1 DEF S!FirstStage, Stages
    <3>3. Types'
      BY <2>2, <3>1, <3>2, FlagTypes DEF OrderInv, Types
    <3>4. Orderly' /\ TableInv'
      BY <2>1, <2>2, <3>1 DEF Orderly, TableInv
    <3> QED BY <3>3, <3>4 DEF OrderInv
  <2>3. CASE pc' # "dispatch"
    BY <1>0, <1>6, <2>1, <2>3, QuietStep DEF Establish, OrderInv, Types
  <2> QED BY <2>2, <2>3
<1>7. CASE Write
  <2>1. /\ UNCHANGED <<kind, canceller, session, outs, terminal, status, table>>
        /\ pc = "writing" /\ pc' = "dispatch"
    BY <1>7 DEF Write
  <2>2. Types' /\ TableInv'
    BY <2>1, FlagTypes DEF OrderInv, Types, TableInv
  <2>3. Orderly'
    BY <2>1 DEF OrderInv, Orderly
  <2> QED BY <2>2, <2>3 DEF OrderInv
<1>8. CASE Read
  <2>1. /\ UNCHANGED <<kind, canceller, terminal, status, table>>
        /\ pc = "read" /\ pc' = "dispatch" /\ terminal = "none"
    BY <1>8 DEF Read, OrderInv, Orderly
  <2>2. /\ session' \in Stages
        /\ outs' = <<>> \/ Lone(outs', session, session') \/ Pair(outs', session')
    BY <1>8, ReadBrings DEF OrderInv
  <2>3. /\ outs' \in Seq(S!Outputs)
        /\ \A i \in DOMAIN outs' : /\ outs'[i] = "Sourcetable" => i = 1
                                   /\ outs'[i] \in S!Reasons => i = Len(outs')
    BY <2>2, ReadInOrder, Zenon
  <2>4. Types' /\ TableInv'
    BY <2>1, <2>2, <2>3, FlagTypes DEF OrderInv, Types, TableInv
  <2>5. Orderly'
    BY <2>1, <2>3 DEF Orderly
  <2> QED BY <2>4, <2>5 DEF OrderInv
<1>9. CASE Ended
  BY <1>9, QuietStep DEF Ended, OrderInv, Types, TableInv
<1>10. CASE Waiting
  <2>1. ~table
    BY <1>10 DEF Waiting, OrderInv, TableInv
  <2> QED BY <1>10, <2>1, QuietStep DEF Waiting, OrderInv, Types
<1>11. CASE Verdict
  <2>1. table => pc' = "stopped" /\ status' = "ok"
    BY <1>11 DEF Verdict, OrderInv, TableInv
  <2> QED BY <1>11, <2>1, QuietStep DEF Verdict, OrderInv, Types, TableInv
<1>12. CASE Dispatch
  <2>1. CASE outs = <<>>
    <3>1. /\ pc = "dispatch" /\ UNCHANGED <<kind, canceller, table>> /\ LoopTest
      BY <1>12, <2>1 DEF Dispatch, LoopTest
    <3>2. CASE terminal # "none"
      <4>1. /\ pc' = "ended" /\ UNCHANGED <<session, outs, terminal, status>>
        BY <3>1, <3>2 DEF LoopTest
      <4>2. Types' /\ TableInv'
        BY <3>1, <4>1, FlagTypes DEF OrderInv, Types, TableInv
      <4>3. Orderly'
        BY <2>1, <4>1 DEF Orderly
      <4> QED BY <4>2, <4>3 DEF OrderInv
    <3>3. CASE terminal = "none" /\ cancel
      <4>1. UNCHANGED <<pc, terminal, status>>
        BY <3>1, <3>3 DEF LoopTest
      <4>2. PICK a \in S!Cancelling(session) : session' = a.to /\ outs' = a.out
        BY <3>1, <3>3 DEF LoopTest
      <4>3. CASE session = "done"
        <5>1. session' = "done" /\ outs' = <<>>
          BY <4>2, <4>3 DEF S!Cancelling, S!Nothing, S!Answer
        <5>2. outs' \in Seq(S!Outputs) /\ session' \in Stages
          BY <5>1 DEF Stages
        <5> QED BY <3>1, <3>3, <4>1, <5>1, <5>2, FlagTypes DEF OrderInv, Types, TableInv, Orderly
      <4>4. CASE session # "done"
        <5>1. session' = "done" /\ outs' = <<"Cancelled">>
          BY <4>2, <4>4 DEF S!Cancelling, S!Closes, S!Answer
        <5>2. "Cancelled" \in S!Outputs /\ "Cancelled" # "Sourcetable"
          BY DEF S!Outputs, S!Reasons
        <5>3. outs' \in Seq(S!Outputs) /\ session' \in Stages
          BY <5>1, <5>2 DEF Stages
        <5>4. Types' /\ TableInv'
          BY <3>1, <3>3, <4>1, <5>3, FlagTypes DEF OrderInv, Types, TableInv
        <5>5. Orderly'
          BY <3>1, <3>3, <4>1, <5>1 DEF Orderly
        <5> QED BY <5>4, <5>5 DEF OrderInv
      <4> QED BY <4>3, <4>4
    <3>4. CASE terminal = "none" /\ ~cancel
      <4>1. /\ pc' = "read" /\ UNCHANGED <<session, outs, terminal, status>>
        BY <3>1, <3>4 DEF LoopTest
      <4>2. Types' /\ TableInv'
        BY <3>1, <3>4, <4>1, FlagTypes DEF OrderInv, Types, TableInv
      <4>3. Orderly'
        BY <2>1, <3>4, <4>1 DEF Orderly
      <4> QED BY <4>2, <4>3 DEF OrderInv
    <3> QED BY <3>2, <3>3, <3>4
  <2>2. CASE outs # <<>>
    <3>1. /\ pc = "dispatch" /\ UNCHANGED <<kind, canceller, session, status>>
          /\ DispatchOne /\ outs' = Tail(outs)
      BY <1>12, <2>2 DEF Dispatch, DispatchOne
    <3>2. /\ outs' \in Seq(S!Outputs)
          /\ \A i \in DOMAIN outs' : /\ outs'[i] # "Sourcetable"
                                     /\ outs'[i] \in S!Reasons => i = Len(outs')
          /\ Head(outs) \in S!Outputs
          /\ Head(outs) = outs[1] /\ 1 \in DOMAIN outs
          /\ Head(outs) \in S!Reasons => outs' = <<>>
      BY <2>2, <3>1, TailInOrder DEF OrderInv, Types
    <3>3. terminal \in {"none", "TableDone"}
      BY <2>2, <3>1 DEF OrderInv, Orderly
    <3>4. CASE Head(outs) \in {"Corrections", "GgaDue"}
      <4>1. pc' \in {"dispatch", "writing"} /\ terminal' = terminal /\ table' = table
        BY <3>1, <3>4 DEF DispatchOne
      <4>2. Types' /\ TableInv'
        BY <3>1, <3>2, <4>1, FlagTypes DEF OrderInv, Types, TableInv
      <4>3. Orderly'
        BY <3>2, <3>3, <4>1 DEF Orderly
      <4> QED BY <4>2, <4>3 DEF OrderInv
    <3>5. CASE Head(outs) = "Sourcetable"
      <4>1. terminal = "none"
        BY <3>2, <3>5 DEF OrderInv, Orderly
      <4>2. pc' = "dispatch" /\ terminal' = "TableDone" /\ table' = TRUE
        BY <3>1, <3>5, <4>1 DEF DispatchOne, Decide
      <4>3. Types' /\ TableInv'
        BY <1>0, <3>1, <3>2, <4>2, FlagTypes DEF OrderInv, Types, TableInv
      <4>4. Orderly'
        BY <3>2, <4>2 DEF Orderly
      <4> QED BY <4>3, <4>4 DEF OrderInv
    <3>6. CASE Head(outs) \notin {"Corrections", "GgaDue", "Sourcetable"}
      <4>1. Head(outs) \in S!Reasons /\ outs' = <<>>
        BY <3>2, <3>6 DEF S!Outputs
      <4>2. /\ pc' = pc /\ table' = table
            /\ \E end \in EndOf(Head(outs)) : terminal' = Decide(end)
        BY <3>1, <3>6 DEF DispatchOne
      <4>3. terminal' \in Ends /\ (terminal = "TableDone" => terminal' = terminal)
        BY <1>0, <3>3, <4>1, <4>2 DEF EndOf, Decide, Ends
      <4>4. Types'
        BY <3>1, <3>2, <4>2, <4>3, FlagTypes DEF OrderInv, Types
      <4>5. TableInv'
        BY <3>1, <4>2, <4>3 DEF OrderInv, TableInv
      <4>6. Orderly'
        BY <3>1, <4>1, <4>2 DEF Orderly
      <4> QED BY <4>4, <4>5, <4>6 DEF OrderInv
    <3> QED BY <3>4, <3>5, <3>6
  <2> QED BY <2>1, <2>2
<1> QED
  BY <1>1, <1>2, <1>3, <1>4, <1>5, <1>6, <1>7, <1>8, <1>9, <1>10, <1>11, <1>12
     DEF Next, Worker

LEMMA OrderInit == Init => OrderInv
<1> SUFFICES ASSUME Init PROVE OrderInv
    OBVIOUS
<1>1. reconnect \in BOOLEAN /\ slot \in BOOLEAN /\ table \in BOOLEAN /\ ~table
  BY Zenon DEF Init
<1>2. Types
  <2>1. outs \in Seq(S!Outputs)
    BY DEF Init
  <2> QED BY <1>1, <2>1 DEF Init, Types, Stages
<1>3. Orderly /\ TableInv
  BY <1>1 DEF Init, Orderly, TableInv
<1> QED BY <1>2, <1>3 DEF OrderInv

\* The two invariants together are the worker's types and what it makes of a table.
LEMMA OrderImplies == IInv /\ OrderInv => TypeOK /\ TableIsSuccess
<1> SUFFICES ASSUME IInv, OrderInv PROVE TypeOK /\ TableIsSuccess
    OBVIOUS
<1>1. {reconnect, cancel, slot, sockShut, armed, streaming, table, gaveUp} \subseteq BOOLEAN
  BY Zenon DEF IInv, OrderInv, Types, Alert, GivenUpFlag
<1>2. attempts \in 0 .. Limit /\ dry \in Nat
  BY MaxAttemptsAssumption DEF IInv, Budget, Limit
<1>3. TypeOK
  BY <1>1, <1>2 DEF TypeOK, OrderInv, Types, Stages
<1>4. TableIsSuccess
  BY DEF OrderInv, TableInv, TableIsSuccess
<1> QED BY <1>3, <1>4

\* dispatch, supervise: a table that arrived is a success, whatever the caster
\* sent behind it and whenever the user cancelled.
THEOREM TableSucceeds == Spec => [](TypeOK /\ TableIsSuccess)
<1> QED BY IInvariant, OrderInit, OrderStep, OrderImplies, PTL DEF Spec

-------------------------------------------------------------------------------
(* What the worker says of the position, for every profile, every caster   *)
(* and every receiver.  Each step of NtripPosition is a step of the        *)
(* supervisor above, so its invariants carry over; from them, that a       *)
(* position can only go out after a verdict on the header, and that a      *)
(* close is the last thing dispatched.                                     *)

\* A position is due, under way or out only after the header was accepted: a
\* connection that asked for one is not refused any more.
SentAfterHeader ==
  sent \/ pc = "writing" \/ (\E i \in DOMAIN outs : outs[i] = "GgaDue")
    => session # "open" /\ \A i \in DOMAIN outs : outs[i] # "UnknownResponse"

\* What is claimed stays available: the slot is never emptied again.
ClaimStands == claim \in {"none", "sending"} /\ (claim = "sending" => Available)

\* The verdict on a close and the end of the connection are about the same
\* close.
Fits(end) == /\ trouble = "Starved" => end \in {"RemoteClosed", "StreamSilence"}
             /\ trouble = "Refused" => end \in {"UnknownResponse", "NoLine"}
CloseFits ==
  /\ pc \in {"dispatch", "writing", "ended", "verdict"}
  /\ terminal \in (S!Reasons \cup {"NoLine"}) \ {"Cancelled"}
  => Fits(terminal)

-------------------------------------------------------------------------------
(* The worker under it *)

\* Every step here is one of NtripWorker, or leaves it alone.
LEMMA PosStep == [PosNext]_npVars => [Next]_vars
BY DEF PosNext, npVars, vars, Receiver, PosWorker, PosEstablish, PosDispatch,
       PosWrite, PosRead, PosRest, Next, Worker

LEMMA WorkerHolds == PosSpec => [](IInv /\ OrderInv)
<1>1. PosInit => Init
  BY DEF PosInit
<1> QED BY <1>1, PosStep, IInvInit, IInvStep, OrderInit, OrderStep, PTL DEF PosSpec

\* What the run checks of the supervisor, for every budget, profile and caster:
\* the types, the budget of connects, and the table that is a success.
THEOREM SupervisorHolds == PosSpec => []SupervisorInv
<1>1. IInv /\ OrderInv => SupervisorInv
  BY OrderImplies DEF SupervisorInv, IInv, Budget, RetryBudget
<1> QED BY WorkerHolds, <1>1, PTL

\* ... and the verdicts of NtripWorker, with the position on board.
THEOREM VerdictsHold ==
  PosSpec => [](GivesUpRightly /\ AlertOncePerOutage /\ NoBlameAfterCancel)
<1>1. IInv => GivesUpRightly /\ AlertOncePerOutage /\ NoBlameAfterCancel
  BY DEF IInv, Outcome, Alert, Connected, GivenUpFlag, AlertOncePerOutage, NoBlameAfterCancel
<1> QED BY WorkerHolds, <1>1, PTL

-------------------------------------------------------------------------------
(* Types *)

PosFlags == sent \in BOOLEAN /\ answered \in BOOLEAN /\ starveNoted \in BOOLEAN
PosTyped == /\ wish \in Wish /\ slot_gga \in {"none", "noFix", "fix"}
            /\ taken \in {"manual", "noFix", "fix"}
            /\ claim \in {"none", "sending", "broken"}
            /\ trouble \in {"none", "Starved", "Refused"}
            /\ told \subseteq {"assumed", "warned", "Starved", "Refused"}

LEMMA FlagsStep == PosFlags /\ [PosNext]_npVars => PosFlags'
<1> SUFFICES ASSUME PosFlags, [PosNext]_npVars PROVE PosFlags'
  OBVIOUS
<1> USE DEF PosFlags, connPos, posVars
<1>1. CASE Receiver \/ UNCHANGED posVars
  BY <1>1, Zenon DEF Receiver
<1>2. CASE PosEstablish
  BY <1>2, Zenon DEF PosEstablish
<1>3. CASE PosDispatch
  <2>1. UNCHANGED <<sent, answered, starveNoted>>
    BY <1>3, Zenon DEF PosDispatch, OnGgaDue, Miss, OnFirstCorrections, OnClose
  <2> QED BY <2>1
<1>4. CASE PosWrite
  BY <1>4, Zenon DEF PosWrite
<1>5. CASE PosRead
  <2>1. answered' \in {answered, kind # "raw"} /\ sent' = sent
    BY <1>5, Zenon DEF PosRead
  <2>2. starveNoted' \in {starveNoted, TRUE}
    BY <1>5, Zenon DEF PosRead
  <2> QED BY <2>1, <2>2, Zenon
<1> QED BY <1>1, <1>2, <1>3, <1>4, <1>5 DEF PosNext, PosWorker, PosRest, npVars

LEMMA TypedStep == PosTyped /\ [PosNext]_npVars => PosTyped'
<1> SUFFICES ASSUME PosTyped, [PosNext]_npVars PROVE PosTyped'
  OBVIOUS
<1> USE DEF PosTyped, connPos, posVars
<1>0. ASSUME NEW v \in {"none", "Starved", "Refused"}, Reported(v)
      PROVE  /\ trouble' \in {"none", "Starved", "Refused"}
             /\ told' \subseteq {"assumed", "warned", "Starved", "Refused"}
  BY <1>0 DEF Reported
<1>1. CASE Receiver
  BY <1>1 DEF Receiver, SerialLine
<1>2. CASE PosEstablish
  BY <1>2 DEF PosEstablish
<1>3. CASE PosDispatch
  <2>1. CASE outs # <<>> /\ Head(outs) \notin {"GgaDue", "Corrections", "Sourcetable"}
    <3>1. PICK diedFast \in BOOLEAN, forbidden \in BOOLEAN :
            Reported(position_verdict(Head(outs), diedFast, forbidden))
      BY <1>3, <2>1 DEF PosDispatch, OnClose
    <3>2. position_verdict(Head(outs), diedFast, forbidden) \in {"none", "Starved", "Refused"}
      BY DEF position_verdict
    <3>3. UNCHANGED <<wish, slot_gga, taken, claim>>
      BY <1>3, <2>1 DEF PosDispatch, OnClose
    <3> QED BY <1>0, <3>1, <3>2, <3>3
  <2>2. CASE ~(outs # <<>> /\ Head(outs) \notin {"GgaDue", "Corrections", "Sourcetable"})
    <3>1. UNCHANGED <<wish, slot_gga, trouble, told>>
      BY <1>3, <2>2 DEF PosDispatch, OnGgaDue, Miss, OnFirstCorrections
    <3>2. /\ taken' \in {taken, "manual", slot_gga} /\ claim' \in {claim, "broken", gga_plan}
          /\ taken' = slot_gga => (wish.source # "manual" /\ Available) \/ taken' = taken \/ taken' = "manual"
      BY <1>3, <2>2 DEF PosDispatch, OnGgaDue, Miss, OnFirstCorrections
    <3>3. gga_plan \in {"none", "sending"}
      BY DEF gga_plan
    <3> QED BY <3>1, <3>2, <3>3 DEF Available
  <2> QED BY <2>1, <2>2
<1>4. CASE PosWrite
  BY <1>4 DEF PosWrite, Voided
<1>5. CASE PosRead
  <2>1. UNCHANGED <<wish, slot_gga, taken, claim>> /\ (Reported("Starved") \/ UNCHANGED <<trouble, told>>)
    BY <1>5, Zenon DEF PosRead
  <2> QED BY <1>0, <2>1
<1>6. CASE UNCHANGED posVars
  BY <1>6
<1> QED BY <1>1, <1>2, <1>3, <1>4, <1>5, <1>6 DEF PosNext, PosWorker, PosRest, npVars

-------------------------------------------------------------------------------
(* The verdicts *)

PosInv == /\ IInv /\ OrderInv /\ PosFlags /\ PosTyped
          /\ SentAfterHeader /\ ClaimStands /\ CloseFits /\ NoBlameOnceSent

Told == SentAfterHeader /\ ClaimStands /\ CloseFits /\ NoBlameOnceSent

\* A step that leaves the outputs and the position alone, and ends no connection
\* with a close.
LEMMA RestStep ==
  ASSUME PosInv, UNCHANGED <<outs, session, slot_gga, wish, sent, claim, trouble>>,
         pc' # "writing",
         pc' \in {"dispatch", "writing", "ended", "verdict"} =>
           \/ pc \in {"dispatch", "writing", "ended", "verdict"} /\ terminal' = terminal
           \/ terminal' \in {"Failed", "none"}
  PROVE  Told'
<1>1. SentAfterHeader' /\ ClaimStands' /\ NoBlameOnceSent'
  BY DEF PosInv, SentAfterHeader, ClaimStands, Available, manual_position_set, NoBlameOnceSent
<1>2. CloseFits'
  BY DEF PosInv, CloseFits, Fits, S!Reasons
<1> QED BY <1>1, <1>2 DEF Told

\* on_gga_due, first corrections, a table and a close.
LEMMA OutputStep ==
  ASSUME PosInv, PosDispatch, outs # <<>>
  PROVE  Told'
<1>1. /\ pc = "dispatch" /\ DispatchOne /\ outs' = Tail(outs) /\ session' = session
      /\ UNCHANGED <<wish, slot_gga>>
  BY DEF PosDispatch, Dispatch, DispatchOne
<1>2. /\ outs' \in Seq(S!Outputs)
      /\ Head(outs) \in S!Outputs
      /\ Head(outs) = outs[1] /\ 1 \in DOMAIN outs
      /\ Head(outs) \in S!Reasons => outs' = <<>>
  BY <1>1, TailInOrder DEF PosInv, OrderInv, Types
<1>3. terminal \in {"none", "TableDone"}
  BY <1>1 DEF PosInv, OrderInv, Orderly
<1>4. \A i \in DOMAIN outs' : i + 1 \in DOMAIN outs /\ outs'[i] = outs[i + 1]
  <2>1. outs \in Seq(S!Outputs)
    BY DEF PosInv, OrderInv, Types
  <2> QED BY <1>1, <2>1, HeadTailProperties, EmptySeq, LenProperties
<1>5. (\E i \in DOMAIN outs : outs[i] = "GgaDue")
        => session # "open" /\ \A i \in DOMAIN outs : outs[i] # "UnknownResponse"
  BY DEF PosInv, SentAfterHeader
<1>6. Available' <=> Available
  BY <1>1 DEF Available, manual_position_set
<1>7. SentAfterHeader' \/ sent' # sent \/ (pc' = "writing" /\ Head(outs) # "GgaDue")
  <2> SUFFICES ASSUME sent' = sent, pc' = "writing" => Head(outs) = "GgaDue",
                      sent' \/ pc' = "writing" \/ \E i \in DOMAIN outs' : outs'[i] = "GgaDue"
               PROVE  session' # "open" /\ \A i \in DOMAIN outs' : outs'[i] # "UnknownResponse"
    BY DEF SentAfterHeader
  <2>1. sent \/ \E i \in DOMAIN outs : outs[i] = "GgaDue"
    BY <1>2, <1>4
  <2>2. session # "open" /\ \A i \in DOMAIN outs : outs[i] # "UnknownResponse"
    BY <2>1 DEF PosInv, SentAfterHeader
  <2> QED BY <1>1, <1>4, <2>2
<1>8. CASE Head(outs) = "GgaDue"
  <2>1. UNCHANGED <<sent, trouble, terminal>> /\ pc' \in {"dispatch", "writing"} /\ OnGgaDue
    BY <1>1, <1>8 DEF PosDispatch, DispatchOne, OnGgaDue, Miss
  <2>2. claim' = claim
    BY <2>1 DEF OnGgaDue, Miss, PosInv, ClaimStands
  <2>3. SentAfterHeader' /\ ClaimStands'
    BY <1>6, <1>7, <1>8, <2>1, <2>2 DEF PosInv, ClaimStands
  <2>4. CloseFits' /\ NoBlameOnceSent'
    BY <1>1, <2>1 DEF PosInv, CloseFits, Fits, NoBlameOnceSent
  <2> QED BY <2>3, <2>4 DEF Told
<1>9. CASE Head(outs) = "Corrections"
  <2>1. UNCHANGED <<sent, trouble, terminal, pc>> /\ OnFirstCorrections
    BY <1>1, <1>9 DEF PosDispatch, DispatchOne, OnFirstCorrections
  <2>2. SentAfterHeader'
    BY <1>1, <1>7, <2>1
  <2>3. ClaimStands'
    BY <1>6, <2>1 DEF OnFirstCorrections, PosInv, ClaimStands, gga_plan
  <2>4. CloseFits' /\ NoBlameOnceSent'
    BY <1>1, <2>1 DEF PosInv, CloseFits, Fits, NoBlameOnceSent
  <2> QED BY <2>2, <2>3, <2>4 DEF Told
<1>10. CASE Head(outs) = "Sourcetable"
  <2>1. UNCHANGED <<sent, claim, trouble, pc>> /\ terminal' = "TableDone"
    BY <1>1, <1>3, <1>10 DEF PosDispatch, DispatchOne, connPos, Decide
  <2>2. SentAfterHeader'
    BY <1>1, <1>7, <2>1
  <2>3. ClaimStands'
    BY <1>6, <2>1 DEF PosInv, ClaimStands
  <2>4. CloseFits' /\ NoBlameOnceSent'
    BY <1>1, <2>1 DEF PosInv, CloseFits, S!Reasons, NoBlameOnceSent
  <2> QED BY <2>2, <2>3, <2>4 DEF Told
<1>11. CASE Head(outs) \notin {"GgaDue", "Corrections", "Sourcetable"}
  <2>1. UNCHANGED <<sent, claim, pc>> /\ OnClose(Head(outs))
        /\ \E end \in EndOf(Head(outs)) : terminal' = Decide(end)
    BY <1>1, <1>11 DEF PosDispatch, DispatchOne, OnClose, connPos
  <2>2. PICK diedFast \in BOOLEAN, forbidden \in BOOLEAN :
          trouble' = position_verdict(Head(outs), diedFast, forbidden)
    BY <2>1 DEF OnClose, Reported
  <2>3. /\ trouble' = "Starved" => KickShaped(Head(outs))
        /\ trouble' = "Refused" => Head(outs) = "UnknownResponse"
        /\ trouble' \in {"none", "Starved", "Refused"}
    BY <2>2 DEF position_verdict, gga_hint
  <2>4. SentAfterHeader'
    BY <1>1, <1>7, <2>1
  <2>5. ClaimStands'
    BY <1>6, <2>1 DEF PosInv, ClaimStands
  <2>6. NoBlameOnceSent'
    <3>1. sent => Head(outs) # "UnknownResponse"
      BY <1>2 DEF PosInv, SentAfterHeader
    <3> QED BY <2>1, <2>3, <3>1 DEF KickShaped, NoBlameOnceSent
  <2>7. CloseFits'
    <3>1. terminal' = "TableDone" \/ terminal' = Head(outs)
          \/ (terminal' = "NoLine" /\ Head(outs) = "UnknownResponse")
      BY <1>3, <2>1 DEF Decide, EndOf
    <3> QED BY <2>3, <3>1 DEF CloseFits, Fits, KickShaped, S!Reasons
  <2> QED BY <2>4, <2>5, <2>6, <2>7 DEF Told
<1> QED BY <1>8, <1>9, <1>10, <1>11

\* The loop's test: the connection ends, or hears of the cancel, or reads.
LEMMA LoopStep ==
  ASSUME PosInv, PosDispatch, outs = <<>>
  PROVE  Told'
<1>1. pc = "dispatch" /\ LoopTest /\ UNCHANGED <<wish, slot_gga, sent, claim, trouble>>
  BY DEF PosDispatch, Dispatch, connPos
<1>2. CASE terminal = "none" /\ cancel
  <2>1. PICK a \in S!Cancelling(session) : session' = a.to /\ outs' = a.out
    BY <1>1, <1>2 DEF LoopTest
  <2>2. /\ outs' = <<>> \/ outs' = <<"Cancelled">>
        /\ session' = "done" /\ UNCHANGED <<pc, terminal>>
    <3>1. CASE session = "done"
      BY <1>1, <1>2, <2>1, <3>1 DEF LoopTest, S!Cancelling, S!Nothing, S!Answer
    <3>2. CASE session # "done"
      BY <1>1, <1>2, <2>1, <3>2 DEF LoopTest, S!Cancelling, S!Closes, S!Answer
    <3> QED BY <3>1, <3>2
  <2>3. SentAfterHeader'
    BY <2>2 DEF SentAfterHeader
  <2>4. ClaimStands' /\ NoBlameOnceSent' /\ CloseFits'
    BY <1>1, <2>2 DEF PosInv, ClaimStands, Available, manual_position_set,
                      NoBlameOnceSent, CloseFits, Fits
  <2> QED BY <2>3, <2>4 DEF Told
<1>3. CASE ~(terminal = "none" /\ cancel)
  BY <1>1, <1>3, RestStep DEF LoopTest, Go, EndWith
<1> QED BY <1>2, <1>3

\* A read, and the suspicion that is looked at with it.
LEMMA PosReadStep ==
  ASSUME PosInv, PosRead
  PROVE  Told'
<1>1. /\ Read /\ pc = "read" /\ pc' = "dispatch" /\ terminal = "none" /\ outs = <<>>
      /\ UNCHANGED <<terminal, wish, slot_gga, sent, claim>>
  BY DEF PosRead, Read, Go, PosInv, OrderInv, Orderly
<1>2. /\ session' \in Stages /\ (session # "open" => session' # "open")
      /\ outs' = <<>> \/ Lone(outs', session, session') \/ Pair(outs', session')
  BY <1>1, ReadBrings DEF PosInv, OrderInv
<1>3. session # "open" => \A i \in DOMAIN outs' : outs'[i] # "UnknownResponse"
  <2>1. CASE Lone(outs', session, session')
    BY <2>1 DEF Lone
  <2>2. CASE Pair(outs', session')
    BY <2>2 DEF Pair
  <2> QED BY <1>2, <2>1, <2>2
<1>4. (\E i \in DOMAIN outs' : outs'[i] = "GgaDue")
        => session' # "open" /\ \A i \in DOMAIN outs' : outs'[i] # "UnknownResponse"
  <2>1. CASE Lone(outs', session, session')
    BY <2>1 DEF Lone
  <2>2. CASE Pair(outs', session')
    BY <2>2 DEF Pair
  <2> QED BY <1>2, <2>1, <2>2
<1>5. SentAfterHeader'
  <2>1. sent => session # "open"
    BY DEF PosInv, SentAfterHeader
  <2> QED BY <1>1, <1>2, <1>3, <1>4, <2>1 DEF SentAfterHeader
<1>6. ClaimStands' /\ CloseFits'
  BY <1>1 DEF PosInv, ClaimStands, Available, manual_position_set, CloseFits, S!Reasons
<1>7. NoBlameOnceSent'
  <2>1. trouble' = trouble \/ ~sent
    BY DEF PosRead, starving, Reported
  <2> QED BY <1>1, <2>1 DEF PosInv, NoBlameOnceSent
<1> QED BY <1>5, <1>6, <1>7 DEF Told

\* Every step keeps what was said of the position.
LEMMA ToldStep == PosInv /\ [PosNext]_npVars => Told'
<1> SUFFICES ASSUME PosInv, [PosNext]_npVars PROVE Told'
  OBVIOUS
<1> USE DEF job, shared, conn, connPos, posVars, Go, Stop, EndWith
<1>1. CASE Receiver
  <2>1. UNCHANGED <<outs, session, pc, terminal, wish, sent, claim, trouble>>
        /\ slot_gga' # "none"
    BY <1>1 DEF Receiver, SerialLine, vars
  <2> QED BY <2>1 DEF PosInv, Told, SentAfterHeader, ClaimStands, Available,
                      manual_position_set, CloseFits, Fits, NoBlameOnceSent
<1>2. CASE (Canceller /\ UNCHANGED posVars) \/ UNCHANGED npVars
  <2>1. UNCHANGED <<outs, session, pc, terminal, wish, slot_gga, sent, claim, trouble>>
    BY <1>2 DEF Canceller, npVars, vars
  <2> QED BY <2>1 DEF PosInv, Told, SentAfterHeader, ClaimStands, Available,
                      manual_position_set, CloseFits, Fits, NoBlameOnceSent
<1>3. CASE PosEstablish
  <2>1. CASE pc' = "dispatch"
    <3>1. /\ outs' = <<>> /\ terminal' = "none" /\ sent' = FALSE /\ claim' = "none"
      BY <1>3, <2>1 DEF PosEstablish, Establish
    <3> QED BY <2>1, <3>1 DEF Told, SentAfterHeader, ClaimStands, CloseFits,
                              NoBlameOnceSent, S!Reasons
  <2>2. CASE pc' # "dispatch"
    <3>1. /\ pc' = "ended" /\ terminal' \in {"Cancelled", "FailedPermanent", "Failed"}
          /\ UNCHANGED <<outs, session, wish, slot_gga, sent, claim, trouble>>
      BY <1>3, <2>2 DEF PosEstablish, Establish
    <3> QED BY <3>1 DEF PosInv, Told, SentAfterHeader, ClaimStands, Available,
                        manual_position_set, CloseFits, NoBlameOnceSent, S!Reasons
  <2> QED BY <2>1, <2>2
<1>4. CASE PosDispatch
  BY <1>4, OutputStep, LoopStep
<1>5. CASE PosWrite
  <2>1. /\ pc = "writing" /\ pc' = "dispatch"
        /\ UNCHANGED <<outs, session, terminal, wish, slot_gga, claim>>
        /\ (sent' = TRUE /\ trouble' = "none") \/ UNCHANGED <<sent, trouble>>
    BY <1>5 DEF PosWrite, Write, Voided, PosInv, NoBlameOnceSent
  <2>2. SentAfterHeader'
    BY <2>1 DEF PosInv, SentAfterHeader
  <2>3. ClaimStands' /\ CloseFits' /\ NoBlameOnceSent'
    BY <2>1 DEF PosInv, ClaimStands, Available, manual_position_set, CloseFits, Fits,
                NoBlameOnceSent
  <2> QED BY <2>2, <2>3 DEF Told
<1>6. CASE PosRead
  BY <1>6, PosReadStep
<1>7. CASE PosRest
  <2>1. UNCHANGED <<outs, session, slot_gga, wish, sent, claim, trouble>> /\ pc' # "writing"
    BY <1>7 DEF PosRest, Top, Poll, Recv, Publish, Ended, Verdict, Waiting
  <2>2. pc' \in {"dispatch", "writing", "ended", "verdict"} =>
           \/ pc \in {"dispatch", "writing", "ended", "verdict"} /\ terminal' = terminal
           \/ terminal' \in {"Failed", "none"}
    BY <1>7 DEF PosRest, Top, Poll, Recv, Publish, Ended, Verdict, Waiting
  <2> QED BY <2>1, <2>2, RestStep
<1> QED BY <1>1, <1>2, <1>3, <1>4, <1>5, <1>6, <1>7 DEF PosNext, PosWorker

LEMMA PosInvInit == PosInit => PosInv
<1> SUFFICES ASSUME PosInit PROVE PosInv
  OBVIOUS
<1>1. IInv /\ OrderInv
  BY IInvInit, OrderInit DEF PosInit
<1>2. PosFlags /\ PosTyped
  BY WishesAssumption DEF PosInit, PosFlags, PosTyped
<1>3. SentAfterHeader /\ ClaimStands /\ CloseFits /\ NoBlameOnceSent
  BY DEF PosInit, Init, SentAfterHeader, ClaimStands, CloseFits, NoBlameOnceSent, S!Reasons
<1> QED BY <1>1, <1>2, <1>3 DEF PosInv

\* on_gga_due, gga_plan, dispatch: once a position is out, nothing of its
\* connection blames its absence; a claim of sending is never contradicted; and
\* the hint a closed connection leaves is about its own close.
THEOREM PositionIsTrue == PosSpec => []PositionWords
<1>1. PosInv /\ [PosNext]_npVars => PosInv'
  BY PosStep, IInvStep, OrderStep, FlagsStep, TypedStep, ToldStep DEF PosInv, Told
<1>2. PosInv => PositionWords
  <2> SUFFICES ASSUME PosInv PROVE PositionWords
    OBVIOUS
  <2>1. {sent, answered, starveNoted} \subseteq BOOLEAN
    BY Zenon DEF PosInv, PosFlags
  <2>2. PosTypeOK
    BY <2>1 DEF PosInv, PosTyped, PosTypeOK
  <2>3. NoBlameOnceSent /\ PlanIsFact /\ BlameFitsTheClose
    BY DEF PosInv, ClaimStands, PlanIsFact, CloseFits, Fits, BlameFitsTheClose
  <2> QED BY <2>2, <2>3 DEF PositionWords
<1> QED BY PosInvInit, <1>1, <1>2, PTL DEF PosSpec
===============================================================================
