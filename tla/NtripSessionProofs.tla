-------------------------- MODULE NtripSessionProofs --------------------------
(***************************************************************************)
(* The module invariants of session.rs and the bound on the time a session *)
(* may stay without a verdict, for every choice of the timeouts and every  *)
(* sequence of calls.                                                      *)
(***************************************************************************)
EXTENDS NtripSession, SequenceTheorems, TLAPS

LEMMA TimeoutsNat ==
  /\ FIRST_RESPONSE \in Nat /\ FIRST_RESPONSE > 0
  /\ TABLE \in Nat /\ TABLE > 0
  /\ SILENCE \in Nat /\ SILENCE > 0
  /\ Horizon \in Nat /\ FIRST_RESPONSE < Horizon /\ TABLE < Horizon
BY TimeoutsAssumption DEF Horizon

-------------------------------------------------------------------------------
(* Inertness *)

\* After Done no call emits anything and the phase stays Done.
THEOREM Inert == Spec => InertWhenDone
<1>1. [Next]_vars => [phase = "Done" => phase' = "Done" /\ out' \in {out, <<>>}]_vars
  <2> SUFFICES ASSUME Next, phase = "Done"
               PROVE  phase' = "Done" /\ out' \in {out, <<>>}
    OBVIOUS
  <2>1. CASE OnBytes
    BY <2>1 DEF OnBytes, OnStatusLine, OnHttp, OnTable, OnStream, Header, Stay, Emit
  <2>2. CASE OnTick
    BY <2>2 DEF OnTick, Expired, Header, Stay, Emit
  <2>3. CASE gga_sent \/ gga_missed
    BY <2>3 DEF gga_sent, gga_missed, Answer
  <2>4. CASE OnRemoteClose \/ Cancel
    BY <2>4 DEF OnRemoteClose, Cancel, Header, Stay, Emit
  <2>5. CASE Elapse
    BY <2>5 DEF Elapse
  <2>6. QED BY <2>1, <2>2, <2>3, <2>4, <2>5 DEF Next, Call
<1>2. QED BY <1>1, PTL DEF Spec, InertWhenDone

-------------------------------------------------------------------------------
(* The GGA scheduler *)

\* A GgaDue is outstanding exactly while the scheduler awaits its answer, and
\* never before the stream began.
GgaInv == /\ \/ owed = 0 /\ gga # "AwaitSent"
             \/ owed = 1 /\ gga = "AwaitSent"
          /\ phase \in Header => owed = 0

LEMMA GgaStep == GgaInv /\ [Next]_vars => GgaInv'
<1> SUFFICES ASSUME GgaInv, [Next]_vars PROVE GgaInv'
  OBVIOUS
<1> USE DEF GgaInv
<1>1. CASE OnBytes
  <2>1. owed' = owed /\ (gga' = gga \/ (phase \in Header /\ gga' = "Due"))
        /\ (phase' \in Header => phase \in Header)
    <3>1. CASE OnStatusLine
      BY <1>1, <3>1 DEF OnBytes, OnStatusLine, Stay, EnterStreaming, EnterTable,
         FinalizeTable, CloseWith, Arm, sched, Header
    <3>2. CASE OnHttp
      BY <1>1, <3>2 DEF OnBytes, OnHttp, Stay, EnterStreaming, EnterTable,
         FinalizeTable, CloseWith, Arm, sched, Header
    <3>3. CASE OnTable \/ OnStream \/ (phase = "Done" /\ Stay(<<>>))
      BY <1>1, <3>3 DEF OnBytes, OnTable, OnStream, Stay, FinalizeTable,
         CloseWith, sched, Header
    <3>4. QED BY <1>1, <3>1, <3>2, <3>3 DEF OnBytes
  <2>2. QED BY <2>1
<1>2. CASE OnTick
  BY <1>2 DEF OnTick, Stay, CloseWith, AfterDue, sched, Header
<1>3. CASE gga_sent \/ gga_missed
  BY <1>3 DEF gga_sent, gga_missed, Answer, Arm, sched, Header
<1>4. CASE OnRemoteClose
  BY <1>4 DEF OnRemoteClose, Stay, CloseWith, FinalizeTable, sched, Header
<1>5. CASE Cancel
  BY <1>5 DEF Cancel, Stay, CloseWith, sched, Header
<1>6. CASE Elapse
  BY <1>6 DEF Elapse
<1>7. CASE UNCHANGED vars
  BY <1>7 DEF vars, sched
<1>8. QED BY <1>1, <1>2, <1>3, <1>4, <1>5, <1>6, <1>7 DEF Next, Call

\* GgaDue is never emitted twice without an answer in between.
THEOREM Alternates == Spec => []GgaAlternates
<1>1. Init => GgaInv
  BY DEF Init, GgaInv
<1>2. GgaInv => GgaAlternates
  BY DEF GgaInv, GgaAlternates
<1>3. QED BY <1>1, <1>2, GgaStep, PTL DEF Spec

-------------------------------------------------------------------------------
(* Deadlines *)

\* The countdowns and the ages always add up to the timeouts, and a countdown
\* that reached zero is followed by a tick before time moves on.
DeadlineInv ==
  /\ {firstLeft, tableLeft, age} \subseteq Nat /\ tickOwed \in BOOLEAN
  /\ phase \in Header => /\ age + firstLeft = FIRST_RESPONSE
                         /\ firstLeft = 0 => tickOwed
  /\ phase = "Table" => /\ age + tableLeft = TABLE
                        /\ tableLeft = 0 => tickOwed

LEMMA DeadlineStep == DeadlineInv /\ [Next]_vars => DeadlineInv'
<1> SUFFICES ASSUME DeadlineInv, [Next]_vars PROVE DeadlineInv'
  OBVIOUS
<1> USE TimeoutsNat DEF DeadlineInv
<1>1. CASE OnBytes
  <2>1. firstLeft' = firstLeft /\ tickOwed' = tickOwed
    BY <1>1 DEF OnBytes, FirstAfterFeed
  <2>2. \/ phase' \in Header /\ phase \in Header /\ age' = age /\ tableLeft' = tableLeft
        \/ phase' = "Table" /\ age' = 0 /\ tableLeft' = TABLE
        \/ phase' = "Table" /\ phase = "Table" /\ age' = age /\ tableLeft' = tableLeft
        \/ /\ phase' \in {"Streaming", "Done"}
           /\ age' \in {0, age} /\ tableLeft' = tableLeft
    <3>1. CASE OnStatusLine
      BY <3>1 DEF OnStatusLine, Stay, EnterStreaming, EnterTable,
         FinalizeTable, CloseWith, Header
    <3>2. CASE OnHttp
      BY <3>2 DEF OnHttp, Stay, EnterStreaming, EnterTable,
         FinalizeTable, CloseWith, Header
    <3>3. CASE OnTable \/ OnStream \/ (phase = "Done" /\ Stay(<<>>))
      BY <3>3 DEF OnTable, OnStream, Stay, FinalizeTable, CloseWith, Header
    <3>4. QED BY <1>1, <3>1, <3>2, <3>3 DEF OnBytes
  <2>3. QED BY <2>1, <2>2 DEF Header
<1>2. CASE OnTick
  <2>1. CASE Expired /\ CloseWith(<<>>, TimeoutReason)
    BY <1>2, <2>1 DEF OnTick, CloseWith, Header
  <2>2. CASE ~Expired
    BY <1>2, <2>2 DEF OnTick, Expired, Stay, Header
  <2>3. QED BY <1>2, <2>1, <2>2 DEF OnTick
<1>3. CASE gga_sent \/ gga_missed
  BY <1>3 DEF gga_sent, gga_missed, Answer, timers
<1>4. CASE OnRemoteClose
  BY <1>4 DEF OnRemoteClose, Stay, CloseWith, FinalizeTable, Header
<1>5. CASE Cancel
  BY <1>5 DEF Cancel, Stay, CloseWith, Header
<1>6. CASE Elapse
  BY <1>6 DEF Elapse, Sooner, Later
<1>7. CASE UNCHANGED vars
  BY <1>7 DEF vars, timers
<1>8. QED BY <1>1, <1>2, <1>3, <1>4, <1>5, <1>6, <1>7 DEF Next, Call

\* However the caster trickles its bytes, the header is classified and the
\* table complete within their timeouts.
THEOREM Timely == Spec => []VerdictInTime
<1>1. Init => DeadlineInv
  <2> SUFFICES ASSUME Init PROVE DeadlineInv
    OBVIOUS
  <2>1. firstLeft \in Nat /\ tableLeft \in Nat /\ age \in Nat /\ tickOwed \in BOOLEAN
    BY TimeoutsNat DEF Init
  <2>2. age + firstLeft = FIRST_RESPONSE /\ firstLeft # 0 /\ phase # "Table"
    BY TimeoutsNat DEF Init
  <2>3. QED BY <2>1, <2>2 DEF DeadlineInv
<1>2. DeadlineInv => VerdictInTime
  BY TimeoutsNat DEF DeadlineInv, VerdictInTime
<1>3. QED BY <1>1, <1>2, DeadlineStep, PTL DEF Spec

-------------------------------------------------------------------------------
(* Closes *)

\* What an emission counts for: a lone output is no close, a reason at the
\* end of anything is one.
LEMMA NoReason ==
  /\ \A o \in Payload \cup {<<"GgaDue">>} :
       ~ \E i \in DOMAIN o : o[i] \in Reasons
  /\ <<>> \in Payload
BY DEF Payload, Reasons

LEMMA EmitQuietly ==
  ASSUME closes \in Nat,
         NEW o \in Payload \cup {<<"GgaDue">>}, Emit(o)
  PROVE  closes' = closes
BY NoReason DEF Emit

LEMMA EmitCount ==
  ASSUME closes \in Nat, NEW o, Emit(o)
  PROVE  closes' \in {closes, closes + 1}
BY DEF Emit

CloseInv == closes \in Nat /\ closes <= 1 /\ (phase # "Done" => closes = 0)

LEMMA CloseStep == CloseInv /\ [Next]_vars => CloseInv'
<1> SUFFICES ASSUME CloseInv, [Next]_vars PROVE CloseInv'
  OBVIOUS
<1> USE DEF CloseInv
<1>0. <<>> \in Payload
  BY NoReason
<1>a. ASSUME NEW o \in Payload, Stay(o) PROVE CloseInv'
  BY <1>a, EmitQuietly DEF Stay
<1>b. ASSUME NEW o, NEW r, phase # "Done", CloseWith(o, r) PROVE CloseInv'
  BY <1>b, EmitCount DEF CloseWith
<1>c. ASSUME NEW c, NEW o \in Payload, phase # "Done",
             EnterStreaming(c, o) \/ EnterTable(c)
      PROVE CloseInv'
  BY <1>c, <1>0, EmitQuietly DEF EnterStreaming, EnterTable
<1>d. ASSUME NEW a, phase # "Done", FinalizeTable(a) PROVE CloseInv'
  BY <1>d, EmitCount DEF FinalizeTable, CloseWith
<1>1. CASE OnBytes
  <2>1. CASE OnStatusLine
    <3>1. ASSUME Emit(<<>>) PROVE closes' = closes
      BY <3>1, <1>0, EmitQuietly
    <3>2. phase # "Done"
      BY <2>1 DEF OnStatusLine
    <3>3. QED BY <2>1, <3>1, <3>2, <1>0, <1>a, <1>b, <1>c, <1>d DEF OnStatusLine
  <2>2. CASE OnHttp
    <3>1. phase # "Done"
      BY <2>2 DEF OnHttp, Header
    <3>2. QED BY <2>2, <3>1, <1>0, <1>a, <1>b, <1>c, <1>d DEF OnHttp
  <2>3. CASE OnTable
    BY <2>3, <1>0, <1>a, <1>b, <1>d DEF OnTable
  <2>4. CASE OnStream
    BY <2>4, <1>a, <1>b DEF OnStream
  <2>5. CASE phase = "Done" /\ Stay(<<>>)
    BY <2>5, <1>0, <1>a
  <2>6. QED BY <1>1, <2>1, <2>2, <2>3, <2>4, <2>5 DEF OnBytes
<1>2. CASE OnTick
  <2>1. Expired => phase # "Done"
    BY DEF Expired, Header
  <2>2. ASSUME Emit(<<"GgaDue">>) PROVE closes' = closes
    BY <2>2, EmitQuietly
  <2>3. QED BY <1>2, <2>1, <2>2, <1>0, <1>a, <1>b DEF OnTick
<1>3. CASE gga_sent \/ gga_missed
  BY <1>3 DEF gga_sent, gga_missed, Answer
<1>4. CASE OnRemoteClose
  BY <1>4, <1>0, <1>a, <1>b, <1>d DEF OnRemoteClose, Header
<1>5. CASE Cancel
  BY <1>5, <1>0, <1>a, <1>b DEF Cancel
<1>6. CASE Elapse
  BY <1>6 DEF Elapse
<1>7. CASE UNCHANGED vars
  BY <1>7 DEF vars
<1>8. QED BY <1>1, <1>2, <1>3, <1>4, <1>5, <1>6, <1>7 DEF Next, Call

\* Close is emitted at most once over a session's whole life, and it is final.
THEOREM ClosesOnce == Spec => []CloseOnce
<1>1. Init => CloseInv
  BY DEF Init, CloseInv
<1>2. CloseInv => CloseOnce
  BY DEF CloseInv, CloseOnce
<1>3. QED BY <1>1, <1>2, CloseStep, PTL DEF Spec

-------------------------------------------------------------------------------
(* What a call returns *)

\* Putting two outputs together, by the append of a close and by the
\* concatenation after a table.
LEMMA AppendOne ==
  ASSUME NEW S, NEW c \in S, NEW r \in S
  PROVE  Append(<<>>, r) = <<r>> /\ Append(<<c>>, r) = <<c, r>>
<1>1. Append(<<c>>, r) \in Seq(S) /\ Len(Append(<<c>>, r)) = 2
  BY AppendProperties
<1>2. Append(<<c>>, r)[1] = c /\ Append(<<c>>, r)[2] = r
  <2>1. <<c>> \in Seq(S) /\ Len(<<c>>) = 1 /\ <<c>>[1] = c
    OBVIOUS
  <2> QED BY <2>1, AppendProperties
<1>3. <<c, r>> \in Seq(S) /\ Len(<<c, r>>) = 2
  OBVIOUS
<1>4. \A i \in 1 .. 2 : Append(<<c>>, r)[i] = <<c, r>>[i]
  BY <1>2
<1>5. Append(<<>>, r) = <<r>>
  OBVIOUS
<1> QED BY <1>1, <1>3, <1>4, <1>5, SeqEqual

LEMMA ConcatOne ==
  ASSUME NEW S, NEW c \in S, NEW r \in S
  PROVE  <<c>> \o <<>> = <<c>> /\ <<c>> \o <<r>> = <<c, r>>
<1>1. <<c>> \in Seq(S) /\ Len(<<c>>) = 1 /\ <<c>>[1] = c
      /\ <<r>> \in Seq(S) /\ Len(<<r>>) = 1 /\ <<r>>[1] = r
  OBVIOUS
<1>2. <<c>> \o <<r>> \in Seq(S) /\ Len(<<c>> \o <<r>>) = 2
      /\ (<<c>> \o <<r>>)[1] = c /\ (<<c>> \o <<r>>)[2] = r
  BY <1>1, ConcatProperties
<1>3. <<c, r>> \in Seq(S) /\ Len(<<c, r>>) = 2
  OBVIOUS
<1>4. \A i \in 1 .. 2 : (<<c>> \o <<r>>)[i] = <<c, r>>[i]
  BY <1>2
<1> QED BY <1>1, <1>2, <1>3, <1>4, SeqEqual, ConcatEmptySeq

\* What the refinement needs of a session's past: a raw stream has no header,
\* no table and no GGA.
ShapeInv == /\ mount \in BOOLEAN /\ raw \in BOOLEAN
            /\ phase \in Header \cup {"Table", "Streaming", "Done"}
            /\ gga \in {"Disabled", "Idle", "Due", "AwaitSent"}
            /\ raw => phase \in {"Streaming", "Done"} /\ gga = "Disabled"

LEMMA ShapeInit == Init => ShapeInv
BY DEF Init, ShapeInv, Header

LEMMA ShapeStep == ShapeInv /\ [Next]_vars => ShapeInv'
<1> SUFFICES ASSUME ShapeInv, [Next]_vars PROVE ShapeInv'
  OBVIOUS
<1> USE DEF ShapeInv, Header, conf, sched
<1>1. CASE OnBytes
  <2>1. mount' = mount /\ raw' = raw
    BY <1>1 DEF OnBytes
  <2>2. CASE OnStatusLine
    BY <2>1, <2>2 DEF OnStatusLine, Stay, EnterStreaming, EnterTable,
       FinalizeTable, CloseWith, Arm
  <2>3. CASE OnHttp
    BY <2>1, <2>3 DEF OnHttp, Stay, EnterStreaming, EnterTable, FinalizeTable,
       CloseWith, Arm
  <2>4. CASE OnTable \/ OnStream \/ (phase = "Done" /\ Stay(<<>>))
    BY <2>1, <2>4 DEF OnTable, OnStream, Stay, FinalizeTable, CloseWith
  <2> QED BY <1>1, <2>2, <2>3, <2>4 DEF OnBytes
<1>2. CASE OnTick
  BY <1>2 DEF OnTick, Stay, CloseWith, AfterDue
<1>3. CASE gga_sent \/ gga_missed
  BY <1>3 DEF gga_sent, gga_missed, Answer, Arm
<1>4. CASE OnRemoteClose
  BY <1>4 DEF OnRemoteClose, Stay, CloseWith, FinalizeTable
<1>5. CASE Cancel
  BY <1>5 DEF Cancel, Stay, CloseWith
<1>6. CASE Elapse
  BY <1>6 DEF Elapse
<1>7. CASE UNCHANGED vars
  BY <1>7 DEF vars
<1> QED BY <1>1, <1>2, <1>3, <1>4, <1>5, <1>6, <1>7 DEF Next, Call

-------------------------------------------------------------------------------
(* The interface *)

\* What each of the calls' building blocks makes of the stage and the outputs.
LEMMA Effects ==
  ASSUME ShapeInv, conf' = conf
  PROVE  /\ Kind' = Kind
         /\ \A o : Stay(o) => out' = o /\ Stage' = Stage
         /\ \A o, r : CloseWith(o, r) => out' = Append(o, r) /\ Stage' = "done"
         /\ \A c, o : EnterStreaming(c, o) => out' = o /\ Stage' = "streaming"
         /\ \A c : EnterTable(c) => out' = <<>> /\ Stage' = "open"
         /\ \A a : FinalizeTable(a)
              => /\ Stage' = "done"
                 /\ mount => out' = Append(<<>>, "MountpointNotFound")
                 /\ ~mount => out' = <<"Sourcetable">> \o a
<1> USE DEF Stage, Emit
<1>1. Kind' = Kind
  BY DEF Kind, conf
<1>2. \A o : Stay(o) => out' = o /\ Stage' = Stage
  BY DEF Stay
<1>3. \A o, r : CloseWith(o, r) => out' = Append(o, r) /\ Stage' = "done"
  BY DEF CloseWith
<1>4. \A c, o : EnterStreaming(c, o) => out' = o /\ Stage' = "streaming"
  BY DEF EnterStreaming
<1>5. \A c : EnterTable(c) => out' = <<>> /\ Stage' = "open"
  BY DEF EnterTable
<1>6. \A a : FinalizeTable(a)
        => /\ Stage' = "done"
           /\ mount => out' = Append(<<>>, "MountpointNotFound")
           /\ ~mount => out' = <<"Sourcetable">> \o a
  BY <1>3 DEF FinalizeTable
<1> QED BY <1>1, <1>2, <1>3, <1>4, <1>5, <1>6

\* The outputs a close ends with.
LEMMA CloseForms ==
  /\ \A r \in Reasons : Append(<<>>, r) = <<r>>
  /\ \A o \in Payload, r \in Reasons :
       Append(o, r) \in {<<r>>, <<"Corrections", r>>}
<1>1. ASSUME NEW r \in Reasons
      PROVE  Append(<<>>, r) = <<r>> /\ Append(<<"Corrections">>, r) = <<"Corrections", r>>
  <2>1. r \in Reasons \cup {"Corrections"} /\ "Corrections" \in Reasons \cup {"Corrections"}
    BY <1>1
  <2> QED BY <2>1, AppendOne
<1> QED BY <1>1 DEF Payload

\* The answer the interface sees, and the promise about a feed.
Answered == [to |-> Stage', out |-> out']
BytesKept == Answered \in Outputs!Bytes(Kind, Stage)

LEMMA BytesKeepPromise ==
  ASSUME ShapeInv, OnBytes
  PROVE  Kind' = Kind /\ BytesKept
<1>1. conf' = conf
  BY DEF OnBytes
<1>2. Kind' = Kind
  BY <1>1, Effects
<1> SUFFICES BytesKept
  BY <1>2
<1>3. CASE OnStatusLine \/ OnHttp
  <2>1. phase \in Header /\ ~raw /\ mount \in BOOLEAN
    BY <1>3 DEF OnStatusLine, OnHttp, ShapeInv, Header
  <2>2. Stage = "open" /\ Kind = IF mount THEN "mount" ELSE "table"
    BY <2>1 DEF Stage, Kind, Header
  <2> USE <2>2 DEF BytesKept, Answered, Outputs!Bytes, Outputs!Answer
  <2>3. ASSUME Stage' = "open", out' = <<>> PROVE BytesKept
    BY <2>3 DEF Outputs!Nothing
  <2>4. ASSUME mount, Stage' = "streaming", out' \in Payload PROVE BytesKept
    BY <2>4 DEF Outputs!StreamBytes, Payload
  <2>5. ASSUME NEW r \in {"Unauthorized", "UnknownResponse", "StreamCorrupt"},
               Stage' = "done", out' = <<r>>
        PROVE  BytesKept
    BY <2>5 DEF Outputs!Closes
  <2>6. ASSUME mount, NEW r \in {"StreamCorrupt", "RemoteClosed"}, Stage' = "done",
               out' \in {<<r>>, <<"Corrections", r>>}
        PROVE  BytesKept
    BY <2>6 DEF Outputs!StreamBytes, Outputs!Closes
  <2>7. ASSUME Stage' = "done",
               mount => out' = <<"MountpointNotFound">>,
               ~mount => out' = <<"Sourcetable">> \o <<>>
        PROVE  BytesKept
    BY <2>1, <2>7 DEF Outputs!Closes, Outputs!Product
  <2> HIDE DEF BytesKept, Answered, Outputs!Bytes, Outputs!Answer
  <2>8. ASSUME NEW o, \/ Stay(<<>>)
                      \/ EnterTable(o)
                      \/ Emit(<<>>) /\ phase' = "HttpHeaders"
        PROVE  BytesKept
    <3>1. Emit(<<>>) /\ phase' = "HttpHeaders" => out' = <<>> /\ Stage' = "open"
      BY DEF Emit, Stage
    <3> QED BY <1>1, <2>2, <2>3, <2>8, <3>1, Effects, Zenon
  <2>9. ASSUME mount, NEW c, NEW o \in Payload, EnterStreaming(c, o) PROVE BytesKept
    BY <1>1, <2>4, <2>9, Effects, Zenon
  <2>10. ASSUME NEW r \in {"Unauthorized", "UnknownResponse", "StreamCorrupt"},
                CloseWith(<<>>, r)
         PROVE  BytesKept
    <3>1. r \in Reasons
      BY DEF Reasons
    <3>2. Append(<<>>, r) = <<r>>
      BY <3>1, CloseForms
    <3> QED BY <1>1, <2>5, <2>10, <3>2, Effects, Zenon
  <2>11. ASSUME mount, NEW o \in Payload, NEW r \in {"StreamCorrupt", "RemoteClosed"},
                CloseWith(o, r)
         PROVE  BytesKept
    <3>1. r \in Reasons
      BY DEF Reasons
    <3>2. Append(o, r) \in {<<r>>, <<"Corrections", r>>}
      BY <3>1, CloseForms
    <3>3. Stage' = "done" /\ out' = Append(o, r)
      BY <1>1, <2>11, Effects, Zenon
    <3> QED BY <2>6, <2>11, <3>2, <3>3
  <2>12. ASSUME FinalizeTable(<<>>) PROVE BytesKept
    <3>1. Append(<<>>, "MountpointNotFound") = <<"MountpointNotFound">>
      BY CloseForms DEF Reasons
    <3> QED BY <1>1, <2>7, <2>12, <3>1, Effects, Zenon
  <2>13. CASE OnStatusLine
    <3>1. CloseWith(<<>>, "UnknownResponse") => BytesKept
      BY <2>10
    <3> QED BY <2>13, <2>8, <2>9, <2>12, <3>1, Zenon DEF OnStatusLine
  <2>14. CASE OnHttp
    <3>1. \A declared : ~IsTable(declared) => mount
      BY DEF IsTable
    <3>2. CloseWith(<<>>, "Unauthorized") \/ CloseWith(<<>>, "UnknownResponse")
            \/ CloseWith(<<>>, "StreamCorrupt") => BytesKept
      BY <2>10
    <3>3. \A o \in Payload :
            mount /\ (CloseWith(o, "StreamCorrupt") \/ CloseWith(o, "RemoteClosed")) => BytesKept
      BY <2>11
    <3> QED BY <2>14, <2>8, <2>9, <2>12, <3>1, <3>2, <3>3, Zenon DEF OnHttp
  <2> QED BY <1>3, <2>13, <2>14
<1>4. CASE OnTable
  <2>1. Stage = "open" /\ ~raw /\ Kind = IF mount THEN "mount" ELSE "table"
    BY <1>4 DEF OnTable, ShapeInv, Stage, Kind
  <2>2. Append(<<>>, "StreamCorrupt") = <<"StreamCorrupt">>
        /\ Append(<<>>, "MountpointNotFound") = <<"MountpointNotFound">>
    BY CloseForms DEF Reasons
  <2>3. \/ Stage' = "open" /\ out' = <<>>
        \/ mount /\ Stage' = "done" /\ out' = <<"MountpointNotFound">>
        \/ ~mount /\ Stage' = "done" /\ out' = <<"Sourcetable">> \o <<>>
        \/ Stage' = "done" /\ out' = <<"StreamCorrupt">>
    BY <1>1, <1>4, <2>1, <2>2, Effects, Zenon DEF OnTable
  <2> QED BY <2>1, <2>3 DEF BytesKept, Answered, Outputs!Bytes, Outputs!Nothing,
          Outputs!Closes, Outputs!Answer, Outputs!Product
<1>5. CASE OnStream
  <2>1. Stage = "streaming"
    BY <1>5 DEF OnStream, Stage
  <2> USE <2>1 DEF BytesKept, Answered, Outputs!Bytes, Outputs!Answer,
                   Outputs!StreamBytes, Outputs!Closes
  <2>2. ASSUME Stage' = "streaming", out' \in Payload PROVE BytesKept
    BY <2>2 DEF Payload
  <2>3. ASSUME NEW r \in {"StreamCorrupt", "RemoteClosed"}, Stage' = "done",
               out' \in {<<r>>, <<"Corrections", r>>}
        PROVE  BytesKept
    BY <2>3
  <2> HIDE DEF BytesKept, Answered, Outputs!Bytes, Outputs!Answer,
               Outputs!StreamBytes, Outputs!Closes
  <2>4. ASSUME NEW o \in Payload, NEW r \in {"StreamCorrupt", "RemoteClosed"},
               CloseWith(o, r)
        PROVE  BytesKept
    <3>1. r \in Reasons
      BY DEF Reasons
    <3>2. Append(o, r) \in {<<r>>, <<"Corrections", r>>}
      BY <3>1, CloseForms
    <3>3. Stage' = "done" /\ out' = Append(o, r)
      BY <1>1, <2>4, Effects, Zenon
    <3> QED BY <2>3, <3>2, <3>3
  <2>5. ASSUME NEW o \in Payload, Stay(o) PROVE BytesKept
    BY <1>1, <2>1, <2>2, <2>5, Effects, Zenon
  <2>6. \A o \in Payload :
          CloseWith(o, "StreamCorrupt") \/ CloseWith(o, "RemoteClosed") => BytesKept
    BY <2>4
  <2> QED BY <1>5, <2>5, <2>6, Zenon DEF OnStream
<1>6. CASE phase = "Done" /\ Stay(<<>>)
  <2>1. Stage = "done" /\ Stage' = "done" /\ out' = <<>>
    BY <1>1, <1>6, Effects DEF Stage
  <2> QED BY <2>1 DEF BytesKept, Answered, Outputs!Bytes, Outputs!Nothing, Outputs!Answer
<1> QED BY <1>3, <1>4, <1>5, <1>6 DEF OnBytes

\* ... and about a tick, a remote close and a cancel.
LEMMA TickKeepsPromise ==
  ASSUME ShapeInv, OnTick
  PROVE  Kind' = Kind /\ Answered \in Outputs!Tick(Kind, Stage)
<1>1. conf' = conf
  BY DEF OnTick
<1>2. Kind' = Kind
  BY <1>1, Effects
<1>3. CASE Expired /\ CloseWith(<<>>, TimeoutReason)
  <2>1. Stage' = "done" /\ out' = Append(<<>>, TimeoutReason)
    BY <1>1, <1>3, Effects, Zenon
  <2>2. \/ Stage = "open" /\ TimeoutReason \in {"FirstResponseTimeout", "SourcetableTimeout"}
        \/ Stage = "streaming" /\ TimeoutReason = "StreamSilence"
    BY <1>3 DEF Expired, TimeoutReason, Header, Stage
  <2>3. Append(<<>>, TimeoutReason) = <<TimeoutReason>>
    BY <2>2, CloseForms DEF Reasons
  <2> QED BY <1>2, <2>1, <2>2, <2>3
          DEF Answered, Outputs!Tick, Outputs!Closes, Outputs!Answer
<1>4. CASE phase = "Streaming" /\ gga = "Due" /\ Emit(<<"GgaDue">>) /\ UNCHANGED phase
  <2>1. Stage = "streaming" /\ Stage' = "streaming" /\ Kind # "raw"
    BY <1>4 DEF Stage, Kind, ShapeInv
  <2>2. out' = <<"GgaDue">>
    BY <1>4, Zenon DEF Emit
  <2> QED BY <1>2, <2>1, <2>2 DEF Answered, Outputs!Tick, Outputs!Answer
<1>5. CASE Stay(<<>>)
  <2>1. Stage' = Stage /\ out' = <<>>
    BY <1>1, <1>5, Effects, Zenon
  <2> QED BY <1>2, <2>1 DEF Answered, Outputs!Tick, Outputs!Nothing, Outputs!Answer
<1> QED BY <1>3, <1>4, <1>5, Zenon DEF OnTick

LEMMA RemoteCloseKeepsPromise ==
  ASSUME ShapeInv, OnRemoteClose
  PROVE  Kind' = Kind /\ Answered \in Outputs!RemoteClose(Kind, Stage)
<1>1. conf' = conf
  BY DEF OnRemoteClose
<1>2. Kind' = Kind
  BY <1>1, Effects
<1>3. /\ Append(<<>>, "UnknownResponse") = <<"UnknownResponse">>
      /\ Append(<<>>, "RemoteClosed") = <<"RemoteClosed">>
      /\ Append(<<>>, "MountpointNotFound") = <<"MountpointNotFound">>
  BY CloseForms DEF Reasons
<1> USE <1>2 DEF Answered, Outputs!RemoteClose, Outputs!Closes, Outputs!Answer
<1>4. CASE phase = "Done" /\ Stay(<<>>)
  <2>1. Stage = "done" /\ Stage' = "done" /\ out' = <<>>
    BY <1>1, <1>4, Effects DEF Stage
  <2> QED BY <2>1 DEF Outputs!Nothing
<1>5. CASE phase \in Header /\ CloseWith(<<>>, "UnknownResponse")
  <2>1. Stage = "open" /\ Stage' = "done" /\ out' = <<"UnknownResponse">>
    BY <1>1, <1>3, <1>5, Effects DEF Stage, Header
  <2> QED BY <2>1
<1>6. CASE phase = "Table" /\ FinalizeTable(<<"RemoteClosed">>)
  <2>1. /\ Stage = "open" /\ Stage' = "done"
        /\ mount => out' = <<"MountpointNotFound">> /\ Kind # "table"
        /\ ~mount => out' = <<"Sourcetable">> \o <<"RemoteClosed">> /\ Kind = "table"
    <3>1. Stage = "open" /\ (mount => Kind # "table") /\ (~mount => Kind = "table")
      BY <1>6 DEF Stage, Kind, ShapeInv
    <3> QED BY <1>1, <1>3, <1>6, <3>1, Effects, Zenon
  <2> QED BY <2>1 DEF ShapeInv, Outputs!Product
<1>7. CASE phase = "Streaming" /\ CloseWith(<<>>, "RemoteClosed")
  <2>1. Stage = "streaming" /\ Stage' = "done" /\ out' = <<"RemoteClosed">>
    BY <1>1, <1>3, <1>7, Effects DEF Stage
  <2> QED BY <2>1
<1> QED BY <1>4, <1>5, <1>6, <1>7, Zenon DEF OnRemoteClose

LEMMA CancelKeepsPromise ==
  ASSUME ShapeInv, Cancel
  PROVE  Kind' = Kind /\ Answered \in Outputs!Cancelling(Stage)
<1>1. conf' = conf
  BY DEF Cancel
<1>2. Kind' = Kind
  BY <1>1, Effects
<1>3. CASE phase = "Done" /\ Stay(<<>>)
  <2>1. Stage = "done" /\ Stage' = "done" /\ out' = <<>>
    BY <1>1, <1>3, Effects DEF Stage
  <2> QED BY <1>2, <2>1 DEF Answered, Outputs!Cancelling, Outputs!Nothing, Outputs!Answer
<1>4. CASE phase # "Done" /\ CloseWith(<<>>, "Cancelled")
  <2>1. Append(<<>>, "Cancelled") = <<"Cancelled">>
    BY CloseForms DEF Reasons
  <2>2. Stage # "done" /\ Stage' = "done" /\ out' = <<"Cancelled">>
    BY <1>1, <1>4, <2>1, Effects DEF Stage
  <2> QED BY <1>2, <2>2 DEF Answered, Outputs!Cancelling, Outputs!Closes, Outputs!Answer
<1> QED BY <1>3, <1>4 DEF Cancel

\* Every step of the session is a step its interface allows, or none.
LEMMA PromiseStep ==
  ShapeInv /\ [Next]_vars => [Outputs!Next]_<<Kind, Stage, out>>
<1> SUFFICES ASSUME ShapeInv, [Next]_vars
             PROVE  [Outputs!Next]_<<Kind, Stage, out>>
  OBVIOUS
<1>1. ASSUME NEW S, S \subseteq Outputs!Bytes(Kind, Stage) \cup Outputs!Tick(Kind, Stage)
                     \cup Outputs!Nothing(Stage) \cup Outputs!RemoteClose(Kind, Stage)
                     \cup Outputs!Cancelling(Stage),
             Kind' = Kind, Answered \in S
      PROVE  Outputs!Next
  <2>1. Stage' = Answered.to /\ out' = Answered.out
    BY DEF Answered
  <2> QED BY <1>1, <2>1, Zenon DEF Outputs!Next
<1>2. CASE OnBytes
  BY <1>1, <1>2, BytesKeepPromise DEF BytesKept
<1>3. CASE OnTick
  BY <1>1, <1>3, TickKeepsPromise
<1>4. CASE gga_sent \/ gga_missed
  <2>1. Kind' = Kind /\ Stage' = Stage /\ out' = <<>>
    BY <1>4 DEF gga_sent, gga_missed, Answer, conf, Kind, Stage
  <2>2. Answered \in Outputs!Nothing(Stage)
    BY <2>1 DEF Answered, Outputs!Nothing, Outputs!Answer
  <2> QED BY <1>1, <2>1, <2>2
<1>5. CASE OnRemoteClose
  BY <1>1, <1>5, RemoteCloseKeepsPromise
<1>6. CASE Cancel
  BY <1>1, <1>6, CancelKeepsPromise
<1>7. CASE Elapse \/ UNCHANGED vars
  BY <1>7 DEF Elapse, vars, conf, Kind, Stage
<1> QED BY <1>2, <1>3, <1>4, <1>5, <1>6, <1>7 DEF Next, Call

\* The session keeps the promise the worker is written against: whatever it is
\* fed, and whatever its timeouts, each call returns one of the outputs
\* SessionOutputs allows at that stage.
THEOREM PromiseKept == Spec => KeepsPromise
<1>1. Init => Outputs!Init
  BY DEF Init, Kind, Stage, Outputs!Init, Outputs!FirstStage
<1> QED BY <1>1, ShapeInit, ShapeStep, PromiseStep, PTL
        DEF Spec, KeepsPromise, Outputs!Spec

-------------------------------------------------------------------------------
(* The clocks of a stream *)


\* What a promised answer consists of: outputs, and the silence's close from a
\* tick alone.
NotSilence == Outputs!Outputs \ {"StreamSilence"}

LEMMA ShortSeqs ==
  ASSUME NEW X
  PROVE  /\ <<>> \in Seq(X)
         /\ \A r \in X : <<r>> \in Seq(X)
         /\ \A c, r \in X : <<c, r>> \in Seq(X)
OBVIOUS

LEMMA NotSilenceMembers ==
  /\ NotSilence \subseteq Outputs!Outputs
  /\ Outputs!Reasons \ {"StreamSilence"} \subseteq NotSilence
  /\ {"Corrections", "Sourcetable", "GgaDue"} \subseteq NotSilence
BY DEF NotSilence, Outputs!Outputs, Outputs!Reasons

LEMMA PromisedOutputs ==
  ASSUME NEW k, NEW at,
         NEW a \in Outputs!Bytes(k, at) \cup Outputs!Nothing(at)
                   \cup Outputs!RemoteClose(k, at) \cup Outputs!Cancelling(at)
  PROVE  a.out \in Seq(NotSilence)
<1>1. ASSUME NEW R, R \subseteq NotSilence, a \in Outputs!Closes(R)
      PROVE  a.out \in Seq(NotSilence)
  BY <1>1, ShortSeqs DEF Outputs!Closes, Outputs!Answer
<1>2. ASSUME NEW t, a \in Outputs!Nothing(t) PROVE a.out \in Seq(NotSilence)
  <2>1. a.out = <<>>
    BY <1>2 DEF Outputs!Nothing, Outputs!Answer
  <2> QED BY <2>1, ShortSeqs, Zenon
<1>3. ASSUME NEW after \in {<<>>, <<"RemoteClosed">>}, a \in Outputs!Product(after)
      PROVE  a.out \in Seq(NotSilence)
  <2>1. "Sourcetable" \in NotSilence /\ "RemoteClosed" \in NotSilence
    BY NotSilenceMembers DEF Outputs!Reasons
  <2>2. <<"Sourcetable">> \o after \in Seq(NotSilence)
    BY <2>1, ShortSeqs, ConcatProperties
  <2> QED BY <1>3, <2>2 DEF Outputs!Product, Outputs!Answer
<1>4. /\ {"StreamCorrupt", "RemoteClosed"} \subseteq NotSilence
      /\ {"Unauthorized", "UnknownResponse", "StreamCorrupt"} \subseteq NotSilence
      /\ {"MountpointNotFound"} \subseteq NotSilence
      /\ {"RemoteClosed"} \subseteq NotSilence
      /\ {"UnknownResponse"} \subseteq NotSilence
      /\ {"Cancelled"} \subseteq NotSilence
      /\ "Corrections" \in NotSilence
  BY NotSilenceMembers DEF Outputs!Reasons
<1>5. ASSUME a \in Outputs!StreamBytes PROVE a.out \in Seq(NotSilence)
  <2>1. CASE a \in {Outputs!Answer("streaming", <<>>),
                    Outputs!Answer("streaming", <<"Corrections">>)}
    <3>1. a.out = <<>> \/ a.out = <<"Corrections">>
      BY <2>1 DEF Outputs!Answer
    <3> QED BY <1>4, <3>1, ShortSeqs, Zenon
  <2>2. CASE a \in {Outputs!Answer("done", <<"Corrections", r>>) :
                      r \in {"StreamCorrupt", "RemoteClosed"}}
    <3>1. PICK r \in {"StreamCorrupt", "RemoteClosed"} : a.out = <<"Corrections", r>>
      BY <2>2 DEF Outputs!Answer
    <3>2. r \in NotSilence
      BY <1>4
    <3> QED BY <1>4, <3>1, <3>2, ShortSeqs, Zenon
  <2> QED BY <1>1, <1>4, <1>5, <2>1, <2>2 DEF Outputs!StreamBytes
<1>6. CASE a \in Outputs!Bytes(k, at)
  BY <1>1, <1>2, <1>3, <1>4, <1>5, <1>6 DEF Outputs!Bytes
<1>7. CASE a \in Outputs!RemoteClose(k, at)
  BY <1>1, <1>2, <1>3, <1>4, <1>7 DEF Outputs!RemoteClose
<1>8. CASE a \in Outputs!Cancelling(at)
  BY <1>1, <1>2, <1>4, <1>8 DEF Outputs!Cancelling
<1> QED BY <1>2, <1>6, <1>7, <1>8

LEMMA TickOutputs ==
  ASSUME NEW k, NEW at, NEW a \in Outputs!Tick(k, at)
  PROVE  a.out \in Seq(Outputs!Outputs)
<1>1. ASSUME NEW R, R \subseteq Outputs!Outputs, a \in Outputs!Closes(R)
      PROVE  a.out \in Seq(Outputs!Outputs)
  <2>1. PICK r \in R : a.out = <<r>>
    BY <1>1 DEF Outputs!Closes, Outputs!Answer
  <2>2. r \in Outputs!Outputs
    BY <1>1
  <2> QED BY <2>1, <2>2, ShortSeqs, Zenon
<1>2. /\ {"StreamSilence"} \subseteq Outputs!Outputs
      /\ {"FirstResponseTimeout", "SourcetableTimeout"} \subseteq Outputs!Outputs
      /\ "GgaDue" \in Outputs!Outputs
  BY DEF Outputs!Outputs, Outputs!Reasons
<1>3. CASE a \in Outputs!Nothing(at)
  <2>1. a.out = <<>>
    BY <1>3 DEF Outputs!Nothing, Outputs!Answer
  <2> QED BY <2>1, ShortSeqs, Zenon
<1>4. CASE a = Outputs!Answer(at, <<"GgaDue">>)
  BY <1>2, <1>4, ShortSeqs DEF Outputs!Answer
<1> QED BY <1>1, <1>2, <1>3, <1>4 DEF Outputs!Tick

\* The types the other invariants leave open.
CountInv == /\ quiet \in Nat /\ idle \in Nat /\ ggaLeft \in Nat /\ sinceArm \in Nat
            /\ chunked \in BOOLEAN
            /\ armedBy \in {"none", "stream", "sent", "missed"}
            /\ out \in Seq(Outputs!Outputs)

\* The clock of the silence: the scheduler's count is the time since the last
\* byte, and a tick is owed once it reaches the limit.
SilenceInv ==
  /\ phase # "Done" => idle = quiet
  /\ phase = "Streaming" => quiet <= SILENCE /\ (quiet = SILENCE => tickOwed)
  /\ Emits("StreamSilence") => idle >= SILENCE

\* The clock of the position: past time and countdown add up to the slot, and
\* a tick is owed once the slot has come up.
SlotInv ==
  /\ phase = "Streaming" => gga # "Idle"
  /\ phase = "Streaming" /\ gga = "Due"
       => /\ armedBy \in {"stream", "sent", "missed"}
          /\ sinceArm + ggaLeft = Slot[armedBy]
          /\ ggaLeft = 0 => tickOwed

IInv == ShapeInv /\ GgaInv /\ DeadlineInv /\ CloseInv /\ CountInv /\ SilenceInv /\ SlotInv

LEMMA SlotsNat ==
  /\ GGA_FIRST \in Nat /\ GGA_FIRST > 0 /\ GGA_FIRST < Horizon
  /\ GGA_INTERVAL \in Nat /\ GGA_INTERVAL > 0 /\ GGA_INTERVAL < Horizon
  /\ GGA_RETRY \in Nat /\ GGA_RETRY > 0 /\ GGA_RETRY < Horizon
  /\ SILENCE < Horizon
BY TimeoutsAssumption DEF Horizon

\* A call other than a tick returns no close for silence.
LEMMA OnlyTicksSilence ==
  ASSUME ShapeInv, OnBytes \/ OnRemoteClose \/ Cancel \/ gga_sent \/ gga_missed
  PROVE  out' \in Seq(Outputs!Outputs) /\ ~Emits("StreamSilence")'
<1>1. out' \in Seq(NotSilence)
  <2>1. CASE gga_sent \/ gga_missed
    <3>1. out' = <<>>
      BY <2>1 DEF gga_sent, gga_missed, Answer
    <3> QED BY <3>1, ShortSeqs
  <2>2. CASE OnBytes \/ OnRemoteClose \/ Cancel
    <3>1. Answered \in Outputs!Bytes(Kind, Stage) \cup Outputs!Nothing(Stage)
                       \cup Outputs!RemoteClose(Kind, Stage) \cup Outputs!Cancelling(Stage)
      BY <2>2, BytesKeepPromise, RemoteCloseKeepsPromise, CancelKeepsPromise DEF BytesKept
    <3>2. Answered.out = out'
      BY DEF Answered
    <3> QED BY <3>1, <3>2, PromisedOutputs, Zenon
  <2> QED BY <2>1, <2>2
<1>2. out' \in Seq(Outputs!Outputs)
  BY <1>1, NotSilenceMembers, SeqMonotonic
<1>3. \A i \in DOMAIN out' : out'[i] \in NotSilence
  BY <1>1, ElementOfSeq, LenProperties
<1>4. "StreamSilence" \notin NotSilence
  BY DEF NotSilence
<1> QED BY <1>2, <1>3, <1>4 DEF Emits

LEMMA CountStep == ShapeInv /\ CountInv /\ [Next]_vars => CountInv'
<1> SUFFICES ASSUME ShapeInv, CountInv, [Next]_vars PROVE CountInv'
  OBVIOUS
<1>1. out' \in Seq(Outputs!Outputs)
  <2>1. CASE OnTick
    <3>1. Answered \in Outputs!Tick(Kind, Stage) /\ Answered.out = out'
      BY <2>1, TickKeepsPromise DEF Answered
    <3> QED BY <3>1, TickOutputs, Zenon
  <2>2. CASE Elapse \/ UNCHANGED vars
    BY <2>2 DEF Elapse, vars, CountInv
  <2> QED BY <2>1, <2>2, OnlyTicksSilence DEF Next, Call
<1> USE TimeoutsNat, SlotsNat DEF CountInv, sched, timers
<1>2. /\ quiet' \in Nat /\ idle' \in Nat /\ ggaLeft' \in Nat /\ sinceArm' \in Nat
      /\ armedBy' \in {"none", "stream", "sent", "missed"}
  <2>1. CASE OnBytes
    <3>1. quiet' \in Nat /\ idle' \in Nat
      BY <2>1 DEF OnBytes, QuietAfterFeed
    <3>2. \A c, o : EnterStreaming(c, o) => ggaLeft' \in Nat /\ sinceArm' \in Nat
                              /\ armedBy' \in {"none", "stream", "sent", "missed"}
      BY DEF EnterStreaming, Arm
    <3>3. UNCHANGED sched => ggaLeft' \in Nat /\ sinceArm' \in Nat
                              /\ armedBy' \in {"none", "stream", "sent", "missed"}
      OBVIOUS
    <3>4. UNCHANGED sched \/ \E c, o : EnterStreaming(c, o)
      BY <2>1, Zenon DEF OnBytes, OnStatusLine, OnHttp, OnTable, OnStream, Stay,
         EnterTable, FinalizeTable, CloseWith
    <3> QED BY <3>1, <3>2, <3>3, <3>4
  <2>2. CASE OnTick
    BY <2>2 DEF OnTick, Stay, CloseWith
  <2>3. CASE gga_sent \/ gga_missed
    BY <2>3 DEF gga_sent, gga_missed, Answer, Arm
  <2>4. CASE OnRemoteClose \/ Cancel
    BY <2>4 DEF OnRemoteClose, Cancel, Stay, CloseWith, FinalizeTable
  <2>5. CASE Elapse
    BY <2>5 DEF Elapse, Sooner, Later
  <2>6. CASE UNCHANGED vars
    BY <2>6 DEF vars
  <2> QED BY <2>1, <2>2, <2>3, <2>4, <2>5, <2>6 DEF Next, Call
<1>3. chunked' \in BOOLEAN
  BY Zenon DEF Next, Call, vars, OnBytes, OnStatusLine, OnHttp, OnTable, OnStream,
     Stay, EnterStreaming, EnterTable, FinalizeTable, CloseWith, OnTick, gga_sent,
     gga_missed, Answer, OnRemoteClose, Cancel, Elapse
<1> QED BY <1>1, <1>2, <1>3

LEMMA SilenceStep ==
  ShapeInv /\ DeadlineInv /\ CountInv /\ SilenceInv /\ [Next]_vars => SilenceInv'
<1> SUFFICES ASSUME ShapeInv, DeadlineInv, CountInv, SilenceInv, [Next]_vars
             PROVE  SilenceInv'
  OBVIOUS
<1> USE TimeoutsNat, SlotsNat
<1>1. CASE OnBytes
  <2>1. ~Emits("StreamSilence")'
    BY <1>1, OnlyTicksSilence
  <2>2. phase # "Done" => quiet' = 0 /\ idle' = 0
    BY <1>1 DEF OnBytes, QuietAfterFeed
  <2>3. phase = "Done" => phase' = "Done"
    BY <1>1 DEF OnBytes, OnStatusLine, OnHttp, OnTable, OnStream, Header, Stay
  <2> QED BY <2>1, <2>2, <2>3 DEF SilenceInv
<1>2. CASE OnTick
  <2>1. idle' = idle /\ quiet' = quiet
    BY <1>2 DEF OnTick
  <2>2. CASE Expired /\ CloseWith(<<>>, TimeoutReason)
    <3>1. phase' = "Done" /\ out' = Append(<<>>, TimeoutReason)
      BY <2>2, Zenon DEF CloseWith, Emit
    <3>2. TimeoutReason = "StreamSilence" => phase = "Streaming" /\ quiet >= SILENCE
      BY <2>2 DEF TimeoutReason, Expired, Header, ShapeInv
    <3>3. TimeoutReason \in Reasons
      BY DEF TimeoutReason, Reasons
    <3>4. out' = <<TimeoutReason>>
      BY <3>1, <3>3, CloseForms
    <3>5. Emits("StreamSilence")' => TimeoutReason = "StreamSilence"
      BY <3>4 DEF Emits
    <3> QED BY <2>1, <3>1, <3>2, <3>5 DEF SilenceInv
  <2>3. CASE ~Expired /\ UNCHANGED phase /\ out' \in {<<>>, <<"GgaDue">>}
    <3>1. ~Emits("StreamSilence")'
      BY <2>3 DEF Emits
    <3>2. phase = "Streaming" => quiet < SILENCE
      BY <2>3 DEF Expired, CountInv
    <3> QED BY <2>1, <2>3, <3>1, <3>2 DEF SilenceInv
  <2> QED BY <1>2, <2>2, <2>3, Zenon DEF OnTick, Stay, Emit
<1>3. CASE gga_sent \/ gga_missed
  <2>1. ~Emits("StreamSilence")'
    BY <1>3, OnlyTicksSilence
  <2> QED BY <1>3, <2>1 DEF SilenceInv, gga_sent, gga_missed, Answer, timers
<1>4. CASE OnRemoteClose \/ Cancel
  <2>1. ~Emits("StreamSilence")'
    BY <1>4, OnlyTicksSilence
  <2>2. idle' = idle /\ quiet' = quiet /\ phase' \in {phase, "Done"} /\ tickOwed' = tickOwed
    BY <1>4 DEF OnRemoteClose, Cancel, Stay, CloseWith, FinalizeTable
  <2> QED BY <2>1, <2>2 DEF SilenceInv
<1>5. CASE Elapse
  <2>1. /\ phase' = phase /\ out' = out /\ tickOwed' /\ ~tickOwed
        /\ quiet' = Later(quiet) /\ idle' = Later(idle)
    BY <1>5, Zenon DEF Elapse
  <2>2. idle' \in Nat /\ idle' >= idle /\ (idle = quiet => idle' = quiet')
    BY <2>1 DEF Later, CountInv
  <2>3. Emits("StreamSilence")' <=> Emits("StreamSilence")
    BY <2>1 DEF Emits
  <2>4. phase = "Streaming" => quiet < SILENCE /\ quiet' = quiet + 1
    BY <2>1 DEF Later, CountInv, SilenceInv
  <2> QED BY <2>1, <2>2, <2>3, <2>4 DEF SilenceInv, CountInv
<1>6. CASE UNCHANGED vars
  BY <1>6 DEF SilenceInv, vars, timers, Emits
<1> QED BY <1>1, <1>2, <1>3, <1>4, <1>5, <1>6 DEF Next, Call

LEMMA SlotStep ==
  ShapeInv /\ CountInv /\ DeadlineInv /\ SlotInv /\ [Next]_vars => SlotInv'
<1> SUFFICES ASSUME ShapeInv, CountInv, DeadlineInv, SlotInv, [Next]_vars
             PROVE  SlotInv'
  OBVIOUS
<1> USE TimeoutsNat, SlotsNat DEF sched, timers
<1>1. ASSUME UNCHANGED <<sched, tickOwed>>, phase' \in {phase, "Done"} \/ phase' \notin {"Streaming"}
      PROVE  SlotInv'
  BY <1>1 DEF SlotInv
<1>2. ASSUME NEW delay, NEW event \in {"stream", "sent", "missed"}, Arm(delay, event),
             delay = Slot[event], gga # "Disabled"
      PROVE  SlotInv'
  <2>1. delay \in Nat /\ delay > 0
    BY <1>2 DEF Slot
  <2> QED BY <1>2, <2>1 DEF Arm, SlotInv
<1>3. ASSUME NEW delay, NEW event, Arm(delay, event), gga = "Disabled" PROVE SlotInv'
  BY <1>3 DEF Arm, SlotInv
<1>4. Slot["stream"] = GGA_FIRST /\ Slot["sent"] = GGA_INTERVAL /\ Slot["missed"] = GGA_RETRY
  BY DEF Slot
<1>5. CASE OnBytes
  <2>1. \/ \E c, o : EnterStreaming(c, o)
        \/ UNCHANGED sched /\ (phase' = phase \/ phase' # "Streaming")
    BY <1>5, Zenon DEF OnBytes, OnStatusLine, OnHttp, OnTable, OnStream, Stay,
       EnterTable, FinalizeTable, CloseWith
  <2>2. CASE \E c, o : EnterStreaming(c, o)
    BY <1>2, <1>3, <1>4, <2>2 DEF EnterStreaming
  <2> QED BY <1>1, <1>5, <2>1, <2>2 DEF OnBytes
<1>6. CASE OnTick
  BY <1>6 DEF OnTick, Stay, CloseWith, AfterDue, SlotInv, CountInv
<1>7. CASE gga_sent \/ gga_missed
  BY <1>2, <1>3, <1>4, <1>7 DEF gga_sent, gga_missed, Answer
<1>8. CASE OnRemoteClose \/ Cancel
  BY <1>1, <1>8 DEF OnRemoteClose, Cancel, Stay, CloseWith, FinalizeTable
<1>9. CASE Elapse
  <2>1. CASE phase = "Streaming" /\ gga = "Due"
    <3>1. ggaLeft > 0 /\ Slot[armedBy] < Horizon /\ sinceArm + ggaLeft = Slot[armedBy]
      BY <1>4, <1>9, <2>1 DEF Elapse, SlotInv, CountInv
    <3>2. sinceArm < Horizon
      BY <3>1 DEF CountInv
    <3> QED BY <1>9, <2>1, <3>1, <3>2 DEF Elapse, SlotInv, CountInv, Sooner, Later
  <2> QED BY <1>9, <2>1 DEF Elapse, SlotInv
<1>10. CASE UNCHANGED vars
  BY <1>1, <1>10 DEF vars
<1> QED BY <1>5, <1>6, <1>7, <1>8, <1>9, <1>10 DEF Next, Call

LEMMA IInvInit == Init => IInv
<1> SUFFICES ASSUME Init PROVE IInv
  OBVIOUS
<1> USE TimeoutsNat, SlotsNat
<1>1. ShapeInv
  BY ShapeInit
<1>2. GgaInv /\ CloseInv
  BY DEF Init, GgaInv, CloseInv
<1>3. DeadlineInv
  <2>1. firstLeft \in Nat /\ tableLeft \in Nat /\ age \in Nat /\ tickOwed \in BOOLEAN
    BY DEF Init
  <2>2. age + firstLeft = FIRST_RESPONSE /\ firstLeft # 0 /\ phase # "Table"
    BY DEF Init
  <2> QED BY <2>1, <2>2 DEF DeadlineInv
<1>4. CountInv
  <2>1. chunked \in BOOLEAN
    BY Zenon DEF Init
  <2>2. out \in Seq(Outputs!Outputs)
    BY ShortSeqs, Zenon DEF Init
  <2> QED BY <2>1, <2>2 DEF Init, CountInv
<1>5. SilenceInv
  BY DEF Init, SilenceInv, Emits
<1>6. SlotInv
  BY DEF Init, SlotInv
<1> QED BY <1>1, <1>2, <1>3, <1>4, <1>5, <1>6 DEF IInv

\* The types, the silence and the position's slot, for every choice of the
\* timeouts: a stream is declared dead after SILENCE without a byte, never
\* before and no later than the tick after, and an enabled scheduler always has
\* a slot coming up.
THEOREM ClocksHold == Spec => []StreamClocks
<1>1. IInv /\ [Next]_vars => IInv'
  BY ShapeStep, GgaStep, DeadlineStep, CloseStep, CountStep, SilenceStep, SlotStep DEF IInv
<1>2. IInv => StreamClocks
  <2> SUFFICES ASSUME IInv PROVE StreamClocks
    OBVIOUS
  <2> USE DEF IInv
  <2>1. SilenceExact
    BY DEF ShapeInv, SilenceInv, SilenceExact
  <2>2. GgaOnTime
    BY DEF ShapeInv, GgaInv, SlotInv, GgaOnTime
  <2>3. TypeOK
    <3>1. {mount, raw, chunked, tickOwed} \subseteq BOOLEAN
      BY Zenon DEF ShapeInv, CountInv, DeadlineInv
    <3>2. owed \in Nat
      BY DEF GgaInv
    <3>3. {firstLeft, tableLeft, quiet, ggaLeft, owed, closes, age, idle, sinceArm}
            \subseteq Nat
      BY <3>2 DEF CountInv, DeadlineInv, CloseInv
    <3>4. Outputs!Outputs = Reasons \cup {"GgaDue", "Corrections", "Sourcetable"}
      BY DEF Outputs!Outputs, Outputs!Reasons, Reasons
    <3> QED BY <3>1, <3>3, <3>4 DEF TypeOK, ShapeInv, CountInv
  <2> QED BY <2>1, <2>2, <2>3 DEF StreamClocks
<1> QED BY IInvInit, <1>1, <1>2, PTL DEF Spec
===============================================================================
