--------------------------- MODULE CorrQueueProofs ---------------------------
(***************************************************************************)
(* What CorrQueue guarantees for every set of workers, every capacity and  *)
(* every number of pushes and attaches.                                    *)
(***************************************************************************)
EXTENDS CorrQueue, SequenceTheorems, TLAPS

LEMMA CapPositive == Cap \in Nat /\ Cap >= 1
BY CapArgAssumption DEF Cap

\* What the capacity rule leaves: a sequence over the same set, short enough
\* for one more block.
LEMMA RoomProperties ==
  ASSUME NEW S, NEW s \in Seq(S), Len(s) <= Cap
  PROVE  /\ Room(s) \in Seq(S)
         /\ Len(Room(s)) = Len(s) - (IF Len(s) >= Cap THEN 1 ELSE 0)
         /\ Len(Room(s)) < Cap
<1>1. CASE Len(s) >= Cap
  <2>1. s # <<>>
    BY <1>1, CapPositive, EmptySeq
  <2>2. Tail(s) \in Seq(S) /\ Len(Tail(s)) = Len(s) - 1
    BY <2>1, HeadTailProperties
  <2>3. QED BY <1>1, <2>2, CapPositive, LenProperties DEF Room
<1>2. CASE ~(Len(s) >= Cap)
  BY <1>2, CapPositive, LenProperties DEF Room
<1>3. QED BY <1>1, <1>2

LEMMA AppendOne ==
  ASSUME NEW S, NEW s \in Seq(S), NEW e \in S
  PROVE  Append(s, e) \in Seq(S) /\ Len(Append(s, e)) = Len(s) + 1
BY AppendProperties

\* Every call keeps the types, in any order and however many workers attach.
LEMMA CallTypes ==
  ASSUME TypeOK,
         \/ Producer \/ UNCHANGED cqvars
         \/ \E w \in Workers : \/ Attach(w) \/ Pop(w) \/ Sleep(w) \/ Expire(w)
                              \/ DetachStore(w) \/ DetachClear(w)
  PROVE  TypeOK'
<1> USE DEF TypeOK
<1>1. CASE PushLoad
  BY <1>1 DEF PushLoad, dequeVars, workVars, Blocks
<1>2. CASE PushStore
  <2>1. /\ Room(q) \in Seq(Blocks)
        /\ Len(Room(q)) < Cap
    BY RoomProperties
  <2>2. Append(Room(q), inflight) \in Seq(Blocks)
        /\ Len(Append(Room(q), inflight)) <= Cap
    BY <2>1, AppendOne, CapPositive, LenProperties
  <2>3. overruns' \in Nat
    BY <1>2 DEF PushStore, Overrun
  <2>4. QED BY <1>2, <2>2, <2>3 DEF PushStore, workVars
<1>3. CASE PushNotify
  BY <1>3 DEF PushNotify, Wake, Sleepers, dequeVars
<1>4. ASSUME NEW w \in Workers, Attach(w) PROVE TypeOK'
  BY <1>4 DEF Attach, Step, dequeVars, pushVars
<1>5. ASSUME NEW w \in Workers, Pop(w) PROVE TypeOK'
  <2>1. /\ Head(q) \in Blocks /\ Tail(q) \in Seq(Blocks)
        /\ Len(Tail(q)) <= Cap
    BY <1>5, HeadTailProperties, LenProperties, CapPositive DEF Pop
  <2>2. [blk |-> Head(q), session |-> session[w]] \in [blk : Blocks, session : Nat]
    BY <2>1
  <2>3. delivered' \in Seq([blk : Blocks, session : Nat])
    BY <1>5, <2>2, AppendOne DEF Pop
  <2>4. QED BY <1>5, <2>1, <2>3 DEF Pop, Step, pushVars
<1>6. ASSUME NEW w \in Workers, Sleep(w) PROVE TypeOK'
  BY <1>6 DEF Sleep, Step, dequeVars, pushVars
<1>7. ASSUME NEW w \in Workers, Expire(w) PROVE TypeOK'
  BY <1>7 DEF Expire, Step, dequeVars, pushVars
<1>8. ASSUME NEW w \in Workers, DetachStore(w) PROVE TypeOK'
  BY <1>8 DEF DetachStore, Step, dequeVars, pushVars
<1>9. ASSUME NEW w \in Workers, DetachClear(w) PROVE TypeOK'
  <2>1. Len(q) \in Nat /\ Cap \in Nat
    BY LenProperties, CapPositive
  <2>2. q' \in Seq(Blocks) /\ Len(q') <= Cap
    BY <1>9, CapPositive, EmptySeq DEF DetachClear, Backlog
  <2>3. QED BY <1>9, <2>1, <2>2 DEF DetachClear, Step, pushVars
<1>10. CASE UNCHANGED cqvars
  BY <1>10 DEF cqvars, dequeVars, pushVars, workVars
<1>11. QED
  BY <1>1, <1>2, <1>3, <1>4, <1>5, <1>6, <1>7, <1>8, <1>9, <1>10
  DEF Next, Producer, Worker

LEMMA InitTypes == Init => TypeOK
<1> SUFFICES ASSUME Init PROVE TypeOK
  OBVIOUS
<1>1. q \in Seq(Blocks) /\ Len(q) <= Cap
      /\ delivered \in Seq([blk : Blocks, session : Nat])
  BY EmptySeq, CapPositive DEF Init
<1>2. inflight \in Blocks /\ session \in [Workers -> Nat]
  BY DEF Init, NoBlock, Blocks
<1>3. wpc \in [Workers -> {"out", "in", "asleep", "woken", "expired", "clearing"}]
  BY DEF Init
<1>4. {overruns, cleared, seq, rejected, epoch} \subseteq Nat
  BY DEF Init
<1>5. active \in BOOLEAN /\ ppc \in {"idle", "admitted", "unlocked"}
  BY DEF Init
<1>6. QED BY <1>1, <1>2, <1>3, <1>4, <1>5 DEF TypeOK

\* Type correctness: in particular the deque never outgrows its capacity.
THEOREM TypeCorrect == Spec => []TypeOK
<1>1. TypeOK /\ [Next]_cqvars => TypeOK'
  BY CallTypes DEF Next, Worker
<1> QED BY InitTypes, <1>1, PTL DEF Spec

-------------------------------------------------------------------------------
(* No stale replay *)

LEMMA FreshDeliveries ==
  ASSUME delivered \in Seq(Fresh) PROVE NoStaleReplay
<1>1. \A i \in DOMAIN delivered : delivered[i] \in Fresh
  BY LenProperties, ElementOfSeq
<1>2. QED BY <1>1 DEF NoStaleReplay, Fresh

\* Whatever the interleaving of a push with a detach and a later attach, the
\* receiver session's invariant survives it.
LEMMA SessionStep == TypeOK /\ SessionInv /\ [Next]_cqvars => SessionInv'
<1> SUFFICES ASSUME TypeOK, SessionInv, [Next]_cqvars PROVE SessionInv'
  OBVIOUS
<1> USE DEF SessionInv
<1>1. CASE PushLoad
  <2>1. BacklogIsCurrent'
    BY <1>1 DEF PushLoad, BacklogIsCurrent, BlocksOf, TypeOK, workVars, dequeVars
  <2>2. NothingOutlives'
    BY <1>1 DEF PushLoad, NothingOutlives, FlagWhileAttached, Attached, Alone,
                workVars, dequeVars
  <2>3. QED
    BY <1>1, <2>1, <2>2 DEF PushLoad, OneWorker, CurrentSession,
       FlagWhileAttached, Attached, workVars, dequeVars
<1>2. CASE PushStore
  <2>1. Room(q) \in Seq(BlocksOf(epoch))
    BY RoomProperties DEF TypeOK, BacklogIsCurrent
  <2>2. q' \in Seq(BlocksOf(epoch))
    BY <1>2, <2>1, AppendOne DEF PushStore, BacklogIsCurrent
  <2>3. BacklogIsCurrent' /\ NothingOutlives'
    BY <1>2, <2>2 DEF PushStore, BacklogIsCurrent, NothingOutlives, Alone, workVars
  <2>4. QED
    BY <1>2, <2>3 DEF PushStore, OneWorker, CurrentSession, FlagWhileAttached,
       Attached, workVars
<1>3. CASE PushNotify
  <2>1. \A w \in Workers : /\ (wpc'[w] = "out") <=> (wpc[w] = "out")
                           /\ Attached(w)' <=> Attached(w)
    BY <1>3 DEF PushNotify, Wake, Sleepers, Attached, TypeOK
  <2>2. QED
    BY <1>3, <2>1 DEF PushNotify, OneWorker, CurrentSession, FlagWhileAttached,
       BacklogIsCurrent, NothingOutlives, Alone, dequeVars
<1>4. ASSUME NEW w \in Workers, Alone, Attach(w) PROVE SessionInv'
  <2>1. q = <<>> /\ ppc # "admitted" /\ epoch' \in Nat
    BY <1>4 DEF NothingOutlives, Attach, TypeOK
  <2>2. BacklogIsCurrent'
    BY <1>4, <2>1, EmptySeq DEF Attach, BacklogIsCurrent, dequeVars, pushVars
  <2>3. OneWorker' /\ CurrentSession' /\ FlagWhileAttached'
    BY <1>4 DEF Attach, Step, Alone, OneWorker, CurrentSession,
                FlagWhileAttached, Attached, TypeOK
  <2>4. QED
    BY <1>4, <2>2, <2>3 DEF Attach, Step, Alone, NothingOutlives, TypeOK,
                            dequeVars, pushVars
<1>5. ASSUME NEW w \in Workers, Pop(w) PROVE SessionInv'
  <2>1. Head(q) \in BlocksOf(epoch) /\ Tail(q) \in Seq(BlocksOf(epoch))
    BY <1>5, HeadTailProperties DEF Pop, BacklogIsCurrent
  <2>2. session[w] = epoch
    BY <1>5 DEF Pop, Step, CurrentSession
  <2>3. [blk |-> Head(q), session |-> session[w]] \in Fresh
    BY <2>1, <2>2 DEF Fresh, Blocks, BlocksOf, TypeOK
  <2>4. delivered' \in Seq(Fresh)
    BY <1>5, <2>3, AppendOne DEF Pop
  <2>5. OneWorker' /\ CurrentSession' /\ FlagWhileAttached'
    BY <1>5 DEF Pop, Step, OneWorker, CurrentSession, FlagWhileAttached,
                Attached, TypeOK, pushVars
  <2>6. BacklogIsCurrent' /\ NothingOutlives'
    BY <1>5, <2>1 DEF Pop, Step, BacklogIsCurrent, NothingOutlives, Alone,
                      TypeOK, pushVars
  <2>7. QED BY <2>4, <2>5, <2>6
<1>6. ASSUME NEW w \in Workers, Sleep(w) \/ Expire(w) PROVE SessionInv'
  BY <1>6 DEF Sleep, Expire, Step, OneWorker, CurrentSession,
     FlagWhileAttached, Attached, BacklogIsCurrent, NothingOutlives, Alone,
     TypeOK, dequeVars, pushVars
<1>7. ASSUME NEW w \in Workers, DetachStore(w) PROVE SessionInv'
  BY <1>7 DEF DetachStore, Step, OneWorker, CurrentSession,
     FlagWhileAttached, Attached, BacklogIsCurrent, NothingOutlives, Alone,
     TypeOK, dequeVars, pushVars
<1>8. ASSUME NEW w \in Workers, DetachClear(w) PROVE SessionInv'
  <2>1. OneWorker' /\ CurrentSession' /\ FlagWhileAttached'
    BY <1>8 DEF DetachClear, Step, OneWorker, CurrentSession,
                FlagWhileAttached, Attached, TypeOK, pushVars
  <2>2. BacklogIsCurrent' /\ NothingOutlives'
    BY <1>8, EmptySeq DEF DetachClear, MutexFree, Backlog, BacklogIsCurrent,
                          NothingOutlives, pushVars
  <2>3. QED BY <1>8, <2>1, <2>2 DEF DetachClear
<1>9. CASE UNCHANGED cqvars
  BY <1>9 DEF cqvars, dequeVars, pushVars, workVars, OneWorker, CurrentSession,
     FlagWhileAttached, Attached, BacklogIsCurrent, NothingOutlives, Alone
<1>10. QED
  BY <1>1, <1>2, <1>3, <1>4, <1>5, <1>6, <1>7, <1>8, <1>9
  DEF Next, Producer, Worker

LEMMA SessionInit == Init => SessionInv
<1>1. <<>> \in Seq(BlocksOf(0)) /\ <<>> \in Seq(Fresh)
  BY EmptySeq
<1>2. QED
  BY <1>1 DEF Init, SessionInv, OneWorker, CurrentSession, FlagWhileAttached,
     Attached, BacklogIsCurrent, NothingOutlives, Alone

THEOREM SessionInvariant == Spec => []SessionInv
BY SessionInit, SessionStep, TypeCorrect, PTL DEF Spec

\* A receiver session never replays a block from before it attached.
THEOREM NeverStale == Spec => []NoStaleReplay
<1>1. SessionInv => NoStaleReplay
  BY FreshDeliveries DEF SessionInv
<1>2. QED BY <1>1, SessionInvariant, PTL

-------------------------------------------------------------------------------
(* The accounting of pushes, and what a refusal means *)

\* Every push call is accounted for, however long the run.
THEOREM NoBlockVanishes == Spec => []EveryBlockAccounted
<1> USE DEF EveryBlockAccounted
<1>1. Init => EveryBlockAccounted
  BY EmptySeq DEF Init
<1>2. TypeOK /\ EveryBlockAccounted /\ [Next]_cqvars => EveryBlockAccounted'
  <2> SUFFICES ASSUME TypeOK, EveryBlockAccounted, [Next]_cqvars
               PROVE EveryBlockAccounted'
    OBVIOUS
  <2> DEFINE D == [blk : Blocks, session : Nat]
  <2>0. /\ Len(q) \in Nat /\ Len(delivered) \in Nat
        /\ {overruns, cleared, seq, rejected} \subseteq Nat
    BY LenProperties DEF TypeOK
  <2>1. CASE PushLoad
    BY <2>0, <2>1 DEF PushLoad, dequeVars, workVars
  <2>2. CASE PushStore
    <3>1. Room(q) \in Seq(Blocks) /\ Len(Room(q)) = Len(q) - Overrun
      BY RoomProperties DEF TypeOK, Overrun
    <3>2. Len(Append(Room(q), inflight)) = Len(Room(q)) + 1
      BY <3>1, AppendOne DEF TypeOK
    <3>3. Overrun \in Nat
      BY DEF Overrun
    <3>4. /\ Len(q') = Len(q) - Overrun + 1
          /\ overruns' = overruns + Overrun
          /\ ppc = "admitted" /\ ppc' = "unlocked"
          /\ seq' = seq /\ rejected' = rejected /\ cleared' = cleared
          /\ delivered' = delivered
      BY <2>2, <3>1, <3>2 DEF PushStore
    <3>5. QED BY <2>0, <3>3, <3>4
  <2>3. CASE PushNotify
    BY <2>0, <2>3 DEF PushNotify, dequeVars
  <2>4. ASSUME NEW w \in Workers, Pop(w) PROVE EveryBlockAccounted'
    <3>1. Head(q) \in Blocks /\ Len(Tail(q)) = Len(q) - 1
      BY <2>4, HeadTailProperties DEF Pop, TypeOK
    <3>2. Len(delivered') = Len(delivered) + 1
      <4>1. [blk |-> Head(q), session |-> session[w]] \in D
        BY <3>1 DEF TypeOK
      <4>2. QED BY <2>4, <4>1, AppendOne DEF Pop, TypeOK
    <3>3. QED BY <2>0, <2>4, <3>1, <3>2 DEF Pop, pushVars
  <2>5. ASSUME NEW w \in Workers, DetachClear(w) PROVE EveryBlockAccounted'
    BY <2>0, <2>5, EmptySeq DEF DetachClear, Backlog, pushVars
  <2>6. ASSUME NEW w \in Workers,
               Attach(w) \/ Sleep(w) \/ Expire(w) \/ DetachStore(w)
        PROVE EveryBlockAccounted'
    BY <2>6 DEF Attach, Sleep, Expire, DetachStore, dequeVars, pushVars
  <2>7. CASE UNCHANGED cqvars
    BY <2>7 DEF cqvars, dequeVars, pushVars
  <2>8. QED
    BY <2>1, <2>2, <2>3, <2>4, <2>5, <2>6, <2>7 DEF Next, Producer, Worker
<1>3. QED BY <1>1, <1>2, TypeCorrect, PTL DEF Spec

\* While one worker attaches at a time, a refused push had nobody to serve.
THEOREM RefusedOnlyWithoutWorker == Spec => InactiveMeansNoWorker
<1>1. SessionInv /\ TypeOK /\ [Next]_cqvars
      => [rejected' # rejected => \A w \in Workers : ~Attached(w)]_cqvars
  <2> SUFFICES ASSUME SessionInv, TypeOK, Next, rejected' # rejected
               PROVE  \A w \in Workers : ~Attached(w)
    OBVIOUS
  <2>1. ~active
    BY DEF Next, Producer, Worker, PushLoad, PushStore, PushNotify, Attach, Pop,
       Sleep, Expire, DetachStore, DetachClear, pushVars
  <2>2. QED BY <2>1 DEF SessionInv, FlagWhileAttached
<1>2. QED BY <1>1, SessionInvariant, TypeCorrect, PTL DEF Spec, InactiveMeansNoWorker

-------------------------------------------------------------------------------
(* Refinement *)

LEMMA AbsInit == Init => Abs!Init
BY DEF Init, Abs!Init, Promised

LEMMA AbsStep == TypeOK /\ SessionInv /\ [Next]_cqvars => [Abs!Next]_Abs!avars
<1> SUFFICES ASSUME TypeOK, SessionInv, [Next]_cqvars
             PROVE [Abs!Next]_Abs!avars
  OBVIOUS
<1>1. CASE PushLoad
  BY <1>1 DEF PushLoad, Abs!Next, Abs!Push, Abs!Bound, Abs!avars, Promised,
     Room, Overrun, dequeVars, workVars, TypeOK
<1>2. CASE PushStore
  BY <1>2 DEF PushStore, Abs!avars, Promised, Overrun, workVars, TypeOK
<1>3. CASE PushNotify
  BY <1>3 DEF PushNotify, Abs!avars, Promised, Overrun, dequeVars
<1>4. ASSUME NEW w \in Workers, Alone, Attach(w) PROVE Abs!Attach
  <2>1. ~active
    BY <1>4 DEF Alone, SessionInv, FlagWhileAttached, Attached
  <2>2. q = <<>> /\ ppc # "admitted"
    BY <1>4 DEF SessionInv, NothingOutlives
  <2>3. QED
    BY <1>4, <2>1, <2>2 DEF Attach, Abs!Attach, Promised, Overrun, dequeVars, pushVars
<1>5. ASSUME NEW w \in Workers, Pop(w) PROVE Abs!Pop
  <2>1. active /\ session[w] = epoch
    BY <1>5 DEF Pop, Step, SessionInv, FlagWhileAttached, Attached, CurrentSession
  <2>2. QED
    BY <1>5, <2>1 DEF Pop, MutexFree, Abs!Pop, Promised, Overrun, pushVars
<1>6. ASSUME NEW w \in Workers, Sleep(w) \/ Expire(w) PROVE UNCHANGED Abs!avars
  BY <1>6 DEF Sleep, Expire, Abs!avars, Promised, Overrun, dequeVars, pushVars
<1>7. ASSUME NEW w \in Workers, DetachStore(w) PROVE Abs!Detach
  <2>1. active
    BY <1>7 DEF DetachStore, Step, SessionInv, FlagWhileAttached, Attached
  <2>2. QED
    BY <1>7, <2>1 DEF DetachStore, Abs!Detach, Promised, Overrun, dequeVars, pushVars
<1>8. ASSUME NEW w \in Workers, DetachClear(w) PROVE UNCHANGED Abs!avars
  <2>1. ~active
    BY <1>8 DEF DetachClear, Step, SessionInv, OneWorker, FlagWhileAttached, Attached
  <2>2. QED
    BY <1>8, <2>1 DEF DetachClear, MutexFree, Abs!avars, Promised, Overrun, pushVars
<1>9. CASE UNCHANGED cqvars
  BY <1>9 DEF cqvars, dequeVars, pushVars, workVars, Abs!avars, Promised, Overrun, Room, Cap
<1>10. QED
  BY <1>1, <1>2, <1>3, <1>4, <1>5, <1>6, <1>7, <1>8, <1>9
  DEF Next, Producer, Worker, Abs!Next

\* The mutex-and-flag code keeps the promise of the atomic queue.
THEOREM Implements == Spec => AbsSpec
BY AbsInit, AbsStep, SessionInvariant, TypeCorrect, PTL DEF Spec, Abs!Spec, AbsSpec
===============================================================================
