--------------------------- MODULE SerialLinkProofs ---------------------------
(***************************************************************************)
(* The serial link for every set of workers, every capacity of the queue   *)
(* and every number of pushes and attaches.                                *)
(*                                                                         *)
(* While the driver answers in time, the join makes the workers follow     *)
(* each other: whoever lives is the one held or the one joined.  From this *)
(* follow what the UI shows and that the queue sees one worker at a time.  *)
(***************************************************************************)
EXTENDS SerialLink, SequenceTheorems, TLAPS

Standing == {"connected", "draining", "detached"}

\* One thing at a time: the UI holds a worker or joins one.
HoldsOrJoins == handle = NoWorker \/ joining = NoWorker

\* A worker is alive only in the UI's hands, held or joined.
InHand == ~slow => \A w \in Workers : Alive(w) => w \in {handle, joining}

\* A worker is inside the queue's calls only between its two posts.
InsideStands == \A w \in Workers : wpc[w] # "out" => life[w] \in {"draining", "detached"}

\* What the UI will show once it has drained its channel.
Latest == IF chan = <<>> THEN shown ELSE chan[Len(chan)]
LatestIsCurrent ==
  ~slow => (Latest = "Connected" <=> \E w \in Workers : life[w] \in Standing)

IInv == /\ TypeOK /\ NoOrphanUncancelled
        /\ HoldsOrJoins /\ InHand /\ InsideStands /\ LatestIsCurrent

\* CorrQueue's theorems, of the queue in use here.
CQP == INSTANCE CorrQueueProofs

-------------------------------------------------------------------------------
(* What a step does to the queue *)

\* A worker's or the producer's call, in whatever order.
QueueCall == \/ CQ!Producer \/ UNCHANGED queueVars
             \/ \E w \in Workers : \/ CQ!Attach(w) \/ CQ!Pop(w) \/ CQ!DetachStore(w)
                                   \/ CQ!DetachClear(w)

LEMMA EveryStepCalls == [Next]_vars => QueueCall
<1> USE DEF QueueCall
<1>1. ASSUME UI \/ UNCHANGED vars PROVE UNCHANGED queueVars
  BY <1>1 DEF UI, Connect, Disconnect, JoinReturns, Reap, Apply, vars
<1>2. ASSUME NEW w \in Workers, Thread(w) PROVE QueueCall
  BY <1>2 DEF Thread, OpenReturns, SetActive, Forward, Leave, Clear, Close, Finish
<1> QED BY <1>1, <1>2 DEF Next, Push

LEMMA CallTypes == CQ!TypeOK /\ QueueCall => CQ!TypeOK'
<1> SUFFICES ASSUME CQ!TypeOK, QueueCall PROVE CQ!TypeOK'
  OBVIOUS
<1>1. CQP!TypeOK <=> CQ!TypeOK
  BY DEF CQP!TypeOK, CQ!TypeOK, CQP!Blocks, CQ!Blocks, CQP!Cap, CQ!Cap
<1>2. (CQP!TypeOK <=> CQ!TypeOK)'
  BY DEF CQP!TypeOK, CQ!TypeOK, CQP!Blocks, CQ!Blocks, CQP!Cap, CQ!Cap
<1>3. CQ!Producer => CQP!Producer
  BY DEF CQ!Producer, CQ!PushLoad, CQ!PushStore, CQ!PushNotify, CQ!Wake, CQ!Sleepers,
         CQ!Room, CQ!Overrun, CQ!Cap, CQ!dequeVars, CQ!workVars,
         CQP!Producer, CQP!PushLoad, CQP!PushStore, CQP!PushNotify, CQP!Wake, CQP!Sleepers,
         CQP!Room, CQP!Overrun, CQP!Cap, CQP!dequeVars, CQP!workVars
<1>4. ASSUME NEW w \in Workers
      PROVE  /\ CQ!Attach(w) => CQP!Attach(w)
             /\ CQ!Pop(w) => CQP!Pop(w)
             /\ CQ!DetachStore(w) => CQP!DetachStore(w)
             /\ CQ!DetachClear(w) => CQP!DetachClear(w)
  BY DEF CQ!Attach, CQ!Pop, CQ!DetachStore, CQ!DetachClear, CQ!Step, CQ!MutexFree,
         CQ!Backlog, CQ!dequeVars, CQ!pushVars,
         CQP!Attach, CQP!Pop, CQP!DetachStore, CQP!DetachClear, CQP!Step, CQP!MutexFree,
         CQP!Backlog, CQP!dequeVars, CQP!pushVars
<1>5. UNCHANGED queueVars => UNCHANGED CQP!cqvars
  BY DEF queueVars, CQP!cqvars, CQP!dequeVars, CQP!pushVars, CQP!workVars
<1>6. CQP!TypeOK'
  BY <1>1, <1>3, <1>4, <1>5, QueueAssumption, CQP!CallTypes DEF QueueCall
<1> QED BY <1>2, <1>6

-------------------------------------------------------------------------------
(* The invariant *)

LEMMA IInvInit == Init => IInv
<1> SUFFICES ASSUME Init PROVE IInv
  OBVIOUS
<1>1. CQ!TypeOK
  <2>1. CQP!Init => CQP!TypeOK
    BY QueueAssumption, CQP!InitTypes
  <2>2. CQP!Init
    BY DEF Init, CQ!Init, CQP!Init, CQ!NoBlock, CQP!NoBlock
  <2> QED BY <2>1, <2>2 DEF CQP!TypeOK, CQ!TypeOK, CQP!Blocks, CQ!Blocks, CQP!Cap, CQ!Cap
<1>2. TypeOK
  BY <1>1 DEF Init, TypeOK, Statuses
<1>3. \A w \in Workers : life[w] = "unborn" /\ wpc[w] = "out"
  BY DEF Init, CQ!Init
<1>4. NoOrphanUncancelled /\ HoldsOrJoins /\ InHand /\ InsideStands /\ LatestIsCurrent
  BY <1>3 DEF Init, NoOrphanUncancelled, Alive, HoldsOrJoins, InHand, InsideStands,
              LatestIsCurrent, Latest, Standing
<1> QED BY <1>2, <1>4 DEF IInv

\* A new worker is one that was not born.
LEMMA ConnectPicks ==
  Connect => \E w \in Workers : /\ life[w] = "unborn" /\ handle' = w
                                /\ life' = [life EXCEPT ![w] = "opening"]
<1> SUFFICES ASSUME Connect PROVE \E w \in Workers : /\ life[w] = "unborn" /\ handle' = w
                                          /\ life' = [life EXCEPT ![w] = "opening"]
  OBVIOUS
<1> DEFINE u == CHOOSE w \in Unborn : TRUE
<1>1. u \in Unborn
  BY DEF Connect
<1>2. u \in Workers
  BY <1>1, LinkAssumption DEF Unborn
<1> QED BY <1>2 DEF Connect, Move

\* The last status posted is the one that will be shown.
LEMMA PostIsLatest ==
  ASSUME chan \in Seq(Statuses), NEW s \in Statuses, Post(s)
  PROVE  chan' \in Seq(Statuses) /\ Latest' = s
<1>1. /\ chan' \in Seq(Statuses) /\ Len(chan') = Len(chan) + 1
      /\ chan'[Len(chan) + 1] = s
  BY AppendProperties DEF Post
<1>2. chan' # <<>>
  BY <1>1, LenProperties, EmptySeq
<1> QED BY <1>1, <1>2 DEF Latest

LEMMA ApplyKeepsLatest ==
  ASSUME chan \in Seq(Statuses), Apply
  PROVE  chan' \in Seq(Statuses) /\ shown' \in Statuses /\ Latest' = Latest
<1>1. /\ chan # <<>> /\ shown' = Head(chan) /\ chan' = Tail(chan)
      /\ Head(chan) \in Statuses /\ Head(chan) = chan[1] /\ Tail(chan) \in Seq(Statuses)
      /\ Len(chan') = Len(chan) - 1 /\ Len(chan) \in Nat \ {0}
      /\ \A i \in 1 .. Len(chan') : chan'[i] = chan[i + 1]
  BY HeadTailProperties, EmptySeq, LenProperties DEF Apply
<1>2. CASE chan' = <<>>
  <2>1. Len(chan) = 1
    <3>1. Len(chan') = 0
      BY <1>2
    <3> QED BY <1>1, <3>1
  <2> QED BY <1>1, <1>2, <2>1 DEF Latest
<1>3. CASE chan' # <<>>
  <2>1. Len(chan') \in 1 .. Len(chan')
    BY <1>1, <1>3, EmptySeq
  <2>2. chan'[Len(chan')] = chan[Len(chan)]
    BY <1>1, <2>1
  <2> QED BY <1>1, <1>3, <2>2 DEF Latest
<1> QED BY <1>2, <1>3

LEMMA TypesStep == TypeOK /\ [Next]_vars => TypeOK'
<1> SUFFICES ASSUME TypeOK, [Next]_vars PROVE TypeOK'
  OBVIOUS
<1>1. CQ!TypeOK'
  BY EveryStepCalls, CallTypes DEF TypeOK
<1>2. slow' \in BOOLEAN
  <2>1. slow' = slow
    BY DEF Next, UI, Connect, Disconnect, JoinReturns, Reap, Apply, Push, Thread,
           OpenReturns, SetActive, Forward, Leave, Clear, Close, Finish, vars, linkVars
  <2> QED BY <2>1 DEF TypeOK
<1>3. {handle', joining'} \subseteq Workers \cup {NoWorker}
  BY ConnectPicks DEF TypeOK, Next, UI, Disconnect, Connect, JoinReturns, Reap, Apply, Push,
     Thread, OpenReturns, SetActive, Forward, Leave, Clear, Close, Finish, vars, linkVars
<1>4. cancel' \in [Workers -> BOOLEAN]
  BY DEF TypeOK, Next, UI, Disconnect, Connect, JoinReturns, Reap, Apply, Push,
     Thread, OpenReturns, SetActive, Forward, Leave, Clear, Close, Finish, vars, linkVars
<1>5. life' \in [Workers -> {"unborn", "opening", "connected", "draining",
                             "detached", "ending", "finished"}]
  <2>1. CASE UI
    BY <2>1, ConnectPicks DEF TypeOK, UI, Disconnect, JoinReturns, Reap, Apply
  <2>2. ASSUME NEW w \in Workers, Thread(w)
        PROVE  \/ life' = life
               \/ \E l \in {"connected", "draining", "detached", "ending", "finished"} :
                    life' = [life EXCEPT ![w] = l]
    BY <2>2 DEF Thread, OpenReturns, SetActive, Forward, Leave, Clear, Close, Finish,
                Move, linkVars
  <2>3. CASE Push \/ UNCHANGED vars
    BY <2>3 DEF TypeOK, Push, vars, linkVars
  <2> QED BY <2>1, <2>2, <2>3 DEF TypeOK, Next
<1>6. chan' \in Seq(Statuses) /\ shown' \in Statuses
  <2>1. CASE Apply
    BY <2>1, ApplyKeepsLatest DEF TypeOK
  <2>2. ASSUME NEW w \in Workers, OpenReturns(w) \/ Close(w) PROVE chan' \in Seq(Statuses) /\ shown' \in Statuses
    <3>1. shown' = shown /\ \E s \in Statuses : Post(s)
      BY <2>2 DEF OpenReturns, Close, Statuses
    <3> QED BY <3>1, PostIsLatest DEF TypeOK
  <2>3. ASSUME UNCHANGED <<chan, shown>> PROVE chan' \in Seq(Statuses) /\ shown' \in Statuses
    BY <2>3 DEF TypeOK
  <2> QED BY <2>1, <2>2, <2>3 DEF Next, UI, Disconnect, Connect, JoinReturns, Reap, Push,
     Thread, SetActive, Forward, Leave, Clear, Finish, vars, linkVars
<1> QED BY <1>1, <1>2, <1>3, <1>4, <1>5, <1>6 DEF TypeOK

\* A thread's step moves no thread but itself, and raises none from the dead.
LEMMA Lives ==
  ASSUME TypeOK, NEW w \in Workers, Thread(w)
  PROVE  /\ UNCHANGED <<slow, handle, joining, cancel>>
         /\ Alive(w) \/ UNCHANGED <<life, chan, shown>>
         /\ \A v \in Workers : Alive(v)' => Alive(v)
         /\ \A v \in Workers \ {w} : life'[v] = life[v]
<1>1. UNCHANGED <<slow, handle, joining, cancel>>
  BY DEF Thread, OpenReturns, SetActive, Forward, Leave, Clear, Close, Finish, linkVars
<1>2. \/ UNCHANGED <<life, chan, shown>>
      \/ \E l \in {"connected", "draining", "detached", "ending", "finished"} :
           life' = [life EXCEPT ![w] = l] /\ Alive(w)
  BY DEF Thread, OpenReturns, SetActive, Forward, Leave, Clear, Close, Finish, linkVars,
         Move, Alive
<1> QED BY <1>1, <1>2 DEF Alive, TypeOK

LEMMA HandsStep ==
  TypeOK /\ NoOrphanUncancelled /\ HoldsOrJoins /\ InHand /\ [Next]_vars
    => NoOrphanUncancelled' /\ HoldsOrJoins' /\ InHand'
<1> SUFFICES ASSUME TypeOK, NoOrphanUncancelled, HoldsOrJoins, InHand, [Next]_vars
             PROVE  NoOrphanUncancelled' /\ HoldsOrJoins' /\ InHand'
  OBVIOUS
<1> USE LinkAssumption DEF NoOrphanUncancelled, HoldsOrJoins, InHand
<1>1. CASE Connect
  <2>1. PICK w \in Workers : /\ life[w] = "unborn" /\ handle' = w
                             /\ life' = [life EXCEPT ![w] = "opening"]
    BY <1>1, ConnectPicks
  <2>2. /\ joining = NoWorker /\ handle = NoWorker /\ UNCHANGED <<slow, joining, cancel>>
    BY <1>1 DEF Connect
  <2>3. \A v \in Workers \ {w} : Alive(v)' <=> Alive(v)
    BY <2>1 DEF Alive, TypeOK
  <2>4. \A v \in Workers : ~slow => ~Alive(v)
    BY <2>2
  <2> QED BY <2>1, <2>2, <2>3, <2>4
<1>2. CASE Disconnect
  <2>1. /\ joining' = handle /\ handle' = NoWorker /\ handle # NoWorker /\ joining = NoWorker
        /\ cancel' = [cancel EXCEPT ![handle] = TRUE] /\ UNCHANGED <<slow, life>>
    BY <1>2 DEF Disconnect
  <2>2. handle \in Workers /\ \A v \in Workers : Alive(v)' <=> Alive(v)
    BY <2>1 DEF TypeOK, Alive
  <2>3. cancel'[handle] /\ \A v \in Workers : cancel[v] => cancel'[v]
    BY <2>1, <2>2 DEF TypeOK
  <2> QED BY <2>1, <2>2, <2>3
<1>3. CASE JoinReturns
  <2>1. /\ joining # NoWorker /\ joining' = NoWorker /\ UNCHANGED <<slow, handle, cancel, life>>
        /\ slow \/ life[joining] = "finished"
    BY <1>3 DEF JoinReturns, JoinExpires
  <2>2. \A v \in Workers : (Alive(v)' <=> Alive(v)) /\ (life[v] = "finished" => ~Alive(v))
    BY <2>1 DEF Alive
  <2> QED BY <2>1, <2>2
<1>4. CASE Reap
  <2>1. /\ handle # NoWorker /\ handle' = NoWorker /\ UNCHANGED <<slow, joining, cancel, life>>
        /\ life[handle] = "finished"
    BY <1>4 DEF Reap
  <2>2. \A v \in Workers : (Alive(v)' <=> Alive(v)) /\ (life[v] = "finished" => ~Alive(v))
    BY <2>1 DEF Alive
  <2> QED BY <2>1, <2>2
<1>5. CASE Apply \/ Push \/ UNCHANGED vars
  <2>1. UNCHANGED <<slow, handle, joining, cancel, life>>
    BY <1>5 DEF Apply, Push, vars, linkVars
  <2> QED BY <2>1 DEF Alive
<1>6. ASSUME NEW w \in Workers, Thread(w)
      PROVE  NoOrphanUncancelled' /\ HoldsOrJoins' /\ InHand'
  BY <1>6, Lives
<1> QED BY <1>1, <1>2, <1>3, <1>4, <1>5, <1>6 DEF Next, UI

LEMMA InsideStep ==
  TypeOK /\ InsideStands /\ [Next]_vars => InsideStands'
<1> SUFFICES ASSUME TypeOK, InsideStands, [Next]_vars PROVE InsideStands'
  OBVIOUS
<1> USE DEF InsideStands
<1>0. wpc \in [Workers -> {"out", "in", "asleep", "woken", "expired", "clearing"}]
  BY DEF TypeOK, CQ!TypeOK
<1>1. CASE Connect
  BY <1>1, ConnectPicks DEF Connect, queueVars, TypeOK
<1>2. CASE Disconnect \/ JoinReturns \/ Reap \/ Apply \/ UNCHANGED vars
  <2>1. UNCHANGED <<wpc, life>>
    BY <1>2 DEF Disconnect, JoinReturns, Reap, Apply, vars, queueVars, linkVars
  <2> QED BY <2>1
<1>3. CASE Push
  <2>1. life' = life /\ \A v \in Workers : wpc'[v] # "out" => wpc[v] # "out"
    BY <1>0, <1>3 DEF Push, linkVars, CQ!Producer, CQ!PushLoad, CQ!PushStore, CQ!PushNotify,
       CQ!Wake, CQ!Sleepers, CQ!workVars
  <2> QED BY <2>1
<1>4. ASSUME NEW w \in Workers, OpenReturns(w) \/ Close(w) \/ Finish(w) PROVE InsideStands'
  <2>1. wpc' = wpc /\ wpc[w] = "out"
    BY <1>4 DEF OpenReturns, Close, Finish, Move, queueVars
  <2>2. \A v \in Workers \ {w} : life'[v] = life[v]
    BY <1>4 DEF OpenReturns, Close, Finish, Move, TypeOK
  <2> QED BY <2>1, <2>2
<1>5. ASSUME NEW w \in Workers, SetActive(w) \/ Leave(w) PROVE InsideStands'
  <2>1. life'[w] \in {"draining", "detached"} /\ \A v \in Workers \ {w} : life'[v] = life[v]
    BY <1>5 DEF SetActive, Leave, Move, TypeOK
  <2>2. \A v \in Workers \ {w} : wpc'[v] = wpc[v]
    BY <1>0, <1>5 DEF SetActive, Leave, CQ!Attach, CQ!DetachStore, CQ!Step
  <2> QED BY <2>1, <2>2
<1>6. ASSUME NEW w \in Workers, Forward(w) \/ Clear(w) PROVE InsideStands'
  <2>1. life' = life /\ \A v \in Workers : wpc'[v] # "out" => wpc[v] # "out"
    BY <1>0, <1>6 DEF Forward, Clear, linkVars, CQ!Pop, CQ!DetachClear, CQ!Step
  <2> QED BY <2>1
<1> QED BY <1>1, <1>2, <1>3, <1>4, <1>5, <1>6 DEF Next, UI, Thread

LEMMA LatestStep ==
  TypeOK /\ InHand /\ HoldsOrJoins /\ LatestIsCurrent /\ [Next]_vars => LatestIsCurrent'
<1> SUFFICES ASSUME TypeOK, InHand, HoldsOrJoins, LatestIsCurrent, [Next]_vars, ~slow'
             PROVE  Latest' = "Connected" <=> \E w \in Workers : life'[w] \in Standing
  BY DEF LatestIsCurrent
<1>0. ~slow
  BY Lives DEF Next, UI, Connect, Disconnect, JoinReturns, Reap, Apply, Push, vars, linkVars
<1>1. Latest = "Connected" <=> \E w \in Workers : life[w] \in Standing
  BY <1>0 DEF LatestIsCurrent
<1>2. \A v, w \in Workers : Alive(v) /\ Alive(w) => v = w
  BY <1>0, LinkAssumption DEF InHand, HoldsOrJoins
<1>3. CASE Connect
  <2>1. \A v \in Workers : life'[v] \in Standing <=> life[v] \in Standing
    BY <1>3, ConnectPicks DEF TypeOK, Standing
  <2> QED BY <1>1, <1>3, <2>1 DEF Connect, Latest
<1>4. CASE Apply
  BY <1>1, <1>4, ApplyKeepsLatest DEF TypeOK, Apply
<1>5. CASE Disconnect \/ JoinReturns \/ Reap \/ Push \/ UNCHANGED vars
  <2>1. UNCHANGED <<life, chan, shown>>
    BY <1>5 DEF Disconnect, JoinReturns, Reap, Push, vars, linkVars
  <2> QED BY <1>1, <2>1 DEF Latest
<1>6. ASSUME NEW w \in Workers, OpenReturns(w) \/ Close(w)
      PROVE  Latest' = "Connected" <=> \E v \in Workers : life'[v] \in Standing
  <2>1. Alive(w) /\ \A v \in Workers \ {w} : life'[v] = life[v] /\ life'[v] \notin Standing
    <3>1. Alive(w) /\ Thread(w)
      BY <1>6 DEF OpenReturns, Close, Move, Alive, Thread
    <3> QED BY <1>2, <3>1, Lives DEF Alive, Standing
  <2>2. CASE life'[w] = "connected" /\ Post("Connected")
    BY <2>1, <2>2, PostIsLatest DEF TypeOK, Statuses, Standing
  <2>3. CASE life'[w] = "ending" /\ Post("Disconnected")
    BY <2>1, <2>3, PostIsLatest DEF TypeOK, Statuses, Standing
  <2> QED BY <1>6, <2>2, <2>3 DEF OpenReturns, Close, Move, TypeOK
<1>7. ASSUME NEW w \in Workers, SetActive(w) \/ Forward(w) \/ Leave(w) \/ Clear(w) \/ Finish(w)
      PROVE  Latest' = "Connected" <=> \E v \in Workers : life'[v] \in Standing
  <2>1. UNCHANGED <<chan, shown>>
        /\ \A v \in Workers : life'[v] \in Standing <=> life[v] \in Standing
    BY <1>7 DEF SetActive, Forward, Leave, Clear, Finish, Move, linkVars, TypeOK, Standing
  <2> QED BY <1>1, <2>1 DEF Latest
<1> QED BY <1>3, <1>4, <1>5, <1>6, <1>7 DEF Next, UI, Thread

LEMMA IInvariant == Init /\ [][Next]_vars => []IInv
<1>1. IInv /\ [Next]_vars => IInv'
  BY TypesStep, HandsStep, InsideStep, LatestStep DEF IInv
<1> QED BY IInvInit, <1>1, PTL

\* toggle_serial, drain_events, reap: types, the state the UI shows once it has
\* drained its channel, and no worker that is neither held nor told to stop.
THEOREM LinkHolds == Spec => []LinkInv
<1>1. IInv => LinkInv
  BY DEF IInv, LinkInv, ShownIsCurrent, LatestIsCurrent, Latest, Standing
<1> QED BY IInvariant, <1>1, PTL DEF Spec

-------------------------------------------------------------------------------
(* The queue's intended use *)

LEMMA StepsAsIntended == IInv /\ [Next]_vars => [slow \/ CQ!Next]_queueVars
<1> SUFFICES ASSUME IInv, [Next]_vars, ~slow PROVE CQ!Next \/ UNCHANGED queueVars
  OBVIOUS
<1> USE DEF CQ!Next
<1>1. CASE UI \/ UNCHANGED vars
  BY <1>1 DEF UI, Connect, Disconnect, JoinReturns, Reap, Apply, vars
<1>2. CASE Push
  BY <1>2 DEF Push
<1>3. ASSUME NEW w \in Workers, SetActive(w) PROVE CQ!Next
  <2>1. Alive(w) /\ life[w] = "connected" /\ CQ!Attach(w)
    BY <1>3 DEF SetActive, Move, Alive
  <2>2. ASSUME NEW v \in Workers, wpc[v] # "out" PROVE FALSE
    <3>1. Alive(v) /\ life[v] # "connected"
      BY <2>2 DEF IInv, InsideStands, Alive
    <3>2. v = w
      BY <2>1, <3>1, LinkAssumption DEF IInv, InHand, HoldsOrJoins
    <3> QED BY <2>1, <3>1, <3>2
  <2> QED BY <2>1, <2>2 DEF CQ!Alone, CQ!Worker
<1>4. ASSUME NEW w \in Workers, Thread(w), ~SetActive(w)
      PROVE  CQ!Next \/ UNCHANGED queueVars
  BY <1>4 DEF Thread, OpenReturns, Forward, Leave, Clear, Close, Finish, CQ!Worker
<1> QED BY <1>1, <1>2, <1>3, <1>4 DEF Next

\* main_window.rs: the toggle with its join makes the workers attach one at a
\* time; only a worker abandoned in a slow open is the exception.
THEOREM UsedAsIntended == Spec => QueueUsedAsIntended
<1>1. Init => CQ!Init
  BY DEF Init
<1> QED BY <1>1, IInvariant, StepsAsIntended, PTL DEF Spec, QueueUsedAsIntended

\* So what CorrQueue guarantees holds in the application, while the driver
\* answers in time: no session replays a stale block, every push is accounted
\* for, and one that was refused had nobody to serve.
THEOREM GuaranteesHold ==
  Spec /\ ~slow => /\ [](CQ!NoStaleReplay /\ CQ!EveryBlockAccounted)
                   /\ CQ!InactiveMeansNoWorker
<1>1. ~slow /\ [Next]_vars => ~slow'
  BY DEF Next, UI, Connect, Disconnect, JoinReturns, Reap, Apply, Push, Thread, OpenReturns,
         SetActive, Forward, Leave, Clear, Close, Finish, vars, linkVars
<1>2. ~slow /\ [slow \/ CQ!Next]_queueVars => [CQP!Next]_CQP!cqvars
  <2> SUFFICES ASSUME CQ!Next \/ UNCHANGED queueVars PROVE CQP!Next \/ UNCHANGED CQP!cqvars
    OBVIOUS
  <2>1. CQ!Producer => CQP!Producer
    BY DEF CQ!Producer, CQ!PushLoad, CQ!PushStore, CQ!PushNotify, CQ!Wake, CQ!Sleepers,
           CQ!Room, CQ!Overrun, CQ!Cap, CQ!dequeVars, CQ!workVars,
           CQP!Producer, CQP!PushLoad, CQP!PushStore, CQP!PushNotify, CQP!Wake, CQP!Sleepers,
           CQP!Room, CQP!Overrun, CQP!Cap, CQP!dequeVars, CQP!workVars
  <2>2. ASSUME NEW w \in Workers, CQ!Worker(w) PROVE CQP!Worker(w)
    BY <2>2 DEF CQ!Worker, CQP!Worker, CQ!Alone, CQP!Alone,
         CQ!Attach, CQ!Pop, CQ!Sleep, CQ!Expire, CQ!DetachStore, CQ!DetachClear, CQ!Step,
         CQ!MutexFree, CQ!Backlog, CQ!dequeVars, CQ!pushVars,
         CQP!Attach, CQP!Pop, CQP!Sleep, CQP!Expire, CQP!DetachStore, CQP!DetachClear,
         CQP!Step, CQP!MutexFree, CQP!Backlog, CQP!dequeVars, CQP!pushVars
  <2>3. UNCHANGED queueVars => UNCHANGED CQP!cqvars
    BY DEF queueVars, CQP!cqvars, CQP!dequeVars, CQP!pushVars, CQP!workVars
  <2> QED BY <2>1, <2>2, <2>3 DEF CQ!Next, CQP!Next
<1>3. Init => CQP!Init
  BY DEF Init, CQ!Init, CQP!Init, CQ!NoBlock, CQP!NoBlock
<1>4. Spec /\ ~slow => CQP!Spec
  BY <1>1, <1>2, <1>3, IInvariant, StepsAsIntended, PTL DEF Spec, CQP!Spec
<1>5. CQP!Spec => []CQP!NoStaleReplay
  BY QueueAssumption, CQP!NeverStale
<1>6. CQP!Spec => []CQP!EveryBlockAccounted
  BY QueueAssumption, CQP!NoBlockVanishes
<1>7. CQP!Spec => CQP!InactiveMeansNoWorker
  BY QueueAssumption, CQP!RefusedOnlyWithoutWorker
<1>8. (CQP!NoStaleReplay => CQ!NoStaleReplay) /\ (CQP!EveryBlockAccounted => CQ!EveryBlockAccounted)
  BY DEF CQP!NoStaleReplay, CQ!NoStaleReplay, CQP!EveryBlockAccounted, CQ!EveryBlockAccounted
<1>9. [rejected' # rejected => \A w \in Workers : ~CQP!Attached(w)]_CQP!cqvars
        => [rejected' # rejected => \A w \in Workers : ~CQ!Attached(w)]_CQ!cqvars
  BY DEF CQP!Attached, CQ!Attached, CQ!cqvars, CQ!dequeVars, CQ!pushVars, CQ!workVars,
         CQP!cqvars, CQP!dequeVars, CQP!pushVars, CQP!workVars
<1>10. CQP!InactiveMeansNoWorker => CQ!InactiveMeansNoWorker
  BY <1>9, PTL DEF CQP!InactiveMeansNoWorker, CQ!InactiveMeansNoWorker
<1> QED BY <1>4, <1>5, <1>6, <1>7, <1>8, <1>10, PTL
===============================================================================
