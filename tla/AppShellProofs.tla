---------------------------- MODULE AppShellProofs ----------------------------
(***************************************************************************)
(* What the window shows of a session, for any number of sessions, any     *)
(* profiles and tables, and a channel of any length.                       *)
(*                                                                         *)
(* The window is some events behind its worker.  Drained is what a frame   *)
(* would make of them now: a post is one Apply on it, and a frame makes it *)
(* the state.  So the invariant compares the worker with Drained, and what *)
(* is shown with Drained where nothing is left to drain.                   *)
(*                                                                         *)
(* Last, its bounded readouts (Readouts), which share no state with that.  *)
(***************************************************************************)
EXTENDS AppShell, Readouts, SequenceTheorems, NaturalsInduction, WellFoundedInduction, TLAPS

\* A set of numbers has a least one.
LEMMA LeastNumber ==
  ASSUME NEW T \in SUBSET Nat, T # {}
  PROVE  \E m \in T : \A k \in T : m <= k
<1>1. PICK m \in T : \A k \in T : ~(<<k, m>> \in OpToRel(<, Nat))
  BY NatLessThanWellFounded, WFMin, Zenon
<1>2. \A k \in T : ~(k < m)
  BY <1>1, Zenon DEF OpToRel
<1> QED BY <1>2

-------------------------------------------------------------------------------
(* Draining event by event *)

\* f holds what is made of u by the first n events of s, and fewer.
Run(f, p, u, s, n) == /\ f = [k \in 0 .. n |-> f[k]]
                      /\ f[0] = u
                      /\ \A k \in 1 .. n : f[k] = Apply(p, f[k - 1], s[k])

\* A run goes one event further.
LEMMA RunsOn ==
  ASSUME NEW p, NEW u, NEW s, NEW n \in Nat, NEW f, Run(f, p, u, s, n)
  PROVE  \E g : Run(g, p, u, s, n + 1)
<1> DEFINE g == [k \in 0 .. n + 1 |-> IF k = n + 1 THEN Apply(p, f[n], s[n + 1]) ELSE f[k]]
<1>1. \A k \in 0 .. n : g[k] = f[k]
  OBVIOUS
<1>2. g[n + 1] = Apply(p, f[n], s[n + 1])
  OBVIOUS
<1>3. g = [k \in 0 .. n + 1 |-> g[k]]
  OBVIOUS
<1> HIDE DEF g
<1>4. \A k \in 1 .. n : g[k] = Apply(p, g[k - 1], s[k])
  <2> SUFFICES ASSUME NEW k \in 1 .. n PROVE g[k] = Apply(p, g[k - 1], s[k])
    OBVIOUS
  <2>1. g[k] = f[k] /\ g[k - 1] = f[k - 1]
    BY <1>1
  <2>2. f[k] = Apply(p, f[k - 1], s[k])
    BY DEF Run
  <2> QED BY <2>1, <2>2
<1>5. g[n + 1] = Apply(p, g[(n + 1) - 1], s[n + 1])
  <2>1. g[n] = f[n] /\ (n + 1) - 1 = n
    BY <1>1
  <2> QED BY <1>2, <2>1
<1>6. \A k \in 1 .. n + 1 : g[k] = Apply(p, g[k - 1], s[k])
  <2> SUFFICES ASSUME NEW k \in 1 .. n + 1 PROVE g[k] = Apply(p, g[k - 1], s[k])
    OBVIOUS
  <2>1. CASE k \in 1 .. n
    BY <1>4, <2>1
  <2>2. CASE k = n + 1
    BY <1>5, <2>2
  <2> QED BY <2>1, <2>2
<1>7. g[0] = u
  BY <1>1 DEF Run
<1> QED BY <1>3, <1>6, <1>7 DEF Run

\* There is a run of any length.
LEMMA RunExists ==
  ASSUME NEW p, NEW u, NEW s, NEW n \in Nat
  PROVE  \E f : Run(f, p, u, s, n)
<1> DEFINE Runs(m) == \E f : Run(f, p, u, s, m)
           T == {m \in Nat : ~Runs(m)}
<1>1. Runs(0)
  <2> DEFINE f == [k \in 0 .. 0 |-> u]
  <2>1. f = [k \in 0 .. 0 |-> f[k]] /\ f[0] = u
    OBVIOUS
  <2> HIDE DEF f
  <2>2. Run(f, p, u, s, 0)
    BY <2>1 DEF Run
  <2> QED BY <2>2
<1>2. \A m \in Nat : Runs(m) => Runs(m + 1)
  BY RunsOn
<1> HIDE DEF Runs
<1>3. T = {}
  <2> SUFFICES ASSUME T # {} PROVE FALSE
    OBVIOUS
  <2>1. PICK m \in T : \A k \in T : m <= k
    BY LeastNumber
  <2>2. m \in Nat /\ ~Runs(m)
    OBVIOUS
  <2>3. m # 0
    BY <1>1, <2>2
  <2>4. m - 1 \in Nat /\ m - 1 \notin T
    BY <2>1, <2>2, <2>3
  <2>5. Runs(m - 1)
    BY <2>4
  <2>6. Runs((m - 1) + 1)
    BY <1>2, <2>4, <2>5
  <2> QED BY <2>2, <2>6
<1>4. Runs(n)
  BY <1>3
<1> QED BY <1>4 DEF Runs

\* Applied is where a run ends.
LEMMA AppliedRuns ==
  ASSUME NEW p, NEW u, NEW S, NEW s \in Seq(S)
  PROVE  \E f : Run(f, p, u, s, Len(s)) /\ Applied(p, u, s) = f[Len(s)]
<1> DEFINE N == Len(s)
           F(g) == [n \in 0 .. N |-> IF n = 0 THEN u ELSE Apply(p, g[n - 1], s[n])]
           f == CHOOSE g : g = F(g)
<1>0. N \in Nat
  BY LenProperties
<1>1. Applied(p, u, s) = f[N]
  BY DEF Applied
<1>2. PICK g : Run(g, p, u, s, N)
  BY <1>0, RunExists
<1> HIDE DEF N
<1>3. g = F(g)
  <2>1. g = [k \in 0 .. N |-> g[k]] /\ g[0] = u /\ \A k \in 1 .. N : g[k] = Apply(p, g[k - 1], s[k])
    BY <1>2 DEF Run
  <2>2. \A k \in 0 .. N : g[k] = IF k = 0 THEN u ELSE Apply(p, g[k - 1], s[k])
    <3> SUFFICES ASSUME NEW k \in 0 .. N
                 PROVE  g[k] = IF k = 0 THEN u ELSE Apply(p, g[k - 1], s[k])
      OBVIOUS
    <3>1. CASE k = 0
      BY <2>1, <3>1
    <3>2. CASE k # 0
      <4>1. k \in 1 .. N
        BY <1>0, <3>2
      <4> QED BY <2>1, <3>2, <4>1
    <3> QED BY <3>1, <3>2
  <2> QED BY <2>1, <2>2
<1>4. f = F(f)
  <2> HIDE DEF F
  <2>1. \E h : h = F(h)
    BY <1>3
  <2> QED BY <2>1
<1> HIDE DEF f
<1>5. Run(f, p, u, s, N)
  <2>1. \A k \in 0 .. N : f[k] = IF k = 0 THEN u ELSE Apply(p, f[k - 1], s[k])
    BY <1>4
  <2>2. f[0] = u
    BY <1>0, <2>1
  <2>3. \A k \in 1 .. N : k \in 0 .. N /\ k # 0
    BY <1>0
  <2>4. \A k \in 1 .. N : f[k] = Apply(p, f[k - 1], s[k])
    BY <2>1, <2>3
  <2>5. f = [k \in 0 .. N |-> f[k]]
    BY <1>4
  <2> QED BY <2>2, <2>4, <2>5 DEF Run
<1> QED BY <1>1, <1>5 DEF N

\* Induction up to a bound, on the members of a set.
LEMMA Climb ==
  ASSUME NEW N \in Nat, NEW G, 0 \in G, \A n \in Nat : n < N /\ n \in G => n + 1 \in G
  PROVE  \A n \in 0 .. N : n \in G
<1> DEFINE T == {n \in 0 .. N : n \notin G}
<1>1. T = {}
  <2> SUFFICES ASSUME T # {} PROVE FALSE
    OBVIOUS
  <2>1. T \in SUBSET Nat
    OBVIOUS
  <2>2. PICK m \in T : \A k \in T : m <= k
    BY <2>1, LeastNumber
  <2>3. m \in 0 .. N /\ m \notin G /\ m # 0
    OBVIOUS
  <2>4. m - 1 \in Nat /\ m - 1 < N /\ m - 1 \notin T
    BY <2>2, <2>3
  <2>5. m - 1 \in G
    BY <2>3, <2>4
  <2>6. (m - 1) + 1 \in G
    BY <2>4, <2>5
  <2> QED BY <2>3, <2>6
<1> QED BY <1>1

\* Runs over the same events make the same.
LEMMA RunsAgree ==
  ASSUME NEW p, NEW u, NEW s, NEW t, NEW n \in Nat, NEW m \in Nat, n <= m,
         NEW f, NEW g, Run(f, p, u, s, n), Run(g, p, u, t, m),
         \A k \in 1 .. n : s[k] = t[k]
  PROVE  f[n] = g[n]
<1> DEFINE G == {k \in 0 .. n : f[k] = g[k]}
<1>1. 0 \in G
  BY DEF Run
<1>2. \A k \in Nat : k < n /\ k \in G => k + 1 \in G
  <2> SUFFICES ASSUME NEW k \in Nat, k < n, f[k] = g[k] PROVE f[k + 1] = g[k + 1]
    OBVIOUS
  <2>1. k + 1 \in 1 .. n /\ k + 1 \in 1 .. m /\ (k + 1) - 1 = k
    OBVIOUS
  <2>2. f[k + 1] = Apply(p, f[(k + 1) - 1], s[k + 1]) /\ g[k + 1] = Apply(p, g[(k + 1) - 1], t[k + 1])
    BY <2>1 DEF Run
  <2>3. s[k + 1] = t[k + 1]
    BY <2>1
  <2> QED BY <2>1, <2>2, <2>3
<1> HIDE DEF G
<1>3. n \in G
  BY <1>1, <1>2, Climb
<1> QED BY <1>3 DEF G

\* Nothing drained changes nothing.
LEMMA AppliedNone ==
  ASSUME NEW p, NEW u
  PROVE  Applied(p, u, <<>>) = u
<1>1. <<>> \in Seq({})
  OBVIOUS
<1>2. PICK f : Run(f, p, u, <<>>, Len(<<>>)) /\ Applied(p, u, <<>>) = f[Len(<<>>)]
  BY <1>1, AppliedRuns
<1> QED BY <1>2 DEF Run

\* One event more is one Apply more.
LEMMA AppliedMore ==
  ASSUME NEW p, NEW u, NEW S, NEW s \in Seq(S), NEW e \in S
  PROVE  Applied(p, u, Append(s, e)) = Apply(p, Applied(p, u, s), e)
<1> DEFINE n == Len(s)
           t == Append(s, e)
<1>1. t \in Seq(S) /\ Len(t) = n + 1 /\ n \in Nat /\ t[n + 1] = e /\ \A k \in 1 .. n : s[k] = t[k]
  OBVIOUS
<1>2. PICK f : Run(f, p, u, s, n) /\ Applied(p, u, s) = f[n]
  BY AppliedRuns
<1> HIDE DEF n, t
<1>3. PICK g : Run(g, p, u, t, Len(t)) /\ Applied(p, u, t) = g[Len(t)]
  BY <1>1, AppliedRuns
<1>4. Run(g, p, u, t, n + 1) /\ Applied(p, u, t) = g[n + 1]
  BY <1>1, <1>3
<1>5. f[n] = g[n]
  BY <1>1, <1>2, <1>4, RunsAgree
<1>6. n + 1 \in 1 .. n + 1 /\ (n + 1) - 1 = n
  BY <1>1
<1>7. g[n + 1] = Apply(p, g[(n + 1) - 1], t[n + 1])
  <2>1. \A k \in 1 .. n + 1 : g[k] = Apply(p, g[k - 1], t[k])
    BY <1>4 DEF Run
  <2> QED BY <1>6, <2>1
<1> QED BY <1>1, <1>2, <1>4, <1>5, <1>6, <1>7 DEF t
-------------------------------------------------------------------------------
(* The invariant *)

Hosts    == {p.host : p \in Profiles}
Lists    == UNION {Listings[h] : h \in Hosts}
Tables   == {t \in [host : Hosts, strs : Lists] : t.strs \in Listings[t.host]}
Texts    == {"", "starved", "refused", "lost", "unknown", "not found", "no connection",
             "by user", "downloaded"}
Kinds    == {"Idle", "Connecting", "WaitingForData", "Streaming", "ReconnectWait", "Stopped"}
Statuses == [kind : Kinds, attempt : Nat, why : Texts, failed : BOOLEAN]
Figures  == [total : Nat, frames : Nat, garbage : BOOLEAN, trouble : Texts, last_close : Texts]
Phases   == {"start", "connecting", "waiting", "streaming", "ended", "retry", "done"}
Events   == [kind : {"status"}, ses : Nat, v : Statuses]
            \cup [kind : {"close", "trouble"}, ses : Nat, v : Texts]
            \cup [kind : {"rx"}, ses : Nat, v : Nat]
            \cup [kind : {"rtcm"}, ses : Nat, v : {"frame", "garbage"}]
            \cup [kind : {"unknown"}, ses : Nat, v : Nat \ {0}]
            \cup [kind : {"table"}, ses : Nat, v : Tables]

\* What is shown is well formed; an unknown response that is counted is there.
ShownOK(u) ==
  /\ u = [status |-> u.status, since |-> u.since, last_rx |-> u.last_rx, figures |-> u.figures,
          unknown |-> u.unknown, sourcetable |-> u.sourcetable, tab |-> u.tab, ntrip |-> u.ntrip,
          insecure |-> u.insecure, flag |-> u.flag]
  /\ u.status \in Statuses /\ u.figures \in Figures
  /\ u.since \in {"recent", "old"} /\ u.last_rx \in {"none", "recent", "old"}
  /\ u.unknown \in [raw : Nat, gen : Nat] /\ (u.unknown.gen > 0 => u.unknown.raw # 0)
  /\ u.insecure \in BOOLEAN
  /\ u.sourcetable = <<>> \/ \E t \in Tables : u.sourcetable = <<t>>

WorkerOK(w) ==
  /\ w = [job |-> w.job, phase |-> w.phase, cancelled |-> w.cancelled, attempts |-> w.attempts,
          total |-> w.total, frames |-> w.frames, told |-> w.told, why |-> w.why, again |-> w.again]
  /\ w.phase \in Phases /\ w.cancelled \in BOOLEAN /\ w.why \in Texts
  /\ w.attempts \in Nat /\ w.total \in Nat /\ w.frames \in Nat

TypeOK ==
  /\ profile = [name |-> profile.name, host |-> profile.host, mount |-> profile.mount,
                raw |-> profile.raw, insecure |-> profile.insecure]
  /\ profile.host \in Hosts /\ profile.insecure \in BOOLEAN
  /\ ShownOK(Shown) /\ chan \in Seq(Events)
  /\ workers = [id \in DOMAIN workers |-> workers[id]]
  /\ \A id \in DOMAIN workers : WorkerOK(workers[id])
  /\ sessions \in Nat /\ ack \in Nat /\ meter \in [level : Nat, last : Nat]

\* One session at a time: its worker, its handle and its posts, and nothing of
\* an earlier one.  The handle goes with the last thing the worker says.
OneAtATime ==
  /\ DOMAIN workers \subseteq {sessions} /\ from \subseteq {sessions}
  /\ Busy => ntrip[1].id = sessions
  /\ ~Busy => DOMAIN workers = {} /\ chan = <<>>
  /\ \A i \in DOMAIN chan : chan[i].ses = sessions
  /\ Drained.ntrip = IF DOMAIN workers = {} THEN <<>> ELSE ntrip

\* What the window has been told of a worker in each of its phases.
Told(w, u) ==
  /\ u.figures.total = w.total /\ u.figures.frames = w.frames
  /\ w.phase = "connecting" => u.status.kind = "Connecting"
  /\ w.phase = "waiting" => u.status.kind = "WaitingForData"
  /\ w.phase = "streaming" => u.status.kind = "Streaming" /\ u.figures.trouble = ""
  /\ w.phase = "retry" => u.status.kind = "ReconnectWait" /\ u.figures.last_close = w.why /\ w.why # ""
  /\ w.phase = "ended" /\ ~w.cancelled => w.why # ""

\* And of how the last one ended.
ToldTheEnd(u) ==
  /\ u.status.kind \in {"Idle", "Stopped"}
  /\ u.status.kind = "Stopped" =>
       /\ ended # <<>> /\ u.status.why = ended[1].why /\ u.status.failed = ended[1].failed
       /\ u.status.failed => u.status.why # ""
UpToDate == /\ \A id \in DOMAIN workers : Told(workers[id], Drained)
            /\ DOMAIN workers = {} => ToldTheEnd(Drained)

\* The figures begin with the session, and the bar moves for what came in it.
Counted == /\ from = {} => figures = Fresh /\ last_rx = "none"
           /\ meter.level > 0 => figures.total > 0 \/ status.kind = "Idle"

\* The banner, and the warnings of what came unasked.
Warned ==
  /\ \A id \in DOMAIN workers : workers[id].job.insecure => insecure_tls_active /\ Drained.insecure
  /\ insecure_tls_active => Busy
  /\ Drained.insecure => DOMAIN workers # {}
  /\ ack <= unknown.gen /\ unknown.gen <= Drained.unknown.gen

\* The log's word on a mountpoint is the table's, and of the session's target.
WordOf(entry) == IF entry = <<>> THEN "unknown" ELSE entry[1].nmea
FlagTrue(u) ==
  u.flag # <<>> =>
    /\ u.sourcetable # <<>> /\ u.sourcetable[1].host = u.flag[1].host =>
         u.flag[1].says = WordOf(Entry(u.sourcetable[1].strs, u.flag[1].mount))
    /\ Busy => /\ u.flag[1].host = profile.host /\ u.flag[1].mount = profile.mount
               /\ profile.mount # ""
WellInformed(job) ==
  /\ job.host \in Hosts
  /\ job.requires # "unknown" =>
       /\ \E strs \in Listings[job.host] :
            Entry(strs, job.mount) # <<>> /\ Entry(strs, job.mount)[1].nmea = job.requires
       /\ job.logged \in {"", job.requires}
Own == /\ FlagTrue(Drained)
       /\ \A id \in DOMAIN workers : WellInformed(workers[id].job) /\ workers[id].job.name = profile.name

WindowInv == /\ TypeOK /\ OneAtATime /\ UpToDate /\ Counted /\ Warned /\ Own
-------------------------------------------------------------------------------
(* What each event does *)

AfterStatus(u, e, v) ==
  /\ e.v \in Statuses
  /\ v.status = e.v /\ v.since = "recent"
  /\ v.figures.total = u.figures.total /\ v.figures.frames = u.figures.frames
  /\ v.figures.trouble = (IF e.v.kind = "Streaming" THEN "" ELSE u.figures.trouble)
  /\ v.figures.last_close = u.figures.last_close
  /\ v.unknown = u.unknown /\ v.sourcetable = u.sourcetable /\ v.flag = u.flag
  /\ v.ntrip = (IF e.v.kind = "Stopped" THEN <<>> ELSE u.ntrip)
  /\ v.insecure = (u.insecure /\ e.v.kind # "Stopped")

AfterClose(u, e, v) ==
  /\ v.status = u.status
  /\ v.figures.total = u.figures.total /\ v.figures.frames = u.figures.frames
  /\ v.figures.trouble = u.figures.trouble /\ v.figures.last_close = e.v
  /\ v.unknown = u.unknown /\ v.sourcetable = u.sourcetable /\ v.flag = u.flag
  /\ v.ntrip = u.ntrip /\ v.insecure = u.insecure

AfterRx(u, e, v) ==
  /\ v.status = u.status
  /\ v.figures.total = e.v /\ v.figures.frames = u.figures.frames
  /\ v.figures.trouble = u.figures.trouble /\ v.figures.last_close = u.figures.last_close
  /\ v.unknown = u.unknown /\ v.sourcetable = u.sourcetable /\ v.flag = u.flag
  /\ v.ntrip = u.ntrip /\ v.insecure = u.insecure

AfterRtcm(u, e, v) ==
  /\ v.status = u.status
  /\ v.figures.total = u.figures.total
  /\ v.figures.frames = u.figures.frames + (IF e.v = "frame" THEN 1 ELSE 0)
  /\ v.figures.trouble = u.figures.trouble /\ v.figures.last_close = u.figures.last_close
  /\ v.unknown = u.unknown /\ v.sourcetable = u.sourcetable /\ v.flag = u.flag
  /\ v.ntrip = u.ntrip /\ v.insecure = u.insecure

AfterTrouble(u, e, v) ==
  /\ v.status = u.status
  /\ v.figures.total = u.figures.total /\ v.figures.frames = u.figures.frames
  /\ v.figures.trouble = e.v /\ v.figures.last_close = u.figures.last_close
  /\ v.unknown = u.unknown /\ v.sourcetable = u.sourcetable /\ v.flag = u.flag
  /\ v.ntrip = u.ntrip /\ v.insecure = u.insecure

AfterUnknown(u, e, v) ==
  /\ v.status = u.status /\ v.figures = u.figures
  /\ v.unknown.gen = u.unknown.gen + 1
  /\ v.sourcetable = u.sourcetable /\ v.flag = u.flag
  /\ v.ntrip = u.ntrip /\ v.insecure = u.insecure

AfterTable(p, u, e, v) ==
  /\ v.status = u.status /\ v.figures = u.figures /\ v.unknown = u.unknown
  /\ v.sourcetable = <<e.v>> /\ e.v \in Tables
  /\ v.flag = (IF p.mount = "" \/ p.host # e.v.host THEN u.flag
               ELSE <<[host |-> e.v.host, mount |-> p.mount,
                       says |-> WordOf(Entry(e.v.strs, p.mount))]>>)
  /\ v.ntrip = u.ntrip /\ v.insecure = u.insecure

\* Each kind of event, on a well-formed state: the result is one too, and what
\* became of its fields.
LEMMA StatusApplied ==
  ASSUME NEW p, NEW u, ShownOK(u), NEW e \in Events, e.kind = "status"
  PROVE  ShownOK(Apply(p, u, e)) /\ AfterStatus(u, e, Apply(p, u, e))
<1>1. e.v \in Statuses
  BY DEF Events
<1>2. Apply(p, u, e) =
        [u EXCEPT !.status = e.v, !.since = "recent", !.figures.trouble = TroubleAt(u, e.v),
                  !.ntrip = HandleAt(u, e.v), !.insecure = @ /\ e.v.kind # "Stopped"]
  BY DEF Apply
<1>3. TroubleAt(u, e.v) \in Texts
  <2>1. u.figures \in Figures
    BY DEF ShownOK
  <2>2. u.figures.trouble \in Texts /\ "" \in Texts
    BY <2>1 DEF Figures, Texts
  <2> QED BY <2>2 DEF TroubleAt
<1> DEFINE f == [u.figures EXCEPT !.trouble = TroubleAt(u, e.v)]
           i == u.insecure /\ e.v.kind # "Stopped"
<1>4. u.figures \in Figures
  BY DEF ShownOK
<1>5. /\ f \in Figures /\ f.total = u.figures.total /\ f.frames = u.figures.frames
      /\ f.trouble = TroubleAt(u, e.v) /\ f.last_close = u.figures.last_close
  BY <1>3, <1>4 DEF Figures
<1>6. i \in BOOLEAN
  OBVIOUS
<1>7. Apply(p, u, e) =
        [status |-> e.v, since |-> "recent", last_rx |-> u.last_rx, figures |-> f,
         unknown |-> u.unknown, sourcetable |-> u.sourcetable, tab |-> u.tab,
         ntrip |-> HandleAt(u, e.v), insecure |-> i, flag |-> u.flag]
  BY <1>2 DEF ShownOK
<1> HIDE DEF f
<1>8. ShownOK(Apply(p, u, e))
  BY <1>1, <1>5, <1>6, <1>7 DEF ShownOK
<1>9. Apply(p, u, e).insecure = i
  BY <1>7
<1> HIDE DEF i
<1>10. /\ Apply(p, u, e).status = e.v /\ Apply(p, u, e).since = "recent"
       /\ Apply(p, u, e).figures = f /\ Apply(p, u, e).unknown = u.unknown
       /\ Apply(p, u, e).sourcetable = u.sourcetable /\ Apply(p, u, e).flag = u.flag
       /\ Apply(p, u, e).ntrip = HandleAt(u, e.v)
  BY <1>7
<1> QED BY <1>1, <1>5, <1>8, <1>9, <1>10 DEF TroubleAt, HandleAt, i, AfterStatus

LEMMA CloseApplied ==
  ASSUME NEW p, NEW u, ShownOK(u), NEW e \in Events, e.kind = "close"
  PROVE  ShownOK(Apply(p, u, e)) /\ AfterClose(u, e, Apply(p, u, e))
  BY DEF Apply, ShownOK, Events, Figures, AfterClose

LEMMA RxApplied ==
  ASSUME NEW p, NEW u, ShownOK(u), NEW e \in Events, e.kind = "rx"
  PROVE  ShownOK(Apply(p, u, e)) /\ AfterRx(u, e, Apply(p, u, e))
  BY DEF Apply, ShownOK, Events, Figures, AfterRx

LEMMA RtcmApplied ==
  ASSUME NEW p, NEW u, ShownOK(u), NEW e \in Events, e.kind = "rtcm"
  PROVE  ShownOK(Apply(p, u, e)) /\ AfterRtcm(u, e, Apply(p, u, e))
<1> DEFINE f == [u.figures EXCEPT !.frames = IF e.v = "frame" THEN @ + 1 ELSE @,
                                  !.garbage = @ \/ e.v = "garbage"]
<1>1. Apply(p, u, e) = [u EXCEPT !.figures = f]
  BY DEF Apply, ShownOK
<1>0. u.figures \in Figures
  BY DEF ShownOK
<1>2. f \in Figures
  <2>1. (u.figures.garbage \/ e.v = "garbage") \in BOOLEAN
    BY <1>0 DEF Figures
  <2>2. (IF e.v = "frame" THEN u.figures.frames + 1 ELSE u.figures.frames) \in Nat
    BY <1>0 DEF Figures
  <2> DEFINE n == IF e.v = "frame" THEN u.figures.frames + 1 ELSE u.figures.frames
             g == u.figures.garbage \/ e.v = "garbage"
  <2>3. f = [u.figures EXCEPT !.frames = n, !.garbage = g]
    BY <1>0 DEF Figures
  <2>4. n \in Nat /\ g \in BOOLEAN
    BY <2>1, <2>2
  <2> HIDE DEF f, n, g
  <2> QED BY <1>0, <2>3, <2>4 DEF Figures
<1>3. /\ f.total = u.figures.total /\ f.frames = u.figures.frames + (IF e.v = "frame" THEN 1 ELSE 0)
      /\ f.trouble = u.figures.trouble /\ f.last_close = u.figures.last_close
  BY <1>0 DEF Figures
<1> HIDE DEF f
<1> QED BY <1>1, <1>2, <1>3 DEF ShownOK, AfterRtcm

LEMMA TroubleApplied ==
  ASSUME NEW p, NEW u, ShownOK(u), NEW e \in Events, e.kind = "trouble"
  PROVE  ShownOK(Apply(p, u, e)) /\ AfterTrouble(u, e, Apply(p, u, e))
  BY DEF Apply, ShownOK, Events, Figures, AfterTrouble

LEMMA UnknownApplied ==
  ASSUME NEW p, NEW u, ShownOK(u), NEW e \in Events, e.kind = "unknown"
  PROVE  ShownOK(Apply(p, u, e)) /\ AfterUnknown(u, e, Apply(p, u, e))
  BY DEF Apply, ShownOK, Events, AfterUnknown

LEMMA TableApplied ==
  ASSUME NEW p, NEW u, ShownOK(u), NEW e \in Events, e.kind = "table"
  PROVE  ShownOK(Apply(p, u, e)) /\ AfterTable(p, u, e, Apply(p, u, e))
  BY DEF Apply, ShownOK, Events, WordOf, AfterTable

\* The kinds there are.
LEMMA KindsOfEvents ==
  ASSUME NEW e \in Events
  PROVE  e.kind \in {"status", "close", "rx", "rtcm", "trouble", "unknown", "table"}
  BY DEF Events

\* Two times and the tab apart, no event tells one from the other.
Alike(u, v) ==
  /\ u.status = v.status /\ u.figures = v.figures /\ u.unknown = v.unknown
  /\ u.sourcetable = v.sourcetable /\ u.ntrip = v.ntrip /\ u.insecure = v.insecure
  /\ u.flag = v.flag

\* States alike but for their times stay so under an event.
LEMMA AlikeApplied ==
  ASSUME NEW p, NEW u, NEW v, ShownOK(u), ShownOK(v), Alike(u, v), NEW e \in Events
  PROVE  /\ ShownOK(Apply(p, u, e)) /\ ShownOK(Apply(p, v, e))
         /\ Alike(Apply(p, u, e), Apply(p, v, e))
<1> DEFINE x == Apply(p, u, e)
           y == Apply(p, v, e)
<1>0. /\ u.figures = v.figures /\ u.unknown = v.unknown /\ u.status = v.status
      /\ u.sourcetable = v.sourcetable /\ u.ntrip = v.ntrip /\ u.insecure = v.insecure
      /\ u.flag = v.flag
  BY DEF Alike
<1>1. CASE e.kind = "status"
  <2>1. ShownOK(x) /\ AfterStatus(u, e, x) /\ ShownOK(y) /\ AfterStatus(v, e, y)
    BY <1>1, StatusApplied
  <2>2. /\ x.figures = [u.figures EXCEPT !.trouble = TroubleAt(u, e.v)]
        /\ y.figures = [v.figures EXCEPT !.trouble = TroubleAt(v, e.v)]
    BY <1>1 DEF Apply, ShownOK
  <2>3. TroubleAt(u, e.v) = TroubleAt(v, e.v)
    BY <1>0 DEF TroubleAt
  <2>4. x.figures = y.figures
    BY <1>0, <2>2, <2>3
  <2> HIDE DEF x, y
  <2> QED BY <1>0, <2>1, <2>4 DEF Alike, AfterStatus, x, y
<1>2. CASE e.kind = "close"
  <2>1. ShownOK(x) /\ AfterClose(u, e, x) /\ ShownOK(y) /\ AfterClose(v, e, y)
    BY <1>2, CloseApplied
  <2>2. /\ x.figures = [u.figures EXCEPT !.last_close = e.v]
        /\ y.figures = [v.figures EXCEPT !.last_close = e.v]
    BY <1>2 DEF Apply, ShownOK
  <2>4. x.figures = y.figures
    BY <1>0, <2>2
  <2> HIDE DEF x, y
  <2> QED BY <1>0, <2>1, <2>4 DEF Alike, AfterClose, x, y
<1>3. CASE e.kind = "rx"
  <2>1. ShownOK(x) /\ AfterRx(u, e, x) /\ ShownOK(y) /\ AfterRx(v, e, y)
    BY <1>3, RxApplied
  <2>2. /\ x.figures = [u.figures EXCEPT !.total = e.v]
        /\ y.figures = [v.figures EXCEPT !.total = e.v]
    BY <1>3 DEF Apply, ShownOK
  <2>4. x.figures = y.figures
    BY <1>0, <2>2
  <2> HIDE DEF x, y
  <2> QED BY <1>0, <2>1, <2>4 DEF Alike, AfterRx, x, y
<1>4. CASE e.kind = "rtcm"
  <2>1. ShownOK(x) /\ AfterRtcm(u, e, x) /\ ShownOK(y) /\ AfterRtcm(v, e, y)
    BY <1>4, RtcmApplied
  <2>2. /\ x.figures = [u.figures EXCEPT !.frames = IF e.v = "frame" THEN @ + 1 ELSE @,
                              !.garbage = @ \/ e.v = "garbage"]
        /\ y.figures = [v.figures EXCEPT !.frames = IF e.v = "frame" THEN @ + 1 ELSE @,
                              !.garbage = @ \/ e.v = "garbage"]
    BY <1>4 DEF Apply, ShownOK
  <2>4. x.figures = y.figures
    BY <1>0, <2>2
  <2> HIDE DEF x, y
  <2> QED BY <1>0, <2>1, <2>4 DEF Alike, AfterRtcm, x, y
<1>5. CASE e.kind = "trouble"
  <2>1. ShownOK(x) /\ AfterTrouble(u, e, x) /\ ShownOK(y) /\ AfterTrouble(v, e, y)
    BY <1>5, TroubleApplied
  <2>2. /\ x.figures = [u.figures EXCEPT !.trouble = e.v]
        /\ y.figures = [v.figures EXCEPT !.trouble = e.v]
    BY <1>5 DEF Apply, ShownOK
  <2>4. x.figures = y.figures
    BY <1>0, <2>2
  <2> HIDE DEF x, y
  <2> QED BY <1>0, <2>1, <2>4 DEF Alike, AfterTrouble, x, y
<1>6. CASE e.kind = "unknown"
  <2>1. ShownOK(x) /\ AfterUnknown(u, e, x) /\ ShownOK(y) /\ AfterUnknown(v, e, y)
    BY <1>6, UnknownApplied
  <2>2. x.unknown = [raw |-> e.v, gen |-> u.unknown.gen + 1] /\ y.unknown = [raw |-> e.v, gen |-> v.unknown.gen + 1]
    BY <1>6 DEF Apply, ShownOK
  <2>4. x.unknown = y.unknown
    BY <1>0, <2>2
  <2> HIDE DEF x, y
  <2> QED BY <1>0, <2>1, <2>4 DEF Alike, AfterUnknown, x, y
<1>7. CASE e.kind = "table"
  <2>1. ShownOK(x) /\ AfterTable(p, u, e, x) /\ ShownOK(y) /\ AfterTable(p, v, e, y)
    BY <1>7, TableApplied
  <2> HIDE DEF x, y
  <2> QED BY <1>0, <2>1 DEF Alike, AfterTable, x, y
<1> QED BY <1>1, <1>2, <1>3, <1>4, <1>5, <1>6, <1>7, KindsOfEvents

\* And under any number of events.
LEMMA Lockstep ==
  ASSUME NEW p, NEW u, NEW v, ShownOK(u), ShownOK(v), Alike(u, v), NEW s \in Seq(Events)
  PROVE  /\ ShownOK(Applied(p, u, s)) /\ ShownOK(Applied(p, v, s))
         /\ Alike(Applied(p, u, s), Applied(p, v, s))
<1>1. PICK f : Run(f, p, u, s, Len(s)) /\ Applied(p, u, s) = f[Len(s)]
  BY AppliedRuns
<1>2. PICK g : Run(g, p, v, s, Len(s)) /\ Applied(p, v, s) = g[Len(s)]
  BY AppliedRuns
<1> DEFINE N == Len(s)
           G == {n \in 0 .. N : ShownOK(f[n]) /\ ShownOK(g[n]) /\ Alike(f[n], g[n])}
<1>3. N \in Nat /\ \A n \in 1 .. N : s[n] \in Events
  OBVIOUS
<1> HIDE DEF N
<1>4. Run(f, p, u, s, N) /\ Run(g, p, v, s, N) /\ Applied(p, u, s) = f[N] /\ Applied(p, v, s) = g[N]
  BY <1>1, <1>2 DEF N
<1>5. 0 \in G
  BY <1>3, <1>4 DEF Run
<1>6. ASSUME NEW n \in Nat, n < N, n \in G PROVE n + 1 \in G
  <2>1. n + 1 \in 1 .. N /\ (n + 1) - 1 = n
    BY <1>3, <1>6
  <2>2. f[n + 1] = Apply(p, f[(n + 1) - 1], s[n + 1]) /\ g[n + 1] = Apply(p, g[(n + 1) - 1], s[n + 1])
    BY <1>4, <2>1 DEF Run
  <2>3. ShownOK(f[n]) /\ ShownOK(g[n]) /\ Alike(f[n], g[n]) /\ s[n + 1] \in Events
    BY <1>3, <1>6, <2>1
  <2>4. ShownOK(f[n + 1]) /\ ShownOK(g[n + 1]) /\ Alike(f[n + 1], g[n + 1])
    BY <2>1, <2>2, <2>3, AlikeApplied
  <2> QED BY <2>1, <2>4
<1> HIDE DEF G
<1>7. \A n \in Nat : n < N /\ n \in G => n + 1 \in G
  BY <1>6
<1>8. \A n \in 0 .. N : n \in G
  BY <1>3, <1>5, <1>7, Climb
<1> QED BY <1>3, <1>4, <1>8 DEF G
-------------------------------------------------------------------------------
(* What a step's posts make of what is to be drained *)

\* What a worker posts, by kind.
LEMMA SaysIs ==
  ASSUME NEW id \in Nat, NEW s \in Statuses
  PROVE  LET e == Says(id, s) IN e \in Events /\ e.kind = "status" /\ e.ses = id /\ e.v = s
  BY DEF Says, Events

LEMMA CloseIs ==
  ASSUME NEW id \in Nat, NEW v \in Texts
  PROVE  LET e == Post(id, "close", v) IN e \in Events /\ e.kind = "close" /\ e.ses = id /\ e.v = v
  BY DEF Post, Events

LEMMA TroubleIs ==
  ASSUME NEW id \in Nat, NEW v \in Texts
  PROVE  LET e == Post(id, "trouble", v) IN e \in Events /\ e.kind = "trouble" /\ e.ses = id /\ e.v = v
  BY DEF Post, Events

LEMMA RxIs ==
  ASSUME NEW id \in Nat, NEW v \in Nat
  PROVE  LET e == Post(id, "rx", v) IN e \in Events /\ e.kind = "rx" /\ e.ses = id /\ e.v = v
  BY DEF Post, Events

LEMMA RtcmIs ==
  ASSUME NEW id \in Nat, NEW v \in {"frame", "garbage"}
  PROVE  LET e == Post(id, "rtcm", v) IN e \in Events /\ e.kind = "rtcm" /\ e.ses = id /\ e.v = v
  BY DEF Post, Events

LEMMA UnknownIs ==
  ASSUME NEW id \in Nat, NEW v \in Nat \ {0}
  PROVE  LET e == Post(id, "unknown", v) IN e \in Events /\ e.kind = "unknown" /\ e.ses = id /\ e.v = v
  BY DEF Post, Events

LEMMA TableIs ==
  ASSUME NEW id \in Nat, NEW v \in Tables
  PROVE  LET e == Post(id, "table", v) IN e \in Events /\ e.kind = "table" /\ e.ses = id /\ e.v = v
  BY DEF Post, Events

\* A status with a field or two set.
LEMMA StatusAs ==
  ASSUME NEW k \in Kinds
  PROVE  Status(k) \in Statuses /\ Status(k).kind = k
  BY DEF Statuses, Status, Texts

LEMMA StatusAttempt ==
  ASSUME NEW k \in Kinds, NEW n \in Nat, NEW s, s = [Status(k) EXCEPT !.attempt = n]
  PROVE  s \in Statuses /\ s.kind = k
  BY DEF Statuses, Status, Texts

\* A worker's record with some fields set.
Set(x, w, phase, total, frames, why) ==
  /\ WorkerOK(x) /\ x.job = w.job /\ x.cancelled = w.cancelled
  /\ x.phase = phase /\ x.total = total /\ x.frames = frames /\ x.why = why

LEMMA SetPhase ==
  ASSUME NEW w, WorkerOK(w), NEW p \in Phases, NEW x, x = [w EXCEPT !.phase = p]
  PROVE  Set(x, w, p, w.total, w.frames, w.why)
  BY DEF WorkerOK, Set

LEMMA SetTold ==
  ASSUME NEW w, WorkerOK(w), NEW t, NEW x, x = [w EXCEPT !.told = t]
  PROVE  Set(x, w, w.phase, w.total, w.frames, w.why)
  BY DEF WorkerOK, Set

LEMMA SetAttempt ==
  ASSUME NEW w, WorkerOK(w), NEW p \in Phases, NEW a \in Nat, NEW t,
         NEW x, x = [w EXCEPT !.phase = p, !.attempts = a, !.told = t]
  PROVE  Set(x, w, p, w.total, w.frames, w.why)
  BY DEF WorkerOK, Set

LEMMA SetWhy ==
  ASSUME NEW w, WorkerOK(w), NEW p \in Phases, NEW y \in Texts, NEW g,
         NEW x, x = [w EXCEPT !.phase = p, !.why = y, !.again = g]
  PROVE  Set(x, w, p, w.total, w.frames, y)
  BY DEF WorkerOK, Set

LEMMA SetCounts ==
  ASSUME NEW w, WorkerOK(w), NEW p \in Phases, NEW t \in Nat, NEW f \in Nat, NEW a \in Nat,
         NEW x, x = [w EXCEPT !.phase = p, !.total = t, !.frames = f, !.attempts = a]
  PROVE  Set(x, w, p, t, f, w.why)
  BY DEF WorkerOK, Set

\* A step's posts, all of its session.
LEMMA OnePost ==
  ASSUME NEW a \in Events, NEW id, a.ses = id
  PROVE  <<a>> \in Seq(Events) /\ \A i \in DOMAIN <<a>> : <<a>>[i].ses = id
  OBVIOUS

LEMMA TwoPosts ==
  ASSUME NEW a \in Events, NEW b \in Events, NEW id, a.ses = id, b.ses = id
  PROVE  <<a, b>> \in Seq(Events) /\ \A i \in DOMAIN <<a, b>> : <<a, b>>[i].ses = id
  OBVIOUS

LEMMA ThreePosts ==
  ASSUME NEW a \in Events, NEW b \in Events, NEW c \in Events, NEW id, a.ses = id, b.ses = id, c.ses = id
  PROVE  <<a, b, c>> \in Seq(Events) /\ \A i \in DOMAIN <<a, b, c>> : <<a, b, c>>[i].ses = id
  OBVIOUS

\* Draining what is pending on a state alike gives one alike.
LEMMA Behind ==
  ASSUME TypeOK, ShownOK(Shown'), Alike(Shown', Shown)
  PROVE  LET B == Applied(profile, Shown', chan) IN
         ShownOK(B) /\ ShownOK(Drained) /\ Alike(B, Drained)
  BY Lockstep DEF TypeOK, Drained

\* A step's posts, none to three, as Applies on what is to be drained.
LEMMA PostNone ==
  ASSUME profile' = profile, chan' = chan
  PROVE  Drained' = Applied(profile, Shown', chan)
  BY DEF Drained

LEMMA PostOne ==
  ASSUME TypeOK, profile' = profile, NEW a \in Events, chan' = chan \o <<a>>
  PROVE  Drained' = Apply(profile, Applied(profile, Shown', chan), a)
<1>1. chan \in Seq(Events)
  BY DEF TypeOK
<1>2. chan' = Append(chan, a)
  BY <1>1
<1>3. Drained' = Applied(profile, Shown', chan')
  BY DEF Drained
<1> QED BY <1>1, <1>2, <1>3, AppliedMore

\* Two events more.
LEMMA AppliedTwo ==
  ASSUME NEW p, NEW u, NEW S, NEW s \in Seq(S), NEW a \in S, NEW b \in S
  PROVE  Applied(p, u, s \o <<a, b>>) = Apply(p, Apply(p, Applied(p, u, s), a), b)
<1> DEFINE t == Append(s, a)
<1>1. t \in Seq(S) /\ s \o <<a, b>> = Append(t, b)
  OBVIOUS
<1>2. Applied(p, u, t) = Apply(p, Applied(p, u, s), a)
  BY AppliedMore
<1> HIDE DEF t
<1>3. Applied(p, u, Append(t, b)) = Apply(p, Applied(p, u, t), b)
  BY <1>1, AppliedMore
<1> QED BY <1>1, <1>2, <1>3

LEMMA PostTwo ==
  ASSUME TypeOK, profile' = profile, NEW a \in Events, NEW b \in Events, chan' = chan \o <<a, b>>
  PROVE  Drained' = Apply(profile, Apply(profile, Applied(profile, Shown', chan), a), b)
<1>1. chan \in Seq(Events)
  BY DEF TypeOK
<1>2. Drained' = Applied(profile, Shown', chan')
  BY DEF Drained
<1> QED BY <1>1, <1>2, AppliedTwo

LEMMA PostThree ==
  ASSUME TypeOK, profile' = profile, NEW a \in Events, NEW b \in Events, NEW c \in Events,
         chan' = chan \o <<a, b, c>>
  PROVE  Drained' = Apply(profile, Apply(profile, Apply(profile, Applied(profile, Shown', chan), a), b), c)
<1> DEFINE t == Append(chan, a)
<1>1. chan \in Seq(Events) /\ t \in Seq(Events) /\ chan' = t \o <<b, c>>
  BY DEF TypeOK
<1>2. Applied(profile, Shown', t) = Apply(profile, Applied(profile, Shown', chan), a)
  BY <1>1, AppliedMore
<1> HIDE DEF t
<1>3. Applied(profile, Shown', t \o <<b, c>>) = Apply(profile, Apply(profile, Applied(profile, Shown', t), b), c)
  BY <1>1, AppliedTwo
<1>4. Drained' = Applied(profile, Shown', chan')
  BY DEF Drained
<1> QED BY <1>1, <1>2, <1>3, <1>4

\* Nothing pending: what is shown is all there is.
LEMMA NothingToDrain ==
  ASSUME chan = <<>>
  PROVE  Drained = Shown
  BY AppliedNone DEF Drained

\* In a session, what its worker is and what it may say.
LEMMA InSession ==
  ASSUME WindowInv, NEW id \in DOMAIN workers
  PROVE  /\ id = sessions /\ id \in Nat /\ Busy /\ DOMAIN workers = {id}
         /\ WorkerOK(workers[id]) /\ Told(workers[id], Drained)
         /\ WellInformed(workers[id].job) /\ ShownOK(Shown) /\ ShownOK(Drained)
         /\ Drained.ntrip = ntrip
<1>1. /\ id = sessions /\ id \in Nat /\ Busy /\ DOMAIN workers = {id} /\ WorkerOK(workers[id])
      /\ ShownOK(Shown)
  BY DEF WindowInv, OneAtATime, TypeOK
<1>2. Told(workers[id], Drained)
  BY DEF WindowInv, UpToDate
<1>3. WellInformed(workers[id].job)
  BY DEF WindowInv, Own
<1>4. ShownOK(Drained)
  <2>1. Alike(Shown, Shown) /\ chan \in Seq(Events)
    BY DEF Alike, WindowInv, TypeOK
  <2> QED BY <1>1, <2>1, Lockstep DEF Drained
<1>5. Drained.ntrip = ntrip
  BY <1>1 DEF WindowInv, OneAtATime
<1> QED BY <1>1, <1>2, <1>3, <1>4, <1>5

\* A step of a worker that goes on.
LEMMA GoesKeeps ==
  ASSUME WindowInv, NEW id \in DOMAIN workers, NEW w, NEW posts \in Seq(Events), Goes(id, w, posts),
         \A i \in DOMAIN posts : posts[i].ses = id,
         WorkerOK(w), w.job = workers[id].job,
         ShownOK(Shown'), last_rx = "none" => last_rx' = "none", ShownOK(Drained'),
         Drained'.ntrip = Drained.ntrip, Drained'.insecure = Drained.insecure,
         Drained.unknown.gen <= Drained'.unknown.gen,
         FlagTrue(Drained)', Told(w, Drained')
  PROVE  WindowInv'
<1>1. /\ id = sessions /\ Busy /\ DOMAIN workers = {id} /\ ShownOK(Shown) /\ ShownOK(Drained)
  BY InSession
<1>2. /\ profile' = profile /\ ntrip' = ntrip /\ status' = status /\ figures' = figures
      /\ unknown' = unknown /\ ack' = ack /\ insecure_tls_active' = insecure_tls_active
      /\ meter' = meter /\ sessions' = sessions /\ from' = from /\ ended' = ended
      /\ chan' = chan \o posts /\ workers' = [workers EXCEPT ![id] = w]
  BY DEF Goes
<1>3. /\ DOMAIN workers' = {id} /\ workers'[id] = w
      /\ workers' = [i \in DOMAIN workers' |-> workers'[i]]
  BY <1>1, <1>2 DEF WindowInv, TypeOK
<1>4. chan \in Seq(Events) /\ chan' \in Seq(Events)
  BY <1>2 DEF WindowInv, TypeOK
<1>5. TypeOK'
  BY <1>2, <1>3, <1>4 DEF WindowInv, TypeOK
<1>6. OneAtATime'
  <2>1. \A i \in DOMAIN chan' : chan'[i].ses = sessions'
    <3>1. \A i \in DOMAIN chan : chan[i].ses = sessions
      BY DEF WindowInv, OneAtATime
    <3>2. \A i \in DOMAIN chan' : \/ i \in DOMAIN chan /\ chan'[i] = chan[i]
                                  \/ i - Len(chan) \in DOMAIN posts /\ chan'[i] = posts[i - Len(chan)]
      BY <1>2, <1>4
    <3> QED BY <1>1, <1>2, <3>1, <3>2
  <2>2. Drained'.ntrip = (IF DOMAIN workers' = {} THEN <<>> ELSE ntrip')
    BY <1>1, <1>2, <1>3 DEF WindowInv, OneAtATime
  <2> QED BY <1>1, <1>2, <1>3, <2>1, <2>2 DEF WindowInv, OneAtATime, Busy
<1>7. UpToDate'
  BY <1>3 DEF UpToDate
<1>8. Counted'
  BY <1>2 DEF WindowInv, Counted
<1>9. Warned'
  <2>1. unknown.gen \in Nat /\ Drained.unknown.gen \in Nat /\ Drained'.unknown.gen \in Nat
    BY <1>1 DEF ShownOK, Shown
  <2>2. ack \in Nat
    BY DEF WindowInv, TypeOK
  <2> QED BY <1>1, <1>2, <1>3, <2>1, <2>2 DEF WindowInv, Warned, Busy
<1>10. Own'
  BY <1>1, <1>2, <1>3 DEF WindowInv, Own
<1> QED BY <1>5, <1>6, <1>7, <1>8, <1>9, <1>10 DEF WindowInv

\* What no post but a table, and no status but Stopped, changes.
Carried(u, v) ==
  /\ v.sourcetable = u.sourcetable /\ v.flag = u.flag
  /\ v.ntrip = u.ntrip /\ v.insecure = u.insecure /\ u.unknown.gen <= v.unknown.gen

\* A status but Stopped carries on what the window holds.
LEMMA StatusCarries ==
  ASSUME NEW u, NEW e, NEW v, ShownOK(u), AfterStatus(u, e, v), e.v.kind # "Stopped"
  PROVE  Carried(u, v)
<1>1. u.unknown.gen \in Nat /\ u.insecure \in BOOLEAN
  BY DEF ShownOK
<1>2. v.insecure = u.insecure
  <2>1. v.insecure = (u.insecure /\ e.v.kind # "Stopped")
    BY DEF AfterStatus
  <2> QED BY <1>1, <2>1
<1>3. v.sourcetable = u.sourcetable /\ v.flag = u.flag /\ v.ntrip = u.ntrip /\ v.unknown = u.unknown
  BY DEF AfterStatus
<1> QED BY <1>1, <1>2, <1>3 DEF Carried

\* So does every post but a table.
LEMMA OthersCarry ==
  ASSUME NEW u, NEW e, NEW v, ShownOK(u),
         \/ AfterClose(u, e, v) \/ AfterRx(u, e, v) \/ AfterRtcm(u, e, v)
         \/ AfterTrouble(u, e, v) \/ AfterUnknown(u, e, v)
  PROVE  Carried(u, v)
<1>1. u.unknown.gen \in Nat
  BY DEF ShownOK
<1>2. /\ v.sourcetable = u.sourcetable /\ v.flag = u.flag /\ v.ntrip = u.ntrip
      /\ v.insecure = u.insecure
      /\ v.unknown = u.unknown \/ v.unknown.gen = u.unknown.gen + 1
  BY DEF AfterClose, AfterRx, AfterRtcm, AfterTrouble, AfterUnknown
<1> QED BY <1>1, <1>2 DEF Carried

\* One after the other.
LEMMA CarriesOn ==
  ASSUME NEW u, NEW v, NEW x, ShownOK(u), ShownOK(v), ShownOK(x), Carried(u, v), Carried(v, x)
  PROVE  Carried(u, x)
<1>1. u.unknown.gen \in Nat /\ v.unknown.gen \in Nat /\ x.unknown.gen \in Nat
  BY DEF ShownOK
<1> QED BY <1>1 DEF Carried

\* A step of a worker that goes on and posts no table.
LEMMA GoesCarries ==
  ASSUME WindowInv, NEW id \in DOMAIN workers, NEW w, NEW posts \in Seq(Events), Goes(id, w, posts),
         \A i \in DOMAIN posts : posts[i].ses = id,
         WorkerOK(w), w.job = workers[id].job,
         ShownOK(Shown'), last_rx = "none" => last_rx' = "none", ShownOK(Drained'),
         Carried(Drained, Drained'), Told(w, Drained')
  PROVE  WindowInv'
<1>1. profile' = profile /\ ntrip' = ntrip
  BY DEF Goes
<1>2. FlagTrue(Drained)'
  BY <1>1 DEF WindowInv, Own, FlagTrue, Carried, Busy
<1>3. /\ Drained'.ntrip = Drained.ntrip /\ Drained'.insecure = Drained.insecure
      /\ Drained.unknown.gen <= Drained'.unknown.gen
  BY DEF Carried
<1> QED BY <1>2, <1>3, GoesKeeps

\* A post shows nothing until a frame.
LEMMA SameShown ==
  ASSUME NEW id, NEW w, NEW posts, Goes(id, w, posts), UNCHANGED <<since, last_rx>>
  PROVE  Shown' = Shown /\ profile' = profile /\ chan' = chan \o posts
  BY DEF Goes, Shown

\* The steps of a worker that goes on.
LEMMA EstablishKeeps ==
  ASSUME WindowInv, NEW id \in DOMAIN workers, Establish(id)
  PROVE  WindowInv'
<1> DEFINE s == Status("WaitingForData")
           a == Says(id, s)
           w == [workers[id] EXCEPT !.phase = "waiting"]
<1>1. Goes(id, w, <<a>>) /\ UNCHANGED <<since, last_rx>>
  BY DEF Establish
<1>2. /\ id \in Nat /\ WorkerOK(workers[id]) /\ Told(workers[id], Drained)
      /\ ShownOK(Shown) /\ ShownOK(Drained)
  BY InSession
<1>3. s \in Statuses /\ s.kind = "WaitingForData"
  BY StatusAs DEF Kinds
<1> HIDE DEF s
<1>4. a \in Events /\ a.kind = "status" /\ a.ses = id /\ a.v = s
  BY <1>2, <1>3, SaysIs
<1>5. Set(w, workers[id], "waiting", workers[id].total, workers[id].frames, workers[id].why)
  <2>1. "waiting" \in Phases
    BY DEF Phases
  <2> QED BY <1>2, <2>1, SetPhase
<1> HIDE DEF a, w
<1>6. Shown' = Shown /\ profile' = profile /\ chan' = chan \o <<a>>
  BY <1>1, SameShown
<1>7. Drained' = Apply(profile, Drained, a)
  BY <1>4, <1>6, PostOne DEF WindowInv, Drained
<1>8. ShownOK(Drained') /\ AfterStatus(Drained, a, Drained')
  BY <1>2, <1>4, <1>7, StatusApplied
<1>9. Carried(Drained, Drained')
  BY <1>2, <1>3, <1>4, <1>8, StatusCarries
<1>10. Told(w, Drained')
  BY <1>2, <1>3, <1>4, <1>5, <1>8 DEF AfterStatus, Told, Set
<1>11. <<a>> \in Seq(Events) /\ \A i \in DOMAIN <<a>> : <<a>>[i].ses = id
  BY <1>4, OnePost
<1>12. WorkerOK(w) /\ w.job = workers[id].job
  BY <1>5 DEF Set
<1> QED BY <1>1, <1>2, <1>6, <1>8, <1>9, <1>10, <1>11, <1>12, GoesCarries

LEMMA AttemptKeeps ==
  ASSUME WindowInv, NEW id \in DOMAIN workers, Attempt(id)
  PROVE  WindowInv'
<1> DEFINE s == [Status("Connecting") EXCEPT !.attempt = workers[id].attempts + 1]
           a == Says(id, s)
           w == [workers[id] EXCEPT !.phase = "connecting", !.attempts = @ + 1, !.told = "none"]
           B == Applied(profile, Shown', chan)
<1>1. Goes(id, w, <<a>>)
  BY DEF Attempt
<1>2. /\ id \in Nat /\ WorkerOK(workers[id]) /\ Told(workers[id], Drained)
      /\ ShownOK(Shown) /\ ShownOK(Drained)
  BY InSession
<1>3. workers[id].attempts + 1 \in Nat /\ "connecting" \in Phases /\ "Connecting" \in Kinds
  BY <1>2 DEF WorkerOK, Phases, Kinds
<1>4. s \in Statuses /\ s.kind = "Connecting"
  BY <1>3, StatusAttempt
<1>5. Set(w, workers[id], "connecting", workers[id].total, workers[id].frames, workers[id].why)
  BY <1>2, <1>3, SetAttempt
<1> HIDE DEF s, w
<1>6. a \in Events /\ a.kind = "status" /\ a.ses = id /\ a.v = s
  BY <1>2, <1>4, SaysIs
<1> HIDE DEF a
<1>7. /\ profile' = profile /\ chan' = chan \o <<a>>
      /\ status' = status /\ figures' = figures /\ unknown' = unknown /\ sourcetable' = sourcetable
      /\ tab' = tab /\ ntrip' = ntrip /\ insecure_tls_active' = insecure_tls_active /\ flag' = flag
  BY <1>1 DEF Goes
<1>8. /\ since' \in {"recent", "old"} /\ last_rx' \in {"none", "recent", "old"}
      /\ last_rx = "none" => last_rx' = "none"
  <2>1. since \in {"recent", "old"} /\ last_rx \in {"none", "recent", "old"}
    BY <1>2 DEF ShownOK, Shown
  <2> QED BY <2>1 DEF Attempt, Aged
<1>9. ShownOK(Shown') /\ Alike(Shown', Shown)
  BY <1>2, <1>7, <1>8 DEF ShownOK, Shown, Alike
<1>10. ShownOK(B) /\ Alike(B, Drained)
  BY <1>9, Behind DEF WindowInv
<1>11. Drained' = Apply(profile, B, a)
  BY <1>6, <1>7, PostOne DEF WindowInv
<1> HIDE DEF B
<1>12. ShownOK(Drained') /\ AfterStatus(B, a, Drained')
  BY <1>6, <1>10, <1>11, StatusApplied
<1>13. Carried(Drained, Drained')
  <2>1. Carried(B, Drained')
    BY <1>4, <1>6, <1>10, <1>12, StatusCarries
  <2> QED BY <1>10, <2>1 DEF Carried, Alike
<1>14. Told(w, Drained')
  BY <1>2, <1>4, <1>5, <1>6, <1>10, <1>12 DEF AfterStatus, Told, Alike, Set
<1>15. <<a>> \in Seq(Events) /\ \A i \in DOMAIN <<a>> : <<a>>[i].ses = id
  BY <1>6, OnePost
<1>16. WorkerOK(w) /\ w.job = workers[id].job
  BY <1>5 DEF Set
<1> QED BY <1>1, <1>8, <1>9, <1>12, <1>13, <1>14, <1>15, <1>16, GoesCarries

LEMMA PositionKeeps ==
  ASSUME WindowInv, NEW id \in DOMAIN workers, Position(id)
  PROVE  WindowInv'
<1>1. PICK trouble \in {"starved", ""} :
        /\ workers[id].phase = "waiting"
        /\ Goes(id, [workers[id] EXCEPT !.told = IF trouble = "" THEN "sent" ELSE trouble],
                <<Post(id, "trouble", trouble)>>)
        /\ UNCHANGED <<since, last_rx>>
  BY DEF Position, Live
<1> DEFINE a == Post(id, "trouble", trouble)
           w == [workers[id] EXCEPT !.told = IF trouble = "" THEN "sent" ELSE trouble]
<1>2. /\ id \in Nat /\ WorkerOK(workers[id]) /\ Told(workers[id], Drained)
      /\ ShownOK(Shown) /\ ShownOK(Drained)
  BY InSession
<1>3. trouble \in Texts
  BY DEF Texts
<1>4. a \in Events /\ a.kind = "trouble" /\ a.ses = id
  BY <1>2, <1>3, TroubleIs
<1>5. Set(w, workers[id], workers[id].phase, workers[id].total, workers[id].frames, workers[id].why)
  <2>1. workers[id].phase \in Phases
    BY <1>2 DEF WorkerOK
  <2> QED BY <1>2, <2>1, SetTold
<1> HIDE DEF a, w
<1>6. Goes(id, w, <<a>>) /\ UNCHANGED <<since, last_rx>>
  BY <1>1 DEF a, w
<1>7. Shown' = Shown /\ profile' = profile /\ chan' = chan \o <<a>>
  BY <1>6, SameShown
<1>8. Drained' = Apply(profile, Drained, a)
  BY <1>4, <1>7, PostOne DEF WindowInv, Drained
<1>9. ShownOK(Drained') /\ AfterTrouble(Drained, a, Drained')
  BY <1>2, <1>4, <1>8, TroubleApplied
<1>10. Carried(Drained, Drained')
  BY <1>2, <1>9, OthersCarry
<1>11. Told(w, Drained')
  BY <1>1, <1>2, <1>5, <1>9 DEF AfterTrouble, Told, Set
<1>12. <<a>> \in Seq(Events) /\ \A i \in DOMAIN <<a>> : <<a>>[i].ses = id
  BY <1>4, OnePost
<1>13. WorkerOK(w) /\ w.job = workers[id].job
  BY <1>5 DEF Set
<1> QED BY <1>2, <1>6, <1>7, <1>9, <1>10, <1>11, <1>12, <1>13, GoesCarries

LEMMA CannotConnectKeeps ==
  ASSUME WindowInv, NEW id \in DOMAIN workers, CannotConnect(id)
  PROVE  WindowInv'
<1>1. PICK again \in BOOLEAN :
        /\ Goes(id, [workers[id] EXCEPT !.phase = "ended", !.why = "no connection", !.again = again], <<>>)
        /\ UNCHANGED <<since, last_rx>>
  BY DEF CannotConnect
<1> DEFINE w == [workers[id] EXCEPT !.phase = "ended", !.why = "no connection", !.again = again]
<1>2. /\ id \in Nat /\ WorkerOK(workers[id]) /\ Told(workers[id], Drained)
      /\ ShownOK(Shown) /\ ShownOK(Drained)
  BY InSession
<1>3. Set(w, workers[id], "ended", workers[id].total, workers[id].frames, "no connection")
  <2>1. "ended" \in Phases /\ "no connection" \in Texts
    BY DEF Phases, Texts
  <2> QED BY <1>2, <2>1, SetWhy
<1> HIDE DEF w
<1>4. Goes(id, w, <<>>) /\ Shown' = Shown /\ profile' = profile /\ chan' = chan \o <<>>
  BY <1>1, SameShown DEF w
<1>5. Drained' = Drained
  <2>1. chan' = chan
    BY <1>4 DEF WindowInv, TypeOK
  <2> QED BY <1>4, <2>1 DEF Drained
<1>6. Carried(Drained, Drained')
  BY <1>2, <1>5 DEF Carried, ShownOK
<1>7. Told(w, Drained')
  BY <1>2, <1>3, <1>5 DEF Told, Set
<1>8. <<>> \in Seq(Events) /\ \A i \in DOMAIN <<>> : <<>>[i].ses = id
  OBVIOUS
<1>9. WorkerOK(w) /\ w.job = workers[id].job
  BY <1>3 DEF Set
<1> QED BY <1>1, <1>2, <1>4, <1>5, <1>6, <1>7, <1>8, <1>9, GoesCarries

\* Bytes and what they held, on what is to be drained.
AfterBytes(u, r, x, v) ==
  /\ Carried(u, v) /\ v.status = u.status /\ v.figures.trouble = u.figures.trouble
  /\ v.figures.total = x.v
  /\ v.figures.frames = u.figures.frames + (IF r.v = "frame" THEN 1 ELSE 0)

\* A batch and its count, applied.
LEMMA BytesApplied ==
  ASSUME NEW p, NEW u, ShownOK(u), NEW r \in Events, r.kind = "rtcm", NEW x \in Events, x.kind = "rx"
  PROVE  LET v == Apply(p, Apply(p, u, r), x) IN ShownOK(v) /\ AfterBytes(u, r, x, v)
<1> DEFINE m == Apply(p, u, r)
           v == Apply(p, m, x)
<1>1. ShownOK(m) /\ AfterRtcm(u, r, m)
  BY RtcmApplied
<1> HIDE DEF m
<1>2. ShownOK(v) /\ AfterRx(m, x, v)
  BY <1>1, RxApplied
<1> HIDE DEF v
<1>3. Carried(u, m) /\ Carried(m, v)
  BY <1>1, <1>2, OthersCarry
<1>4. Carried(u, v)
  BY <1>1, <1>2, <1>3, CarriesOn
<1>5. /\ v.status = u.status /\ v.figures.trouble = u.figures.trouble /\ v.figures.total = x.v
      /\ v.figures.frames = u.figures.frames + (IF r.v = "frame" THEN 1 ELSE 0)
  BY <1>1, <1>2 DEF AfterRtcm, AfterRx
<1>6. ShownOK(v) /\ AfterBytes(u, r, x, v)
  BY <1>2, <1>4, <1>5 DEF AfterBytes
<1> QED BY <1>6 DEF v, m

\* Sequences put together.
LEMMA JoinOne ==
  ASSUME NEW S, NEW a \in S, NEW b \in S
  PROVE  <<a>> \o <<b>> = <<a, b>>
<1> DEFINE s == <<a>> \o <<b>>
           t == <<a, b>>
<1>1. s \in Seq(S) /\ t \in Seq(S) /\ Len(s) = 2 /\ Len(t) = 2
  OBVIOUS
<1>2. s[1] = a /\ s[2] = b /\ t[1] = a /\ t[2] = b
  OBVIOUS
<1> HIDE DEF s, t
<1>3. \A i \in 1 .. 2 : s[i] = t[i]
  BY <1>2
<1> QED BY <1>1, <1>3, SeqEqual DEF s, t

LEMMA JoinTwo ==
  ASSUME NEW S, NEW a \in S, NEW b \in S, NEW c \in S
  PROVE  <<a>> \o <<b, c>> = <<a, b, c>>
<1> DEFINE s == <<a>> \o <<b, c>>
           t == <<a, b, c>>
<1>1. s \in Seq(S) /\ t \in Seq(S) /\ Len(s) = 3 /\ Len(t) = 3
  OBVIOUS
<1>2. s[1] = a /\ s[2] = b /\ s[3] = c
  OBVIOUS
<1>3. t[1] = a /\ t[2] = b /\ t[3] = c
  OBVIOUS
<1> HIDE DEF s, t
<1>4. \A i \in 1 .. 3 : s[i] = t[i]
  BY <1>2, <1>3
<1> QED BY <1>1, <1>4, SeqEqual DEF s, t

LEMMA CorrectionsKeep ==
  ASSUME WindowInv, NEW id \in DOMAIN workers, Corrections(id)
  PROVE  WindowInv'
<1> DEFINE o == workers[id]
<1>1. PICK holds \in {"frame", "garbage"} :
        LET frames == o.frames + (IF holds = "frame" THEN 1 ELSE 0) IN
        /\ o.phase \in {"waiting", "streaming"} /\ UNCHANGED <<since, last_rx>>
        /\ Goes(id, [o EXCEPT !.phase = "streaming", !.total = @ + 1, !.frames = frames,
                              !.attempts = IF o.phase = "waiting" THEN 0 ELSE @],
                (IF o.phase = "waiting" THEN <<Says(id, Status("Streaming"))>> ELSE <<>>)
                \o <<Post(id, "rtcm", holds), Post(id, "rx", o.total + 1)>>)
  BY DEF Corrections, Live
<1> DEFINE n == o.total + 1
           f == o.frames + (IF holds = "frame" THEN 1 ELSE 0)
           w == [o EXCEPT !.phase = "streaming", !.total = n, !.frames = f,
                          !.attempts = IF o.phase = "waiting" THEN 0 ELSE @]
           s == Status("Streaming")
           a == Says(id, s)
           r == Post(id, "rtcm", holds)
           x == Post(id, "rx", n)
           first == IF o.phase = "waiting" THEN <<a>> ELSE <<>>
           u == IF o.phase = "waiting" THEN Apply(profile, Drained, a) ELSE Drained
           v == Apply(profile, Apply(profile, u, r), x)
<1>2. /\ id \in Nat /\ WorkerOK(o) /\ Told(o, Drained) /\ ShownOK(Shown) /\ ShownOK(Drained)
  BY InSession
<1>3. Goes(id, w, first \o <<r, x>>) /\ UNCHANGED <<since, last_rx>>
  BY <1>1
<1>4. n \in Nat /\ f \in Nat
  BY <1>2 DEF WorkerOK
<1>5. Set(w, o, "streaming", n, f, o.why)
  <2>1. "streaming" \in Phases /\ (IF o.phase = "waiting" THEN 0 ELSE o.attempts) \in Nat
    BY <1>2 DEF Phases, WorkerOK
  <2> HIDE DEF o, n, f
  <2> QED BY <1>2, <1>4, <2>1, SetCounts
<1>6. s \in Statuses /\ s.kind = "Streaming"
  BY StatusAs DEF Kinds
<1> HIDE DEF s, w
<1>7. a \in Events /\ a.kind = "status" /\ a.ses = id /\ a.v = s
  BY <1>2, <1>6, SaysIs
<1> HIDE DEF a
<1>8. ShownOK(u) /\ Carried(Drained, u) /\ u.status.kind = "Streaming" /\ u.figures.trouble = ""
      /\ u.figures.frames = o.frames
  <2>1. CASE o.phase = "waiting"
    <3>1. ShownOK(u) /\ AfterStatus(Drained, a, u)
      BY <1>2, <1>7, <2>1, StatusApplied
    <3> HIDE DEF u
    <3>2. Carried(Drained, u)
      BY <1>2, <1>6, <1>7, <3>1, StatusCarries
    <3>3. u.status.kind = "Streaming" /\ u.figures.trouble = "" /\ u.figures.frames = o.frames
      BY <1>2, <1>6, <1>7, <3>1 DEF AfterStatus, Told
    <3> QED BY <3>1, <3>2, <3>3
  <2>2. CASE o.phase # "waiting"
    <3>1. u = Drained /\ o.phase = "streaming"
      BY <1>1, <2>2
    <3>2. Carried(Drained, Drained)
      BY <1>2 DEF Carried, ShownOK
    <3> QED BY <1>2, <3>1, <3>2 DEF Told
  <2> QED BY <2>1, <2>2
<1>9. r \in Events /\ r.kind = "rtcm" /\ r.ses = id /\ r.v = holds
  BY <1>2, RtcmIs
<1>10. x \in Events /\ x.kind = "rx" /\ x.ses = id /\ x.v = n
  BY <1>2, <1>4, RxIs
<1> HIDE DEF r, x
<1>11. ShownOK(v) /\ AfterBytes(u, r, x, v)
  <2> HIDE DEF u
  <2> QED BY <1>8, <1>9, <1>10, BytesApplied
<1>12. Shown' = Shown /\ profile' = profile /\ chan' = chan \o (first \o <<r, x>>)
  BY <1>3, SameShown
<1>13. /\ Drained' = v
       /\ first \o <<r, x>> \in Seq(Events)
       /\ \A i \in DOMAIN (first \o <<r, x>>) : (first \o <<r, x>>)[i].ses = id
  <2>1. CASE o.phase = "waiting"
    <3>1. first \o <<r, x>> = <<a, r, x>> /\ u = Apply(profile, Drained, a)
      <4>1. first = <<a>>
        BY <2>1
      <4>2. <<a>> \o <<r, x>> = <<a, r, x>>
        BY <1>7, <1>9, <1>10, JoinTwo
      <4> QED BY <2>1, <4>1, <4>2
    <3>2. Drained' = v
      BY <1>7, <1>9, <1>10, <1>12, <3>1, PostThree DEF WindowInv, Drained
    <3>3. <<a, r, x>> \in Seq(Events) /\ \A i \in DOMAIN <<a, r, x>> : <<a, r, x>>[i].ses = id
      BY <1>7, <1>9, <1>10, ThreePosts
    <3> HIDE DEF first, v
    <3> QED BY <3>1, <3>2, <3>3
  <2>2. CASE o.phase # "waiting"
    <3>1. first \o <<r, x>> = <<r, x>> /\ u = Drained
      <4>1. first = <<>> /\ u = Drained
        BY <2>2
      <4>2. <<>> \o <<r, x>> = <<r, x>>
        BY <1>9, <1>10
      <4> QED BY <4>1, <4>2
    <3>2. Drained' = v
      BY <1>9, <1>10, <1>12, <3>1, PostTwo DEF WindowInv, Drained
    <3>3. <<r, x>> \in Seq(Events) /\ \A i \in DOMAIN <<r, x>> : <<r, x>>[i].ses = id
      BY <1>9, <1>10, TwoPosts
    <3> HIDE DEF first, v
    <3> QED BY <3>1, <3>2, <3>3
  <2> QED BY <2>1, <2>2
<1> HIDE DEF u, v, n, f
<1>14. Carried(Drained, Drained')
  <2>1. Carried(u, v)
    BY <1>11 DEF AfterBytes
  <2> QED BY <1>2, <1>8, <1>11, <1>13, <2>1, CarriesOn
<1>15. Told(w, Drained')
  <2>1. v.figures.total = n /\ v.figures.frames = u.figures.frames + (IF holds = "frame" THEN 1 ELSE 0)
        /\ v.status = u.status /\ v.figures.trouble = u.figures.trouble
    BY <1>9, <1>10, <1>11 DEF AfterBytes
  <2>2. Drained'.figures.frames = f
    BY <1>8, <1>13, <2>1 DEF f
  <2> QED BY <1>5, <1>8, <1>13, <2>1, <2>2 DEF Told, Set
<1>16. WorkerOK(w) /\ w.job = workers[id].job
  BY <1>5 DEF Set
<1>17. ShownOK(Shown') /\ (last_rx = "none" => last_rx' = "none") /\ ShownOK(Drained')
  BY <1>2, <1>3, <1>11, <1>12, <1>13
<1> HIDE DEF first, o
<1> QED BY <1>3, <1>13, <1>14, <1>15, <1>16, <1>17, GoesCarries

\* The member of a sequence of one.
LEMMA FirstOf ==
  ASSUME NEW x
  PROVE  <<x>>[1] = x
  OBVIOUS

\* A table keeps the log's word and the table's the same.
LEMMA TableTells ==
  ASSUME NEW u, NEW e, NEW v, FlagTrue(u), Busy, AfterTable(profile, u, e, v)
  PROVE  FlagTrue(v)
<1>1. /\ v.sourcetable = <<e.v>>
      /\ v.flag = (IF profile.mount = "" \/ profile.host # e.v.host THEN u.flag
                   ELSE <<[host |-> e.v.host, mount |-> profile.mount,
                           says |-> WordOf(Entry(e.v.strs, profile.mount))]>>)
  BY DEF AfterTable
<1>2. CASE profile.mount = "" \/ profile.host # e.v.host
  <2>1. v.flag = u.flag
    BY <1>1, <1>2
  <2>2. u.flag # <<>> => /\ u.flag[1].host = profile.host /\ u.flag[1].mount = profile.mount
                         /\ profile.mount # ""
    BY DEF FlagTrue
  <2>3. v.sourcetable[1] = e.v
    BY <1>1, FirstOf
  <2> QED BY <1>2, <2>1, <2>2, <2>3 DEF FlagTrue
<1>3. CASE ~(profile.mount = "" \/ profile.host # e.v.host)
  <2> DEFINE says == WordOf(Entry(e.v.strs, profile.mount))
             f == [host |-> e.v.host, mount |-> profile.mount, says |-> says]
  <2>1. v.flag = <<f>>
    BY <1>1, <1>3
  <2>2. f.host = e.v.host /\ f.mount = profile.mount /\ f.says = says
    OBVIOUS
  <2> HIDE DEF f, says
  <2>3. v.flag[1] = f /\ v.sourcetable[1] = e.v
    BY <1>1, <2>1, FirstOf
  <2> QED BY <1>3, <2>2, <2>3 DEF FlagTrue, says
<1> QED BY <1>2, <1>3

\* A table a caster lists is a table.
LEMMA ListedTable ==
  ASSUME NEW h \in Hosts, NEW strs \in Listings[h]
  PROVE  [host |-> h, strs |-> strs] \in Tables
  BY DEF Tables, Lists

LEMMA TableDoneKeeps ==
  ASSUME WindowInv, NEW id \in DOMAIN workers, TableDone(id)
  PROVE  WindowInv'
<1> DEFINE o == workers[id]
<1>1. PICK strs \in Listings[o.job.host] :
        /\ Goes(id, [o EXCEPT !.phase = "done"], <<Post(id, "table", [host |-> o.job.host, strs |-> strs])>>)
        /\ UNCHANGED <<since, last_rx>>
  BY DEF TableDone
<1> DEFINE t == [host |-> o.job.host, strs |-> strs]
           a == Post(id, "table", t)
           w == [o EXCEPT !.phase = "done"]
<1>2. /\ id \in Nat /\ WorkerOK(o) /\ Told(o, Drained) /\ ShownOK(Shown) /\ ShownOK(Drained)
      /\ o.job.host \in Hosts /\ Busy
  BY InSession DEF WellInformed
<1>3. t \in Tables
  BY <1>2, ListedTable
<1> HIDE DEF t
<1>4. a \in Events /\ a.kind = "table" /\ a.ses = id /\ a.v = t
  BY <1>2, <1>3, TableIs
<1>5. Set(w, o, "done", o.total, o.frames, o.why)
  <2>1. "done" \in Phases
    BY DEF Phases
  <2> HIDE DEF o
  <2> QED BY <1>2, <2>1, SetPhase
<1>6. Goes(id, w, <<a>>) /\ UNCHANGED <<since, last_rx>>
  BY <1>1 DEF t
<1> HIDE DEF a, w
<1>7. Shown' = Shown /\ profile' = profile /\ chan' = chan \o <<a>> /\ ntrip' = ntrip
  BY <1>6, SameShown DEF Goes
<1>8. Drained' = Apply(profile, Drained, a)
  BY <1>4, <1>7, PostOne DEF WindowInv, Drained
<1>9. ShownOK(Drained') /\ AfterTable(profile, Drained, a, Drained')
  BY <1>2, <1>4, <1>8, TableApplied
<1>10. FlagTrue(Drained)'
  <2>1. FlagTrue(Drained')
    BY <1>2, <1>9, TableTells DEF WindowInv, Own
  <2> QED BY <1>7, <2>1 DEF FlagTrue, Busy
<1>11. /\ Drained'.ntrip = Drained.ntrip /\ Drained'.insecure = Drained.insecure
       /\ Drained.unknown.gen <= Drained'.unknown.gen
       /\ Drained'.figures = Drained.figures
  <2>1. Drained.unknown.gen \in Nat
    BY <1>2 DEF ShownOK
  <2>2. Drained'.ntrip = Drained.ntrip /\ Drained'.insecure = Drained.insecure
        /\ Drained'.unknown = Drained.unknown /\ Drained'.figures = Drained.figures
    BY <1>9 DEF AfterTable
  <2> QED BY <2>1, <2>2
<1>12. Told(w, Drained')
  BY <1>2, <1>5, <1>11 DEF Told, Set
<1>13. <<a>> \in Seq(Events) /\ \A i \in DOMAIN <<a>> : <<a>>[i].ses = id
  BY <1>4, OnePost
<1>14. WorkerOK(w) /\ w.job = workers[id].job
  BY <1>5 DEF Set
<1>15. ShownOK(Shown') /\ (last_rx = "none" => last_rx' = "none")
  BY <1>2, <1>6, <1>7
<1> HIDE DEF o
<1> QED BY <1>6, <1>9, <1>10, <1>11, <1>12, <1>13, <1>14, <1>15, GoesKeeps

\* In mid-connection the flag is seen: the close, and no reason.
LEMMA GivingUpKeeps ==
  ASSUME WindowInv, NEW id \in DOMAIN workers, workers[id].cancelled,
         Goes(id, [workers[id] EXCEPT !.phase = "ended"], <<Post(id, "trouble", "")>>),
         UNCHANGED <<since, last_rx>>
  PROVE  WindowInv'
<1> DEFINE o == workers[id]
           a == Post(id, "trouble", "")
           w == [o EXCEPT !.phase = "ended"]
<1>1. Goes(id, w, <<a>>)
  OBVIOUS
<1>2. /\ id \in Nat /\ WorkerOK(o) /\ Told(o, Drained) /\ ShownOK(Shown) /\ ShownOK(Drained)
  BY InSession
<1>3. "ended" \in Phases /\ "" \in Texts
  BY DEF Phases, Texts
<1>4. a \in Events /\ a.kind = "trouble" /\ a.ses = id
  BY <1>2, <1>3, TroubleIs
<1>5. Set(w, o, "ended", o.total, o.frames, o.why)
  <2> HIDE DEF o
  <2> QED BY <1>2, <1>3, SetPhase
<1> HIDE DEF a, w
<1>6. Shown' = Shown /\ profile' = profile /\ chan' = chan \o <<a>>
  BY <1>1, SameShown
<1>7. Drained' = Apply(profile, Drained, a)
  BY <1>4, <1>6, PostOne DEF WindowInv, Drained
<1>8. ShownOK(Drained') /\ AfterTrouble(Drained, a, Drained')
  BY <1>2, <1>4, <1>7, TroubleApplied
<1>9. Carried(Drained, Drained')
  BY <1>2, <1>8, OthersCarry
<1>10. Told(w, Drained')
  BY <1>2, <1>5, <1>8 DEF AfterTrouble, Told, Set
<1>11. <<a>> \in Seq(Events) /\ \A i \in DOMAIN <<a>> : <<a>>[i].ses = id
  BY <1>4, OnePost
<1>12. WorkerOK(w) /\ w.job = workers[id].job
  BY <1>5 DEF Set
<1> HIDE DEF o
<1> QED BY <1>1, <1>2, <1>6, <1>8, <1>9, <1>10, <1>11, <1>12, GoesCarries

LEMMA RetryKeeps ==
  ASSUME WindowInv, NEW id \in DOMAIN workers, workers[id].phase = "ended", ~workers[id].cancelled,
         Goes(id, [workers[id] EXCEPT !.phase = "retry"],
              <<Post(id, "close", workers[id].why),
                Says(id, [Status("ReconnectWait") EXCEPT !.attempt = workers[id].attempts + 1])>>),
         UNCHANGED <<since, last_rx>>
  PROVE  WindowInv'
<1> DEFINE o == workers[id]
           s == [Status("ReconnectWait") EXCEPT !.attempt = o.attempts + 1]
           a == Post(id, "close", o.why)
           b == Says(id, s)
           w == [o EXCEPT !.phase = "retry"]
           u == Apply(profile, Drained, a)
<1>1. Goes(id, w, <<a, b>>)
  OBVIOUS
<1>2. /\ id \in Nat /\ WorkerOK(o) /\ Told(o, Drained) /\ ShownOK(Shown) /\ ShownOK(Drained)
  BY InSession
<1>3. "retry" \in Phases /\ "ReconnectWait" \in Kinds /\ o.attempts + 1 \in Nat /\ o.why \in Texts
  BY <1>2 DEF Phases, Kinds, WorkerOK
<1>4. s \in Statuses /\ s.kind = "ReconnectWait"
  <2> HIDE DEF o
  <2> QED BY <1>3, StatusAttempt
<1> HIDE DEF s
<1>5. a \in Events /\ a.kind = "close" /\ a.ses = id /\ a.v = o.why
  BY <1>2, <1>3, CloseIs
<1>6. b \in Events /\ b.kind = "status" /\ b.ses = id /\ b.v = s
  BY <1>2, <1>4, SaysIs
<1>7. Set(w, o, "retry", o.total, o.frames, o.why)
  <2> HIDE DEF o
  <2> QED BY <1>2, <1>3, SetPhase
<1> HIDE DEF a, b, w
<1>8. Shown' = Shown /\ profile' = profile /\ chan' = chan \o <<a, b>>
  BY <1>1, SameShown
<1>9. Drained' = Apply(profile, u, b)
  BY <1>5, <1>6, <1>8, PostTwo DEF WindowInv, Drained
<1>10. ShownOK(u) /\ AfterClose(Drained, a, u)
  BY <1>2, <1>5, CloseApplied
<1> HIDE DEF u
<1>11. ShownOK(Drained') /\ AfterStatus(u, b, Drained')
  BY <1>6, <1>9, <1>10, StatusApplied
<1>12. Carried(Drained, Drained')
  <2>1. Carried(Drained, u)
    BY <1>2, <1>10, OthersCarry
  <2>2. Carried(u, Drained')
    BY <1>4, <1>6, <1>10, <1>11, StatusCarries
  <2> QED BY <1>2, <1>10, <1>11, <2>1, <2>2, CarriesOn
<1>13. Told(w, Drained')
  BY <1>2, <1>4, <1>5, <1>6, <1>7, <1>10, <1>11 DEF AfterClose, AfterStatus, Told, Set
<1>14. <<a, b>> \in Seq(Events) /\ \A i \in DOMAIN <<a, b>> : <<a, b>>[i].ses = id
  BY <1>5, <1>6, TwoPosts
<1>15. WorkerOK(w) /\ w.job = workers[id].job
  BY <1>7 DEF Set
<1> HIDE DEF o
<1> QED BY <1>1, <1>2, <1>8, <1>11, <1>12, <1>13, <1>14, <1>15, GoesCarries

\* What a post that changes no figure leaves.
Leaves(v) ==
  /\ ShownOK(v) /\ FlagTrue(v) /\ v.figures = Drained.figures
  /\ v.ntrip = Drained.ntrip /\ v.insecure = Drained.insecure
  /\ Drained.unknown.gen <= v.unknown.gen

\* A connection that ended: the close's posts, u what the ones before the
\* verdict on the position make.
LEMMA EndedKeeps ==
  ASSUME WindowInv, NEW id \in DOMAIN workers, NEW y \in Texts, y # "", NEW g, NEW posts \in Seq(Events),
         Goes(id, [workers[id] EXCEPT !.phase = "ended", !.why = y, !.again = g], posts),
         UNCHANGED <<since, last_rx>>, \A i \in DOMAIN posts : posts[i].ses = id,
         NEW u, Leaves(u), NEW a \in Events, a.kind = "trouble", Drained' = Apply(profile, u, a)
  PROVE  WindowInv'
<1> DEFINE w == [workers[id] EXCEPT !.phase = "ended", !.why = y, !.again = g]
<1>1. Goes(id, w, posts)
  OBVIOUS
<1>2. /\ id \in Nat /\ WorkerOK(workers[id]) /\ Told(workers[id], Drained)
      /\ ShownOK(Shown) /\ ShownOK(Drained)
  BY InSession
<1>3. Set(w, workers[id], "ended", workers[id].total, workers[id].frames, y)
  <2>1. "ended" \in Phases
    BY DEF Phases
  <2> QED BY <1>2, <2>1, SetWhy
<1> HIDE DEF w
<1>4. Shown' = Shown /\ profile' = profile /\ ntrip' = ntrip
  BY <1>1, SameShown DEF Goes
<1>5. ShownOK(u) /\ FlagTrue(u) /\ u.figures = Drained.figures /\ u.ntrip = Drained.ntrip
      /\ u.insecure = Drained.insecure /\ Drained.unknown.gen <= u.unknown.gen
  BY DEF Leaves
<1>6. ShownOK(Drained') /\ AfterTrouble(u, a, Drained')
  BY <1>5, TroubleApplied
<1>7. Drained'.ntrip = Drained.ntrip /\ Drained'.insecure = Drained.insecure
      /\ Drained'.unknown = u.unknown /\ Drained'.flag = u.flag /\ Drained'.sourcetable = u.sourcetable
      /\ Drained'.figures.total = Drained.figures.total /\ Drained'.figures.frames = Drained.figures.frames
  BY <1>5, <1>6 DEF AfterTrouble
<1>8. FlagTrue(Drained)'
  BY <1>4, <1>5, <1>7 DEF FlagTrue, Busy
<1>9. Drained.unknown.gen <= Drained'.unknown.gen
  BY <1>5, <1>7
<1>10. Told(w, Drained')
  BY <1>2, <1>3, <1>7 DEF Told, Set
<1>11. WorkerOK(w) /\ w.job = workers[id].job
  BY <1>3 DEF Set
<1> QED BY <1>1, <1>2, <1>4, <1>6, <1>7, <1>8, <1>9, <1>10, <1>11, GoesKeeps

\* What a close says.
LEMMA CloseReasons ==
  ASSUME NEW c \in Closes
  PROVE  c.why \in {"refused", "lost", "unknown"} /\ c.trouble \in {"", "refused"}
<1>1. \/ c = [why |-> "refused", again |-> FALSE, trouble |-> ""]
      \/ c = [why |-> "lost", again |-> TRUE, trouble |-> "refused"]
      \/ c = [why |-> "unknown", again |-> FALSE, trouble |-> ""]
  BY Zenon DEF Closes
<1>2. CASE c = [why |-> "refused", again |-> FALSE, trouble |-> ""]
  BY <1>2
<1>3. CASE c = [why |-> "lost", again |-> TRUE, trouble |-> "refused"]
  BY <1>3
<1>4. CASE c = [why |-> "unknown", again |-> FALSE, trouble |-> ""]
  BY <1>4
<1> QED BY <1>1, <1>2, <1>3, <1>4

\* A close, with an unknown response, a table or nothing before it.
LEMMA CloseKeeps ==
  ASSUME WindowInv, NEW id \in DOMAIN workers, id # 0, Close(id)
  PROVE  WindowInv'
<1> DEFINE o == workers[id]
           T(t) == Post(id, "trouble", t)
<1>1. /\ id \in Nat /\ ShownOK(Shown) /\ ShownOK(Drained) /\ o.job.host \in Hosts /\ Busy
  BY InSession DEF WellInformed
<1>2. ASSUME NEW t \in Texts
      PROVE  T(t) \in Events /\ T(t).kind = "trouble" /\ T(t).ses = id
  BY <1>1, <1>2, TroubleIs
<1>3. Leaves(Drained)
  <2>1. Drained.unknown.gen \in Nat
    BY <1>1 DEF ShownOK
  <2> QED BY <1>1, <2>1 DEF Leaves, WindowInv, Own
<1>4. UNCHANGED <<since, last_rx>>
  BY DEF Close
<1>5. ASSUME NEW c \in Closes,
             Goes(id, [o EXCEPT !.phase = "ended", !.why = c.why, !.again = c.again],
                  (IF c.why = "unknown" THEN <<Post(id, "unknown", id)>> ELSE <<>>)
                  \o <<T(IF o.job.table THEN "" ELSE c.trouble)>>)
      PROVE  WindowInv'
  <2> DEFINE y == c.why
             t == IF o.job.table THEN "" ELSE c.trouble
             b == T(t)
             a == Post(id, "unknown", id)
  <2>1. y \in Texts /\ y # "" /\ t \in Texts
    <3>1. c.why \in {"refused", "lost", "unknown"} /\ c.trouble \in {"", "refused"}
      BY CloseReasons
    <3> QED BY <3>1 DEF Texts
  <2>2. b \in Events /\ b.kind = "trouble" /\ b.ses = id
    BY <1>2, <2>1
  <2>3. CASE y = "unknown"
    <3>1. a \in Events /\ a.kind = "unknown" /\ a.ses = id /\ a.v = id
      BY <1>1, UnknownIs
    <3> DEFINE u == Apply(profile, Drained, a)
    <3> HIDE DEF a, b
    <3>2. Goes(id, [o EXCEPT !.phase = "ended", !.why = y, !.again = c.again], <<a, b>>)
      <4>1. <<a>> \o <<b>> = <<a, b>>
        BY <2>2, <3>1, JoinOne
      <4> QED BY <1>5, <2>3, <4>1 DEF a, b
    <3>3. Shown' = Shown /\ profile' = profile /\ chan' = chan \o <<a, b>>
      BY <1>4, <3>2, SameShown
    <3>4. Drained' = Apply(profile, u, b)
      BY <2>2, <3>1, <3>3, PostTwo DEF WindowInv, Drained
    <3>5. ShownOK(u) /\ AfterUnknown(Drained, a, u)
      BY <1>1, <3>1, UnknownApplied
    <3> HIDE DEF u
    <3>6. Leaves(u)
      <4>1. Drained.unknown.gen \in Nat
        BY <1>1 DEF ShownOK
      <4>2. u.flag = Drained.flag /\ u.sourcetable = Drained.sourcetable /\ u.figures = Drained.figures
            /\ u.ntrip = Drained.ntrip /\ u.insecure = Drained.insecure
            /\ u.unknown.gen = Drained.unknown.gen + 1
        BY <3>5 DEF AfterUnknown
      <4>3. FlagTrue(u)
        BY <1>3, <4>2 DEF Leaves, FlagTrue
      <4> QED BY <3>5, <4>1, <4>2, <4>3 DEF Leaves
    <3>7. <<a, b>> \in Seq(Events) /\ \A i \in DOMAIN <<a, b>> : <<a, b>>[i].ses = id
      BY <2>2, <3>1, TwoPosts
    <3> HIDE DEF y
    <3> QED BY <1>4, <2>1, <2>2, <3>2, <3>4, <3>6, <3>7, EndedKeeps
  <2>4. CASE y # "unknown"
    <3> HIDE DEF b
    <3>1. Goes(id, [o EXCEPT !.phase = "ended", !.why = y, !.again = c.again], <<b>>)
      <4>1. <<>> \o <<b>> = <<b>>
        BY <2>2
      <4> QED BY <1>5, <2>4, <4>1 DEF b
    <3>2. Shown' = Shown /\ profile' = profile /\ chan' = chan \o <<b>>
      BY <1>4, <3>1, SameShown
    <3>3. Drained' = Apply(profile, Drained, b)
      BY <2>2, <3>2, PostOne DEF WindowInv, Drained
    <3>4. <<b>> \in Seq(Events) /\ \A i \in DOMAIN <<b>> : <<b>>[i].ses = id
      BY <2>2, OnePost
    <3> HIDE DEF y
    <3> QED BY <1>3, <1>4, <2>1, <2>2, <3>1, <3>3, <3>4, EndedKeeps
  <2> QED BY <2>3, <2>4
<1>6. ASSUME NEW strs \in Listings[o.job.host],
             Goes(id, [o EXCEPT !.phase = "ended", !.why = "not found", !.again = FALSE],
                  <<Post(id, "table", [host |-> o.job.host, strs |-> strs]), T("")>>)
      PROVE  WindowInv'
  <2> DEFINE t == [host |-> o.job.host, strs |-> strs]
             a == Post(id, "table", t)
             b == T("")
             u == Apply(profile, Drained, a)
  <2>1. t \in Tables
    BY <1>1, ListedTable
  <2>2. a \in Events /\ a.kind = "table" /\ a.ses = id
    BY <1>1, <2>1, TableIs
  <2>3. "" \in Texts /\ "not found" \in Texts
    BY DEF Texts
  <2>4. b \in Events /\ b.kind = "trouble" /\ b.ses = id
    BY <1>2, <2>3
  <2>5. Goes(id, [o EXCEPT !.phase = "ended", !.why = "not found", !.again = FALSE], <<a, b>>)
    BY <1>6
  <2> HIDE DEF a, b
  <2>6. Shown' = Shown /\ profile' = profile /\ chan' = chan \o <<a, b>>
    BY <1>4, <2>5, SameShown
  <2>7. Drained' = Apply(profile, u, b)
    BY <2>2, <2>4, <2>6, PostTwo DEF WindowInv, Drained
  <2>8. ShownOK(u) /\ AfterTable(profile, Drained, a, u)
    BY <1>1, <2>2, TableApplied
  <2> HIDE DEF u
  <2>9. Leaves(u)
    <3>1. Drained.unknown.gen \in Nat
      BY <1>1 DEF ShownOK
    <3>2. u.figures = Drained.figures /\ u.ntrip = Drained.ntrip /\ u.insecure = Drained.insecure
          /\ u.unknown = Drained.unknown
      BY <2>8 DEF AfterTable
    <3>3. FlagTrue(u)
      BY <1>1, <1>3, <2>8, TableTells DEF Leaves
    <3> QED BY <2>8, <3>1, <3>2, <3>3 DEF Leaves
  <2>10. <<a, b>> \in Seq(Events) /\ \A i \in DOMAIN <<a, b>> : <<a, b>>[i].ses = id
    BY <2>2, <2>4, TwoPosts
  <2> QED BY <1>4, <2>3, <2>4, <2>5, <2>7, <2>9, <2>10, EndedKeeps
<1> QED BY <1>5, <1>6 DEF Close

LEMMA NoLess ==
  ASSUME NEW a \in Nat, NEW b \in Nat, NEW c \in Nat, a <= b, b <= c
  PROVE  a <= c
  OBVIOUS

SaidBy(s, k) == s \in Seq(Events) /\ \A i \in DOMAIN s : s[i].ses = k

\* What one session has posted stays its own when it posts more.
LEMMA PostedBy ==
  ASSUME NEW c, NEW p, NEW k, SaidBy(c, k), SaidBy(p, k)
  PROVE  SaidBy(c \o p, k)
<1> DEFINE d == c \o p
<1>1. c \in Seq(Events) /\ p \in Seq(Events)
      /\ (\A i \in DOMAIN c : c[i].ses = k) /\ \A i \in DOMAIN p : p[i].ses = k
  BY DEF SaidBy
<1>2. d \in Seq(Events)
  BY <1>1
<1>3. \A i \in DOMAIN d : \/ i \in DOMAIN c /\ d[i] = c[i]
                          \/ i - Len(c) \in DOMAIN p /\ d[i] = p[i - Len(c)]
  BY <1>1
<1> HIDE DEF d
<1>4. SaidBy(d, k)
  BY <1>1, <1>2, <1>3 DEF SaidBy
<1> QED BY <1>4 DEF d

\* The status of a worker that stopped.
StoppedFor(s, y, b) == s \in Statuses /\ s.kind = "Stopped" /\ s.why = y /\ s.failed = b

\* It is that status.
LEMMA StatusStopped ==
  ASSUME NEW y \in Texts, NEW b \in BOOLEAN, NEW k, k = "Stopped"
  PROVE  StoppedFor([Status(k) EXCEPT !.why = y, !.failed = b], y, b)
<1> DEFINE s == [Status(k) EXCEPT !.why = y, !.failed = b]
<1>1. s \in Statuses /\ s.kind = k /\ s.why = y /\ s.failed = b
  <2>1. k \in Kinds
    BY DEF Kinds
  <2> HIDE DEF StoppedFor
  <2> QED BY <2>1 DEF Statuses, Status, Texts
<1> HIDE DEF s
<1>2. StoppedFor(s, y, b)
  BY <1>1 DEF StoppedFor
<1> QED BY <1>2 DEF s

\* The last thing a worker says: why it stopped.
LEMMA StopKeeps ==
  ASSUME WindowInv, NEW id \in DOMAIN workers, NEW posts \in Seq(Events),
         \A i \in DOMAIN posts : posts[i].ses = id,
         workers' = [i \in DOMAIN workers \ {id} |-> workers[i]], chan' = chan \o posts,
         NEW y \in Texts, NEW b \in BOOLEAN, b => y # "", ended' = <<[why |-> y, failed |-> b]>>,
         UNCHANGED <<profile, sourcetable, tab, ntrip, shown, ack, insecure_tls_active, meter, flag,
                     sessions, from, policy>>,
         NEW u, ShownOK(u), Carried(Drained, u),
         NEW e \in Events, e.kind = "status", StoppedFor(e.v, y, b),
         Drained' = Apply(profile, u, e)
  PROVE  WindowInv'
<1>1. /\ id = sessions /\ Busy /\ DOMAIN workers = {id} /\ ShownOK(Shown) /\ ShownOK(Drained)
  BY InSession
<1>2. /\ profile' = profile /\ ntrip' = ntrip /\ status' = status /\ figures' = figures
      /\ unknown' = unknown /\ ack' = ack /\ insecure_tls_active' = insecure_tls_active
      /\ meter' = meter /\ sessions' = sessions /\ from' = from /\ last_rx' = last_rx
      /\ Shown' = Shown
  BY DEF shown, Shown
<1>3. DOMAIN workers' = {} /\ workers' = [i \in DOMAIN workers' |-> workers'[i]]
  BY <1>1
<1>4. chan' \in Seq(Events) /\ \A i \in DOMAIN chan' : chan'[i].ses = id
  <2>1. SaidBy(chan, id)
    BY <1>1 DEF WindowInv, TypeOK, OneAtATime, SaidBy
  <2>2. SaidBy(posts, id)
    BY DEF SaidBy
  <2>3. SaidBy(chan', id)
    BY <2>1, <2>2, PostedBy
  <2> QED BY <2>3 DEF SaidBy
<1>5. TypeOK'
  BY <1>1, <1>2, <1>3, <1>4 DEF WindowInv, TypeOK
<1>6. ShownOK(Drained') /\ AfterStatus(u, e, Drained')
  BY StatusApplied
<1>7. /\ Drained'.status = e.v /\ Drained'.ntrip = <<>> /\ ~Drained'.insecure
      /\ Drained'.flag = Drained.flag /\ Drained'.sourcetable = Drained.sourcetable
      /\ Drained.unknown.gen <= Drained'.unknown.gen
  <2>1. Drained'.insecure = (u.insecure /\ e.v.kind # "Stopped")
    BY <1>6 DEF AfterStatus
  <2>2. ~Drained'.insecure
    BY <2>1 DEF StoppedFor
  <2> QED BY <1>6, <2>2 DEF AfterStatus, Carried, StoppedFor
<1>8. OneAtATime'
  <2>1. \A i \in DOMAIN chan' : chan'[i].ses = sessions'
    BY <1>1, <1>2, <1>4
  <2>2. Drained'.ntrip = (IF DOMAIN workers' = {} THEN <<>> ELSE ntrip')
    BY <1>3, <1>7
  <2> QED BY <1>1, <1>2, <1>3, <2>1, <2>2 DEF WindowInv, OneAtATime, Busy
<1>9. UpToDate'
  <2>1. ended' # <<>> /\ ended'[1].why = y /\ ended'[1].failed = b
    OBVIOUS
  <2>2. ToldTheEnd(Drained)'
    BY <1>7, <2>1 DEF ToldTheEnd, StoppedFor
  <2> QED BY <1>3, <2>2 DEF UpToDate
<1>10. Counted'
  BY <1>2 DEF WindowInv, Counted
<1>11. Warned'
  <2>1. unknown.gen \in Nat /\ Drained.unknown.gen \in Nat /\ Drained'.unknown.gen \in Nat
    BY <1>1, <1>6 DEF ShownOK, Shown
  <2>2. unknown'.gen <= Drained'.unknown.gen
    <3>1. unknown.gen <= Drained.unknown.gen
      BY DEF WindowInv, Warned
    <3>2. unknown'.gen = unknown.gen /\ Drained.unknown.gen <= Drained'.unknown.gen
      BY <1>2, <1>7
    <3>3. unknown.gen <= Drained'.unknown.gen
      BY <2>1, <3>1, <3>2, NoLess
    <3> QED BY <3>2, <3>3
  <2> QED BY <1>1, <1>2, <1>3, <1>7, <2>2 DEF WindowInv, Warned, Busy
<1>12. Own'
  <2>1. FlagTrue(Drained)'
    BY <1>2, <1>7 DEF WindowInv, Own, FlagTrue, Busy
  <2> QED BY <1>3, <2>1 DEF Own
<1> QED BY <1>5, <1>8, <1>9, <1>10, <1>11, <1>12 DEF WindowInv

LEMMA CarriedItself ==
  ASSUME NEW u, ShownOK(u)
  PROVE  Carried(u, u)
<1>1. u.unknown.gen \in Nat
  BY DEF ShownOK
<1> QED BY <1>1 DEF Carried

\* A stop without a close's reason; then the ways to stop.
LEMMA QuitsKeeps ==
  ASSUME WindowInv, NEW id \in DOMAIN workers, NEW y \in Texts, NEW b \in BOOLEAN, b => y # "",
         Quits(id, y, b)
  PROVE  WindowInv'
<1> DEFINE s == [Status("Stopped") EXCEPT !.why = y, !.failed = b]
           a == Says(id, s)
<1>1. id \in Nat /\ ShownOK(Shown) /\ ShownOK(Drained)
  BY InSession
<1>2. /\ workers' = [i \in DOMAIN workers \ {id} |-> workers[i]]
      /\ chan' = Append(chan, a) /\ ended' = <<[why |-> y, failed |-> b]>>
      /\ UNCHANGED <<profile, sourcetable, tab, ntrip, shown, ack, insecure_tls_active, meter, flag,
                     sessions, from, policy>>
  BY DEF Quits
<1>3. StoppedFor(s, y, b)
  BY StatusStopped
<1> HIDE DEF s
<1>4. a \in Events /\ a.kind = "status" /\ a.ses = id /\ a.v = s
  BY <1>1, <1>3, SaysIs DEF StoppedFor
<1> HIDE DEF a
<1>5. chan' = chan \o <<a>>
  <2>1. chan \in Seq(Events)
    BY DEF WindowInv, TypeOK
  <2> QED BY <1>2, <1>4, <2>1, AppendIsConcat
<1>6. Shown' = Shown
  BY <1>2 DEF Shown, shown
<1>7. Drained' = Apply(profile, Drained, a)
  BY <1>2, <1>4, <1>5, <1>6, PostOne DEF WindowInv, Drained
<1>8. <<a>> \in Seq(Events) /\ \A i \in DOMAIN <<a>> : <<a>>[i].ses = id
  BY <1>4, OnePost
<1>9. Carried(Drained, Drained)
  BY <1>1, CarriedItself
<1>10. StoppedFor(a.v, y, b)
  BY <1>3, <1>4
<1> QED BY <1>1, <1>2, <1>4, <1>5, <1>7, <1>8, <1>9, <1>10, StopKeeps

LEMMA GiveUpKeeps ==
  ASSUME WindowInv, NEW id \in DOMAIN workers, GiveUp(id)
  PROVE  WindowInv'
<1>1. CASE workers[id].phase \in {"waiting", "streaming"}
  BY <1>1, GivingUpKeeps DEF GiveUp
<1>2. CASE workers[id].phase \notin {"waiting", "streaming"}
  <2>1. Quits(id, "by user", FALSE)
    BY <1>2 DEF GiveUp
  <2>2. "by user" \in Texts
    BY DEF Texts
  <2> QED BY <2>1, <2>2, QuitsKeeps
<1> QED BY <1>1, <1>2

LEMMA FinishKeeps ==
  ASSUME WindowInv, NEW id \in DOMAIN workers, Finish(id)
  PROVE  WindowInv'
<1>1. Quits(id, "downloaded", FALSE)
  BY DEF Finish
<1>2. "downloaded" \in Texts
  BY DEF Texts
<1> QED BY <1>1, <1>2, QuitsKeeps

LEMMA DecideKeeps ==
  ASSUME WindowInv, NEW id \in DOMAIN workers, Decide(id)
  PROVE  WindowInv'
<1> DEFINE o == workers[id]
           y == o.why
           s == [Status("Stopped") EXCEPT !.why = y, !.failed = TRUE]
           a == Post(id, "close", y)
           b == Says(id, s)
           u == Apply(profile, Drained, a)
<1>1. o.phase = "ended" /\ ~o.cancelled
  BY DEF Decide, Live
<1>2. CASE Goes(id, [o EXCEPT !.phase = "retry"],
                <<Post(id, "close", o.why),
                  Says(id, [Status("ReconnectWait") EXCEPT !.attempt = o.attempts + 1])>>)
           /\ UNCHANGED <<since, last_rx>>
  BY <1>1, <1>2, RetryKeeps
<1>3. CASE /\ workers' = [i \in DOMAIN workers \ {id} |-> workers[i]]
           /\ chan' = chan \o <<a, b>> /\ ended' = <<[why |-> y, failed |-> TRUE]>>
           /\ UNCHANGED <<profile, sourcetable, tab, ntrip, shown, ack, insecure_tls_active, meter, flag,
                          sessions, from, policy>>
  <2>1. id \in Nat /\ WorkerOK(o) /\ Told(o, Drained) /\ ShownOK(Shown) /\ ShownOK(Drained)
    BY InSession
  <2>2. y \in Texts /\ y # ""
    BY <1>1, <2>1 DEF WorkerOK, Told
  <2> HIDE DEF y
  <2>3. StoppedFor(s, y, TRUE)
    BY <2>2, StatusStopped
  <2> HIDE DEF s
  <2>4. a \in Events /\ a.kind = "close" /\ a.ses = id
    BY <2>1, <2>2, CloseIs
  <2>5. b \in Events /\ b.kind = "status" /\ b.ses = id /\ b.v = s
    BY <2>1, <2>3, SaysIs DEF StoppedFor
  <2> HIDE DEF a, b
  <2>6. Shown' = Shown
    BY <1>3 DEF Shown, shown
  <2>7. Drained' = Apply(profile, u, b)
    BY <1>3, <2>4, <2>5, <2>6, PostTwo DEF WindowInv, Drained
  <2>8. ShownOK(u) /\ AfterClose(Drained, a, u)
    BY <2>1, <2>4, CloseApplied
  <2> HIDE DEF u
  <2>9. Carried(Drained, u)
    BY <2>1, <2>8, OthersCarry
  <2>10. <<a, b>> \in Seq(Events) /\ \A i \in DOMAIN <<a, b>> : <<a, b>>[i].ses = id
    BY <2>4, <2>5, TwoPosts
  <2>11. StoppedFor(b.v, y, TRUE)
    BY <2>3, <2>5
  <2> QED BY <1>3, <2>2, <2>5, <2>7, <2>8, <2>9, <2>10, <2>11, StopKeeps
<1> QED BY <1>2, <1>3 DEF Decide

\* A step that leaves the session and what is posted alone.
LEMMA AlikeKeeps ==
  ASSUME WindowInv,
         UNCHANGED <<profile, sourcetable, ntrip, workers, chan, status, figures, unknown, ack,
                     insecure_tls_active, meter, flag, sessions, from, ended>>,
         since' \in {"recent", "old"}, last_rx' \in {"none", "recent", "old"},
         last_rx = "none" => last_rx' = "none"
  PROVE  WindowInv'
<1>1. ShownOK(Shown)
  BY DEF WindowInv, TypeOK
<1>2. /\ Shown.status = status /\ Shown.figures = figures /\ Shown.unknown = unknown
      /\ Shown.sourcetable = sourcetable /\ Shown.ntrip = ntrip
      /\ Shown.insecure = insecure_tls_active /\ Shown.flag = flag
  BY DEF Shown
<1>3. ShownOK(Shown') /\ Alike(Shown', Shown)
  BY <1>1, <1>2 DEF ShownOK, Shown, Alike
<1>4. Drained' = Applied(profile, Shown', chan)
  BY PostNone
<1>5. ShownOK(Drained') /\ ShownOK(Drained) /\ Alike(Drained', Drained)
  BY <1>3, <1>4, Behind DEF WindowInv
<1>6. TypeOK'
  BY <1>3 DEF WindowInv, TypeOK
<1>7. OneAtATime'
  BY <1>5 DEF WindowInv, OneAtATime, Alike, Busy
<1>8. UpToDate'
  BY <1>5 DEF WindowInv, UpToDate, Told, ToldTheEnd, Alike
<1>9. Counted'
  BY DEF WindowInv, Counted
<1>10. Warned'
  BY <1>5 DEF WindowInv, Warned, Alike, Busy
<1>11. Own'
  <2>1. FlagTrue(Drained)'
    BY <1>5 DEF WindowInv, Own, FlagTrue, Alike, Busy
  <2> QED BY <2>1 DEF WindowInv, Own
<1> QED BY <1>6, <1>7, <1>8, <1>9, <1>10, <1>11 DEF WindowInv

\* The tab, and time.
LEMMA OpenTabKeeps ==
  ASSUME WindowInv, OpenTab
  PROVE  WindowInv'
<1>1. since \in {"recent", "old"} /\ last_rx \in {"none", "recent", "old"}
  BY DEF WindowInv, TypeOK, ShownOK, Shown
<1>2. UNCHANGED <<profile, sourcetable, ntrip, workers, chan, status, figures, unknown, ack,
                  insecure_tls_active, meter, flag, sessions, from, ended>>
      /\ since' = since /\ last_rx' = last_rx
  BY DEF OpenTab, shown
<1> QED BY <1>1, <1>2, AlikeKeeps

LEMMA WaitKeeps ==
  ASSUME WindowInv, Wait
  PROVE  WindowInv'
<1>1. since \in {"recent", "old"} /\ last_rx \in {"none", "recent", "old"}
  BY DEF WindowInv, TypeOK, ShownOK, Shown
<1>2. UNCHANGED <<profile, sourcetable, ntrip, workers, chan, status, figures, unknown, ack,
                  insecure_tls_active, meter, flag, sessions, from, ended>>
      /\ since' = Aged(since) /\ last_rx' = Aged(last_rx)
  BY DEF Wait
<1>3. since' \in {"recent", "old"} /\ last_rx' \in {"none", "recent", "old"}
      /\ (last_rx = "none" => last_rx' = "none")
  BY <1>1, <1>2 DEF Aged
<1> QED BY <1>2, <1>3, AlikeKeeps

\* A worker told to stop, and Disconnect.
LEMMA SetCancelled ==
  ASSUME NEW w, WorkerOK(w), NEW c \in BOOLEAN, NEW x, x = [w EXCEPT !.cancelled = c]
  PROVE  /\ WorkerOK(x) /\ x.job = w.job /\ x.phase = w.phase /\ x.total = w.total
         /\ x.frames = w.frames /\ x.why = w.why /\ x.cancelled = c
  BY DEF WorkerOK

LEMMA DisconnectKeeps ==
  ASSUME WindowInv, Disconnect
  PROVE  WindowInv'
<1> DEFINE w(id) == [workers[id] EXCEPT !.cancelled = @ \/ id = ntrip[1].id]
<1>1. /\ Busy /\ workers' = [id \in DOMAIN workers |-> w(id)]
      /\ profile' = profile /\ ntrip' = ntrip /\ status' = status /\ figures' = figures
      /\ unknown' = unknown /\ ack' = ack /\ insecure_tls_active' = insecure_tls_active
      /\ meter' = meter /\ sessions' = sessions /\ from' = from /\ last_rx' = last_rx
      /\ chan' = chan /\ ended' = ended /\ Shown' = Shown
  BY DEF Disconnect, Released, WarningAfterCancel, shown, Shown
<1>2. Drained' = Drained
  BY <1>1 DEF Drained
<1>3. ASSUME NEW id \in DOMAIN workers
      PROVE  /\ WorkerOK(w(id)) /\ w(id).job = workers[id].job /\ w(id).phase = workers[id].phase
             /\ w(id).total = workers[id].total /\ w(id).frames = workers[id].frames
             /\ w(id).why = workers[id].why /\ (~w(id).cancelled => ~workers[id].cancelled)
  <2> DEFINE c == workers[id].cancelled \/ id = ntrip[1].id
             x == w(id)
  <2>1. WorkerOK(workers[id]) /\ c \in BOOLEAN
    BY DEF WindowInv, TypeOK
  <2>2. x = [workers[id] EXCEPT !.cancelled = c] /\ (workers[id].cancelled => c)
    OBVIOUS
  <2> HIDE DEF c, w, x
  <2>3. /\ WorkerOK(x) /\ x.job = workers[id].job /\ x.phase = workers[id].phase
        /\ x.total = workers[id].total /\ x.frames = workers[id].frames /\ x.why = workers[id].why
        /\ x.cancelled = c
    BY <2>1, <2>2, SetCancelled
  <2>4. ~x.cancelled => ~workers[id].cancelled
    BY <2>2, <2>3
  <2> QED BY <2>3, <2>4 DEF x
<1>4. DOMAIN workers' = DOMAIN workers /\ workers' = [id \in DOMAIN workers' |-> workers'[id]]
      /\ \A id \in DOMAIN workers : workers'[id] = w(id)
  BY <1>1
<1> HIDE DEF w
<1>5. ASSUME NEW id \in DOMAIN workers
      PROVE  /\ WorkerOK(workers'[id]) /\ Told(workers'[id], Drained)
             /\ workers'[id].job = workers[id].job
  <2>1. Told(workers[id], Drained)
    BY InSession
  <2>2. workers'[id] = w(id)
    BY <1>4
  <2>3. Told(w(id), Drained)
    BY <1>3, <2>1 DEF Told
  <2> QED BY <1>3, <2>2, <2>3
<1>6. TypeOK'
  BY <1>1, <1>4, <1>5 DEF WindowInv, TypeOK
<1>7. OneAtATime'
  BY <1>1, <1>2, <1>4 DEF WindowInv, OneAtATime, Busy
<1>8. UpToDate'
  BY <1>1, <1>2, <1>4, <1>5 DEF WindowInv, UpToDate, ToldTheEnd
<1>9. Counted'
  BY <1>1 DEF WindowInv, Counted
<1>10. Warned'
  BY <1>1, <1>2, <1>4, <1>5 DEF WindowInv, Warned, Busy
<1>11. Own'
  <2>1. FlagTrue(Drained)'
    BY <1>1, <1>2 DEF WindowInv, Own, FlagTrue, Busy
  <2> QED BY <1>1, <1>4, <1>5, <2>1 DEF WindowInv, Own
<1> QED BY <1>6, <1>7, <1>8, <1>9, <1>10, <1>11 DEF WindowInv

LEMMA NothingToDrainNext ==
  ASSUME chan' = <<>>
  PROVE  Drained' = Shown'
  BY AppliedNone DEF Drained

\* Nothing runs: what is shown is all there is.
LEMMA AtRest ==
  ASSUME WindowInv, ~Busy
  PROVE  chan = <<>> /\ DOMAIN workers = {} /\ Drained = Shown /\ ShownOK(Shown)
<1>1. chan = <<>> /\ DOMAIN workers = {}
  BY DEF WindowInv, OneAtATime
<1> QED BY <1>1, NothingToDrain DEF WindowInv, TypeOK
IsProfile(p) ==
  /\ p = [name |-> p.name, host |-> p.host, mount |-> p.mount, raw |-> p.raw, insecure |-> p.insecure]
  /\ p.host \in Hosts /\ p.insecure \in BOOLEAN

\* Every profile there may be is one.
LEMMA ProfileIs ==
  ASSUME NEW p \in Profiles
  PROVE  IsProfile(p)
<1>1. p \in [name : STRING, host : STRING, mount : STRING, raw : BOOLEAN, insecure : BOOLEAN]
  BY ProfilesAssumption
<1>2. p.host \in Hosts
  BY DEF Hosts
<1> QED BY <1>1, <1>2 DEF IsProfile

LEMMA SetMount ==
  ASSUME NEW p, IsProfile(p), NEW m, NEW x, x = [p EXCEPT !.mount = m]
  PROVE  IsProfile(x)
  BY DEF IsProfile

\* The user's edits with no session.
LEMMA EditFieldsKeep ==
  ASSUME WindowInv, EditFields
  PROVE  WindowInv'
<1>1. ~Busy
  BY DEF EditFields
<1>2. chan = <<>> /\ DOMAIN workers = {} /\ Drained = Shown /\ ShownOK(Shown)
  BY <1>1, AtRest
<1>3. /\ ntrip' = ntrip /\ status' = status /\ figures' = figures /\ sourcetable' = sourcetable
      /\ unknown' = unknown /\ ack' = ack /\ insecure_tls_active' = insecure_tls_active
      /\ meter' = meter /\ sessions' = sessions /\ from' = from /\ last_rx' = last_rx
      /\ chan' = chan /\ ended' = ended /\ workers' = workers /\ Shown' = Shown
  BY DEF EditFields, shown, Shown
<1>4. Drained' = Drained
  BY <1>2, <1>3, NothingToDrainNext
<1>5. IsProfile(profile')
  <2>1. CASE profile' \in Profiles
    BY <2>1, ProfileIs
  <2>2. CASE \E s \in ToSet(sourcetable[1].strs) : profile' = [profile EXCEPT !.mount = s.mount]
    <3>1. PICK s : profile' = [profile EXCEPT !.mount = s.mount]
      BY <2>2
    <3>2. IsProfile(profile)
      BY DEF WindowInv, TypeOK, IsProfile
    <3> DEFINE x == profile'
               m == s.mount
    <3>3. x = [profile EXCEPT !.mount = m]
      BY <3>1
    <3> HIDE DEF x, m
    <3>4. IsProfile(x)
      BY <3>2, <3>3, SetMount
    <3> QED BY <3>4 DEF x
  <2> QED BY <2>1, <2>2 DEF EditFields
<1>6. TypeOK'
  BY <1>3, <1>5 DEF WindowInv, TypeOK, IsProfile
<1>7. OneAtATime'
  BY <1>3, <1>4 DEF WindowInv, OneAtATime, Busy
<1>8. UpToDate'
  BY <1>2, <1>3, <1>4 DEF WindowInv, UpToDate, ToldTheEnd
<1>9. Counted'
  BY <1>3 DEF WindowInv, Counted
<1>10. Warned'
  BY <1>2, <1>3, <1>4 DEF WindowInv, Warned, Busy
<1>11. Own'
  <2>1. FlagTrue(Drained)'
    BY <1>1, <1>3, <1>4 DEF WindowInv, Own, FlagTrue, Busy
  <2> QED BY <1>2, <1>3, <2>1 DEF Own
<1> QED BY <1>6, <1>7, <1>8, <1>9, <1>10, <1>11 DEF WindowInv

\* What a reset leaves.
LEMMA FreshIs ==
  /\ Fresh \in Figures /\ Fresh.total = 0 /\ Fresh.frames = 0
  /\ Still \in [level : Nat, last : Nat] /\ Still.level = 0
  BY DEF Fresh, Figures, Texts, Still

\* Another profile is made the active one.
LEMMA SwitchProfileKeeps ==
  ASSUME WindowInv, SwitchProfile
  PROVE  WindowInv'
<1>1. ~Busy
  BY DEF SwitchProfile
<1>2. chan = <<>> /\ DOMAIN workers = {} /\ Drained = Shown /\ ShownOK(Shown)
  BY <1>1, AtRest
<1>3. /\ ntrip' = ntrip /\ sourcetable' = <<>> /\ status' = Status("Idle") /\ figures' = Fresh
      /\ last_rx' = "none" /\ from' = {} /\ profile' \in Profiles
      /\ unknown' = unknown /\ ack' = ack /\ insecure_tls_active' = insecure_tls_active
      /\ meter' = meter /\ sessions' = sessions /\ since' = since
      /\ chan' = chan /\ ended' = ended /\ workers' = workers
  BY DEF SwitchProfile, Reset
<1>4. Status("Idle") \in Statuses /\ Status("Idle").kind = "Idle"
  BY StatusAs DEF Kinds
<1>5. ShownOK(Shown')
  <2>1. since' \in {"recent", "old"} /\ unknown' \in [raw : Nat, gen : Nat]
        /\ (unknown'.gen > 0 => unknown'.raw # 0) /\ insecure_tls_active' \in BOOLEAN
    BY <1>2, <1>3 DEF ShownOK, Shown
  <2> QED BY <1>3, <1>4, <2>1, FreshIs DEF ShownOK, Shown
<1>6. Drained' = Shown'
  BY <1>2, <1>3, NothingToDrainNext
<1>7. TypeOK'
  <2>1. IsProfile(profile')
    BY <1>3, ProfileIs
  <2> QED BY <1>3, <1>5, <2>1 DEF WindowInv, TypeOK, IsProfile
<1>8. OneAtATime'
  BY <1>1, <1>2, <1>3, <1>6 DEF WindowInv, OneAtATime, Busy, Shown
<1>9. UpToDate'
  BY <1>2, <1>3, <1>4, <1>6 DEF UpToDate, ToldTheEnd, Shown
<1>10. Counted'
  BY <1>3, <1>4 DEF Counted
<1>11. Warned'
  BY <1>2, <1>3, <1>6 DEF WindowInv, Warned, Busy, Shown
<1>12. Own'
  <2>1. FlagTrue(Drained)'
    BY <1>1, <1>3, <1>6 DEF FlagTrue, Shown, Busy
  <2> QED BY <1>2, <1>3, <2>1 DEF Own
<1> QED BY <1>7, <1>8, <1>9, <1>10, <1>11, <1>12 DEF WindowInv

\* A frame: what was to be drained is now shown.
LEMMA FrameKeeps ==
  ASSUME WindowInv, Frame
  PROVE  WindowInv'
<1>1. ShownOK(Shown) /\ ShownOK(Drained)
  <2>1. ShownOK(Shown) /\ Alike(Shown, Shown) /\ chan \in Seq(Events)
    BY DEF Alike, WindowInv, TypeOK
  <2> QED BY <2>1, Lockstep DEF Drained
<1>2. /\ chan' = <<>>
      /\ status' = Drained.status /\ since' = Drained.since /\ last_rx' = Drained.last_rx
      /\ figures' = Drained.figures /\ unknown' = Drained.unknown
      /\ sourcetable' = Drained.sourcetable /\ tab' = Drained.tab /\ flag' = Drained.flag
      /\ ntrip' = Drained.ntrip /\ insecure_tls_active' = Drained.insecure
      /\ meter' = [level |-> Advanced(meter.level, meter.last, Drained.figures.total),
                   last |-> Drained.figures.total]
      /\ ack' = (IF tab' = "Conn" THEN unknown'.gen ELSE ack)
      /\ from' = from \cup {chan[i].ses : i \in DOMAIN chan}
      /\ profile' = profile /\ workers' = workers /\ sessions' = sessions /\ ended' = ended
  BY DEF Frame
<1>3. Shown' = Drained
  BY <1>1, <1>2 DEF ShownOK, Shown
<1>4. Drained' = Drained
  BY <1>2, <1>3, NothingToDrainNext
<1>5. Drained.figures.total \in Nat /\ unknown.gen \in Nat /\ Drained.unknown.gen \in Nat
      /\ meter.last \in Nat /\ ack \in Nat /\ sessions \in Nat
  BY <1>1 DEF WindowInv, TypeOK, ShownOK, Shown, Figures
<1>6. TypeOK'
  <2>1. meter' \in [level : Nat, last : Nat]
    BY <1>2, <1>5 DEF Advanced
  <2>2. ack' \in Nat
    BY <1>2, <1>5
  <2>3. chan' \in Seq(Events)
    BY <1>2
  <2>4. ShownOK(Shown')
    BY <1>1, <1>3
  <2> QED BY <1>2, <2>1, <2>2, <2>3, <2>4 DEF WindowInv, TypeOK
<1>7. ntrip' = (IF DOMAIN workers = {} THEN <<>> ELSE ntrip) /\ (Busy' => Busy)
      /\ (Busy' <=> DOMAIN workers # {})
  <2>1. ntrip' = (IF DOMAIN workers = {} THEN <<>> ELSE ntrip)
    BY <1>2 DEF WindowInv, OneAtATime
  <2> QED BY <2>1 DEF WindowInv, OneAtATime, Busy
<1>8. OneAtATime'
  <2>1. from' \subseteq {sessions'}
    BY <1>2 DEF WindowInv, OneAtATime
  <2>2. Busy' => ntrip'[1].id = sessions'
    BY <1>2, <1>7 DEF WindowInv, OneAtATime, Busy
  <2>3. DOMAIN workers' \subseteq {sessions'} /\ DOMAIN chan' = {}
    BY <1>2 DEF WindowInv, OneAtATime
  <2>4. Drained'.ntrip = (IF DOMAIN workers' = {} THEN <<>> ELSE ntrip')
    BY <1>2, <1>4, <1>7
  <2> QED BY <1>2, <1>7, <2>1, <2>2, <2>3, <2>4 DEF OneAtATime
<1>9. UpToDate'
  BY <1>2, <1>4 DEF WindowInv, UpToDate, ToldTheEnd
<1>10. Counted'
  <2>1. ASSUME from' = {} PROVE figures' = Fresh /\ last_rx' = "none"
    <3>1. from = {} /\ DOMAIN chan = {}
      BY <1>2, <2>1
    <3>2. chan = <<>>
      BY <3>1 DEF WindowInv, TypeOK
    <3>3. Drained = Shown
      BY <3>2, NothingToDrain
    <3> QED BY <1>2, <3>1, <3>3 DEF WindowInv, Counted, Shown
  <2>2. meter'.level > 0 => figures'.total > 0
    BY <1>2, <1>5 DEF Advanced
  <2> QED BY <2>1, <2>2 DEF Counted
<1>11. Warned'
  <2>1. ack' <= unknown'.gen
    <3>1. ack <= unknown.gen /\ unknown.gen <= Drained.unknown.gen
      BY DEF WindowInv, Warned
    <3>2. ack <= Drained.unknown.gen
      BY <1>5, <3>1, NoLess
    <3> QED BY <1>2, <1>5, <3>2
  <2>2. unknown'.gen <= Drained'.unknown.gen
    BY <1>2, <1>4, <1>5
  <2> QED BY <1>2, <1>4, <1>7, <2>1, <2>2 DEF WindowInv, Warned
<1>12. Own'
  <2>1. FlagTrue(Drained)'
    BY <1>2, <1>4, <1>7 DEF WindowInv, Own, FlagTrue
  <2> QED BY <1>2, <2>1 DEF WindowInv, Own
<1> QED BY <1>6, <1>8, <1>9, <1>10, <1>11, <1>12 DEF WindowInv

\* What a job takes from the table.
LEMMA JobIsInformed ==
  ASSUME WindowInv, ~Busy, NEW mount, NEW job, NEW entry, entry = str_record(profile.host, mount),
         job.host = profile.host, job.mount = mount,
         job.requires = (IF entry = <<>> THEN "unknown" ELSE entry[1].nmea),
         job.logged = (IF flag # <<>> /\ Loaded /\ flag[1].host = profile.host /\ flag[1].mount = mount
                       THEN flag[1].says ELSE "")
  PROVE  WellInformed(job)
<1>1. profile.host \in Hosts
  BY DEF WindowInv, TypeOK
<1>2. SUFFICES ASSUME job.requires # "unknown"
               PROVE  /\ \E strs \in Listings[job.host] :
                           Entry(strs, job.mount) # <<>> /\ Entry(strs, job.mount)[1].nmea = job.requires
                      /\ job.logged \in {"", job.requires}
  BY <1>1 DEF WellInformed
<1>3. entry # <<>> /\ job.requires = entry[1].nmea
  BY <1>2
<1>4. /\ OfCaster(sourcetable, profile.host) /\ entry = Entry(sourcetable[1].strs, mount)
  BY <1>3 DEF str_record
<1>5. PICK t \in Tables : sourcetable = <<t>>
  BY <1>4 DEF OfCaster, WindowInv, TypeOK, ShownOK, Shown
<1>6. sourcetable[1] = t /\ t.host = profile.host
  BY <1>4, <1>5 DEF OfCaster
<1>7. t.strs \in Listings[t.host]
  BY DEF Tables
<1>8. \E strs \in Listings[job.host] :
        Entry(strs, job.mount) # <<>> /\ Entry(strs, job.mount)[1].nmea = job.requires
  BY <1>3, <1>4, <1>6, <1>7
<1>9. job.logged \in {"", job.requires}
  <2>1. CASE flag # <<>> /\ Loaded /\ flag[1].host = profile.host /\ flag[1].mount = mount
    <3>1. Drained = Shown /\ FlagTrue(Drained)
      BY AtRest DEF WindowInv, Own
    <3>2. Drained.flag = flag /\ Drained.sourcetable = sourcetable
      BY <3>1 DEF Shown
    <3>3. flag[1].says = WordOf(Entry(sourcetable[1].strs, flag[1].mount))
      BY <1>4, <2>1, <3>1, <3>2 DEF FlagTrue, OfCaster
    <3>4. flag[1].says = entry[1].nmea
      BY <1>3, <1>4, <2>1, <3>3 DEF WordOf
    <3> QED BY <1>3, <2>1, <3>4
  <2>2. CASE ~(flag # <<>> /\ Loaded /\ flag[1].host = profile.host /\ flag[1].mount = mount)
    BY <2>2
  <2> QED BY <2>1, <2>2
<1> QED BY <1>8, <1>9

\* A new session's worker.
NewWorker(job) ==
  [job |-> job, phase |-> "start", cancelled |-> FALSE, attempts |-> 0, total |-> 0, frames |-> 0,
   told |-> "none", why |-> "", again |-> FALSE]

LEMMA NewWorkerIs ==
  ASSUME NEW job, NEW w, w = NewWorker(job)
  PROVE  WorkerOK(w) /\ w.job = job /\ w.phase = "start" /\ w.total = 0 /\ w.frames = 0
  BY DEF NewWorker, WorkerOK, Phases, Texts

\* A new session, from its job.
LEMMA BeginsKeeps ==
  ASSUME WindowInv, ~Busy, NEW job, WellInformed(job), job.name = profile.name,
         job.insecure = profile.insecure, NEW handle, handle.id = sessions',
         sessions' = sessions + 1, ntrip' = <<handle>>,
         DOMAIN workers' = {sessions'}, workers' = [id \in DOMAIN workers' |-> workers'[id]],
         workers'[sessions'] = NewWorker(job),
         insecure_tls_active' = profile.insecure,
         figures' = Reset, last_rx' = "none", meter' = Still, from' = {}, flag' = <<>>,
         UNCHANGED <<profile, sourcetable, chan, status, since, unknown, ack>>
  PROVE  WindowInv'
<1> DEFINE w == workers'[sessions']
<1>1. chan = <<>> /\ DOMAIN workers = {} /\ Drained = Shown /\ ShownOK(Shown)
  BY AtRest
<1>2. /\ profile' = profile /\ sourcetable' = sourcetable /\ chan' = <<>> /\ status' = status
      /\ since' = since /\ unknown' = unknown /\ ack' = ack
  BY <1>1
<1>3. WorkerOK(w) /\ w.job = job /\ w.phase = "start" /\ w.total = 0 /\ w.frames = 0
  <2> HIDE DEF w
  <2>1. w = NewWorker(job)
    BY DEF w
  <2> QED BY <2>1, NewWorkerIs
<1>4. ntrip'[1] = handle /\ ntrip' # <<>>
  BY FirstOf
<1>5. \A id \in DOMAIN workers' : id = sessions' /\ workers'[id] = w
  OBVIOUS
<1> HIDE DEF w
<1>6. ShownOK(Shown') /\ Shown'.ntrip = ntrip' /\ Shown'.figures = Fresh /\ Shown'.flag = <<>>
      /\ Shown'.unknown = unknown' /\ Shown'.insecure = insecure_tls_active'
  <2>1. /\ status' \in Statuses /\ since' \in {"recent", "old"} /\ unknown' \in [raw : Nat, gen : Nat]
        /\ (unknown'.gen > 0 => unknown'.raw # 0)
        /\ sourcetable' = <<>> \/ \E t \in Tables : sourcetable' = <<t>>
    BY <1>1, <1>2 DEF ShownOK, Shown
  <2>2. insecure_tls_active' \in BOOLEAN /\ figures' = Fresh
    BY DEF WindowInv, TypeOK, Reset
  <2> QED BY <2>1, <2>2, FreshIs DEF ShownOK, Shown
<1>7. Drained' = Shown'
  BY <1>2, NothingToDrainNext
<1>8. TypeOK'
  <2>1. sessions \in Nat /\ ack \in Nat /\ IsProfile(profile)
    BY DEF WindowInv, TypeOK, IsProfile
  <2>2. sessions' \in Nat /\ ack' \in Nat /\ IsProfile(profile')
    BY <1>2, <2>1
  <2>3. chan' \in Seq(Events)
    <3>1. <<>> \in Seq(Events)
      OBVIOUS
    <3> QED BY <1>2, <3>1
  <2>4. \A id \in DOMAIN workers' : WorkerOK(workers'[id])
    BY <1>3, <1>5
  <2>5. meter' \in [level : Nat, last : Nat]
    BY FreshIs
  <2> QED BY <1>6, <2>2, <2>3, <2>4, <2>5 DEF TypeOK, IsProfile
<1>9. OneAtATime'
  <2>1. Drained'.ntrip = (IF DOMAIN workers' = {} THEN <<>> ELSE ntrip')
    BY <1>6, <1>7
  <2>2. DOMAIN chan' = {}
    BY <1>2
  <2>3. Busy' /\ ntrip'[1].id = sessions'
    BY <1>4 DEF Busy
  <2>4. DOMAIN workers' \subseteq {sessions'} /\ from' \subseteq {sessions'}
    OBVIOUS
  <2> QED BY <2>1, <2>2, <2>3, <2>4 DEF OneAtATime
<1>10. UpToDate'
  <2>1. Told(w, Drained')
    BY <1>3, <1>6, <1>7, FreshIs DEF Told
  <2>2. \A id \in DOMAIN workers' : Told(workers'[id], Drained')
    BY <1>5, <2>1
  <2>3. DOMAIN workers' # {}
    OBVIOUS
  <2> QED BY <2>2, <2>3 DEF UpToDate
<1>11. Counted'
  <2>1. meter'.level = 0 /\ figures' = Fresh
    BY FreshIs DEF Reset
  <2> QED BY <2>1 DEF Counted
<1>12. Warned'
  <2>1. unknown'.gen <= Drained'.unknown.gen
    <3>1. unknown.gen \in Nat
      BY <1>1 DEF ShownOK, Shown
    <3>2. Drained'.unknown.gen = unknown.gen /\ unknown'.gen = unknown.gen
      BY <1>2, <1>6, <1>7
    <3>3. unknown.gen <= unknown.gen
      BY <3>1
    <3> QED BY <3>2, <3>3
  <2>2. ack' <= unknown'.gen
    BY <1>2 DEF WindowInv, Warned
  <2>3. \A id \in DOMAIN workers' : workers'[id].job.insecure => insecure_tls_active' /\ Drained'.insecure
    <3>1. Drained'.insecure = insecure_tls_active' /\ insecure_tls_active' = profile.insecure
      BY <1>6, <1>7
    <3>2. w.job.insecure = profile.insecure
      BY <1>3
    <3> QED BY <1>5, <3>1, <3>2
  <2>4. Busy' /\ DOMAIN workers' # {}
    BY <1>4 DEF Busy
  <2> QED BY <2>1, <2>2, <2>3, <2>4 DEF Warned
<1>13. Own'
  <2>1. FlagTrue(Drained)'
    BY <1>6, <1>7 DEF FlagTrue
  <2>2. w.job.name = profile'.name /\ WellInformed(w.job)
    BY <1>2, <1>3
  <2>3. \A id \in DOMAIN workers' : WellInformed(workers'[id].job) /\ workers'[id].job.name = profile'.name
    BY <1>5, <2>2
  <2> QED BY <2>1, <2>3 DEF Own
<1> QED BY <1>8, <1>9, <1>10, <1>11, <1>12, <1>13 DEF WindowInv

\* Connect and Browse mounts.
LEMMA SpawnKeeps ==
  ASSUME WindowInv, NEW table_only, Spawn(table_only)
  PROVE  WindowInv'
<1> DEFINE mount == IF table_only THEN "" ELSE profile.mount
           raw == profile.raw /\ ~table_only
           table == ~raw /\ mount = ""
           entry == str_record(profile.host, mount)
           job == [host |-> profile.host, mount |-> mount, table |-> table, raw |-> raw,
                   insecure |-> profile.insecure, reconnect |-> ~table /\ policy.auto,
                   requires |-> IF entry = <<>> THEN "unknown" ELSE entry[1].nmea,
                   logged |-> IF flag # <<>> /\ Loaded /\ flag[1].host = profile.host /\ flag[1].mount = mount
                              THEN flag[1].says ELSE "",
                   name |-> profile.name]
           handle == [id |-> sessions', table |-> table]
<1>1. /\ ~Busy /\ sessions' = sessions + 1 /\ ntrip' = <<handle>>
      /\ workers' = [id \in DOMAIN workers \cup {sessions'} |->
                      IF id \in DOMAIN workers THEN workers[id] ELSE NewWorker(job)]
      /\ insecure_tls_active' = profile.insecure
      /\ figures' = Reset /\ last_rx' = "none" /\ meter' = Still /\ from' = {} /\ flag' = <<>>
      /\ UNCHANGED <<profile, sourcetable, chan, status, since, unknown, ack>>
  BY DEF Spawn, NewWorker
<1>2. /\ job.host = profile.host /\ job.mount = mount /\ job.name = profile.name
      /\ job.insecure = profile.insecure
      /\ job.requires = (IF entry = <<>> THEN "unknown" ELSE entry[1].nmea)
      /\ job.logged = (IF flag # <<>> /\ Loaded /\ flag[1].host = profile.host /\ flag[1].mount = mount
                       THEN flag[1].says ELSE "")
      /\ entry = str_record(profile.host, mount) /\ handle.id = sessions'
  OBVIOUS
<1> HIDE DEF mount, raw, table, entry, job, handle
<1>3. WellInformed(job)
  BY <1>1, <1>2, JobIsInformed
<1>4. /\ DOMAIN workers' = {sessions'} /\ workers'[sessions'] = NewWorker(job)
      /\ workers' = [id \in DOMAIN workers' |-> workers'[id]]
  <2>1. DOMAIN workers = {}
    BY <1>1, AtRest
  <2>2. workers' = [id \in {sessions'} |-> NewWorker(job)]
    BY <1>1, <2>1
  <2> QED BY <2>2
<1> QED BY <1>1, <1>2, <1>3, <1>4, BeginsKeeps

LEMMA BrowseMountsKeeps ==
  ASSUME WindowInv, BrowseMounts
  PROVE  WindowInv'
<1>1. CASE Spawn(TRUE)
  BY <1>1, SpawnKeeps
<1>2. CASE UNCHANGED <<profile, sourcetable, ntrip, workers, chan, shown, ack,
                       insecure_tls_active, meter, flag, sessions, from, ended, policy>>
  <2>1. since \in {"recent", "old"} /\ last_rx \in {"none", "recent", "old"}
    BY DEF WindowInv, TypeOK, ShownOK, Shown
  <2>2. UNCHANGED <<profile, sourcetable, ntrip, workers, chan, status, figures, unknown, ack,
                    insecure_tls_active, meter, flag, sessions, from, ended>>
        /\ since' = since /\ last_rx' = last_rx
    BY <1>2 DEF shown
  <2> QED BY <2>1, <2>2, AlikeKeeps
<1> QED BY <1>1, <1>2 DEF BrowseMounts

\* The initial state.
LEMMA InitWindow ==
  ASSUME Init
  PROVE  WindowInv
<1>1. /\ profile \in Profiles /\ sourcetable = <<>> /\ ntrip = <<>> /\ workers = <<>> /\ chan = <<>>
      /\ status = Status("Idle") /\ since = "recent" /\ last_rx = "none" /\ figures = Fresh
      /\ unknown = [raw |-> 0, gen |-> 0] /\ ack = 0 /\ insecure_tls_active = FALSE /\ meter = Still
      /\ flag = <<>> /\ sessions = 0 /\ from = {} /\ ended = <<>>
  BY DEF Init
<1>2. DOMAIN workers = {} /\ workers = [id \in DOMAIN workers |-> workers[id]]
  BY <1>1
<1>3. Status("Idle") \in Statuses /\ Status("Idle").kind = "Idle"
  BY StatusAs DEF Kinds
<1>4. ShownOK(Shown)
  <2>1. unknown \in [raw : Nat, gen : Nat] /\ ~(unknown.gen > 0)
    BY <1>1
  <2>2. status \in Statuses /\ figures \in Figures /\ insecure_tls_active \in BOOLEAN
    BY <1>1, <1>3, FreshIs
  <2>3. since \in {"recent", "old"} /\ last_rx \in {"none", "recent", "old"} /\ sourcetable = <<>>
    BY <1>1
  <2> QED BY <2>1, <2>2, <2>3 DEF ShownOK, Shown
<1>5. Drained = Shown
  BY <1>1, NothingToDrain
<1>6. TypeOK
  <2>1. IsProfile(profile)
    BY <1>1, ProfileIs
  <2>2. chan \in Seq(Events)
    BY <1>1
  <2> QED BY <1>1, <1>2, <1>4, <2>1, <2>2, FreshIs DEF TypeOK, IsProfile
<1>7. OneAtATime
  BY <1>1, <1>2, <1>5 DEF OneAtATime, Busy, Shown
<1>8. UpToDate
  BY <1>1, <1>2, <1>3, <1>5 DEF UpToDate, ToldTheEnd, Shown
<1>9. Counted
  BY <1>1, FreshIs DEF Counted
<1>10. Warned
  <2>1. unknown.gen = 0
    BY <1>1
  <2> QED BY <1>1, <1>2, <1>5, <2>1 DEF Warned, Shown, Busy
<1>11. Own
  BY <1>1, <1>2, <1>5 DEF Own, FlagTrue, Shown
<1> QED BY <1>6, <1>7, <1>8, <1>9, <1>10, <1>11 DEF WindowInv

\* A stuttering step.
LEMMA StutterKeeps ==
  ASSUME WindowInv, UNCHANGED vars
  PROVE  WindowInv'
<1>1. UNCHANGED <<profile, sourcetable, ntrip, workers, chan, status, figures, unknown, ack,
                  insecure_tls_active, meter, flag, sessions, from, ended>>
      /\ since' = since /\ last_rx' = last_rx
  BY DEF vars, shown
<1>2. since \in {"recent", "old"} /\ last_rx \in {"none", "recent", "old"}
  BY DEF WindowInv, TypeOK, ShownOK, Shown
<1> QED BY <1>1, <1>2, AlikeKeeps

\* Any step of a worker.
LEMMA WorkerKeeps ==
  ASSUME WindowInv, NEW id \in 1 .. MaxSessions, Worker(id)
  PROVE  WindowInv'
<1>1. id \in DOMAIN workers
  BY DEF Worker, Attempt, Establish, Corrections, Position, TableDone, Close, CannotConnect, Decide,
         GiveUp, Finish, Live
<1>2. id # 0
  OBVIOUS
<1> QED BY <1>1, <1>2, AttemptKeeps, EstablishKeeps, CorrectionsKeep, PositionKeeps, TableDoneKeeps,
           CloseKeeps, CannotConnectKeeps, DecideKeeps, GiveUpKeeps, FinishKeeps DEF Worker

\* In every reachable state the window and its worker agree as WindowInv says.
THEOREM WindowHolds == Spec => []WindowInv
<1>1. Init => WindowInv
  BY InitWindow
<1>2. ASSUME WindowInv, [Next]_vars PROVE WindowInv'
  <2>1. CASE Connect
    BY <1>2, <2>1, SpawnKeeps DEF Connect
  <2>2. CASE BrowseMounts
    BY <1>2, <2>2, BrowseMountsKeeps
  <2>3. CASE Disconnect
    BY <1>2, <2>3, DisconnectKeeps
  <2>4. CASE EditFields
    BY <1>2, <2>4, EditFieldsKeep
  <2>5. CASE SwitchProfile
    BY <1>2, <2>5, SwitchProfileKeeps
  <2>6. CASE OpenTab
    BY <1>2, <2>6, OpenTabKeeps
  <2>7. CASE Frame
    BY <1>2, <2>7, FrameKeeps
  <2>8. CASE Wait
    BY <1>2, <2>8, WaitKeeps
  <2>9. CASE \E id \in 1 .. MaxSessions : Worker(id)
    BY <1>2, <2>9, WorkerKeeps
  <2>10. CASE UNCHANGED vars
    BY <1>2, <2>10, StutterKeeps
  <2> QED BY <1>2, <2>1, <2>2, <2>3, <2>4, <2>5, <2>6, <2>7, <2>8, <2>9, <2>10 DEF Next
<1>3. WindowInv /\ [Next]_vars => WindowInv'
  BY <1>2
<1> QED BY <1>1, <1>3, PTL DEF Spec
-------------------------------------------------------------------------------
(* What follows for a reader of the window *)

\* Only a session's own status has a bar to fill.
LEMMA BarFollows ==
  ASSUME WindowInv
  PROVE  bar_fill_level > 0 => meter.level > 0 /\ status.kind \in {"Connecting", "WaitingForData", "Streaming"}
<1>1. status.kind \in Kinds
  BY DEF WindowInv, TypeOK, ShownOK, Shown, Statuses
<1>2. SUFFICES ASSUME status.kind \notin {"Connecting", "WaitingForData", "Streaming"}
               PROVE  bar_fill_level = 0
  <2>1. bar_fill_level = 0 \/ bar_fill_level = meter.level
    BY DEF bar_fill_level
  <2> QED BY <2>1
<1>3. status.kind \in {"Idle", "ReconnectWait", "Stopped"}
  BY <1>1, <1>2 DEF Kinds
<1>4. rx_age = "none"
  BY <1>3 DEF rx_age
<1>5. ~stalled
  BY <1>4 DEF stalled
<1>6. classify_stream = "Idle"
  BY <1>3, <1>5 DEF classify_stream
<1> QED BY <1>6 DEF bar_fill_level

\* Nothing one session left behind reaches the next one, or another profile.
THEOREM FiguresHold == Spec => []FiguresAreTheSessions
<1>1. ASSUME WindowInv PROVE FiguresAreTheSessions
  <2>1. \A i \in DOMAIN chan : Busy /\ ntrip[1].id = chan[i].ses
    BY <1>1 DEF WindowInv, OneAtATime
  <2>2. from \subseteq {sessions}
    BY <1>1 DEF WindowInv, OneAtATime
  <2>3. Busy => \A id \in DOMAIN workers : id = ntrip[1].id /\ workers[id].job.name = profile.name
    BY <1>1 DEF WindowInv, OneAtATime, Own
  <2>4. chan = <<>> => \A id \in DOMAIN workers :
          figures.total = workers[id].total /\ figures.frames = workers[id].frames
    <3> SUFFICES ASSUME chan = <<>>, NEW id \in DOMAIN workers
                 PROVE  figures.total = workers[id].total /\ figures.frames = workers[id].frames
      OBVIOUS
    <3>1. Told(workers[id], Drained)
      BY <1>1, InSession
    <3>2. Drained.figures = figures
      BY NothingToDrain DEF Shown
    <3> QED BY <3>1, <3>2 DEF Told
  <2>5. from = {} => figures = Fresh /\ last_rx = "none"
    BY <1>1 DEF WindowInv, Counted
  <2>6. bar_fill_level > 0 => figures.total > 0
    BY <1>1, BarFollows DEF WindowInv, Counted
  <2> QED BY <2>1, <2>2, <2>3, <2>4, <2>5, <2>6 DEF FiguresAreTheSessions
<1> QED BY <1>1, WindowHolds, PTL

\* The evidence of a warning stays as long as the warning.
THEOREM WarningsHold == Spec => []WarningsStand
<1>1. ASSUME WindowInv PROVE WarningsStand
  <2>1. unknown.gen \in Nat /\ unknown.raw \in Nat /\ ack \in Nat /\ (unknown.gen > 0 => unknown.raw # 0)
    BY <1>1 DEF WindowInv, TypeOK, ShownOK, Shown
  <2>2. ack <= unknown.gen
    BY <1>1 DEF WindowInv, Warned
  <2>3. attention => unknown.raw # 0
    BY <2>1 DEF attention
  <2> QED BY <1>1, <2>1, <2>2, <2>3 DEF WindowInv, Warned, WarningsStand
<1> QED BY <1>1, WindowHolds, PTL

\* What a job takes from the table is its caster's word on its mountpoint.
THEOREM JobsInformed == Spec => []JobKnowsItsCaster
<1>1. ASSUME WindowInv PROVE JobKnowsItsCaster
  BY <1>1 DEF WindowInv, Own, WellInformed, JobKnowsItsCaster
<1> QED BY <1>1, WindowHolds, PTL

\* A settled session: the phase its worker is in, and what was told of it.
LEMMA SettledIs ==
  ASSUME WindowInv, Settled
  PROVE  /\ Drained = Shown
         /\ \/ DOMAIN workers = {} /\ Phase = "none" /\ ~Busy
            \/ \E id \in DOMAIN workers :
                 /\ DOMAIN workers = {id} /\ Busy /\ Phase = workers[id].phase
                 /\ Phase \in {"connecting", "waiting", "streaming", "retry"}
                 /\ Told(workers[id], Shown)
<1>1. Drained = Shown
  BY NothingToDrain DEF Settled
<1>2. CASE DOMAIN workers = {}
  <2>1. ntrip = <<>>
    BY <1>1, <1>2 DEF WindowInv, OneAtATime, Shown
  <2> QED BY <1>1, <1>2, <2>1 DEF Phase, Busy
<1>3. ASSUME NEW id \in DOMAIN workers
      PROVE  /\ DOMAIN workers = {id} /\ Busy /\ Phase = workers[id].phase
             /\ Phase \in {"connecting", "waiting", "streaming", "retry"}
             /\ Told(workers[id], Shown)
  <2>1. DOMAIN workers = {id} /\ Busy /\ Told(workers[id], Drained) /\ WorkerOK(workers[id])
    BY InSession
  <2>2. Phase = workers[id].phase
    BY <2>1 DEF Phase
  <2>3. workers[id].phase \in Phases \ {"start", "ended", "done"}
    BY <2>1 DEF WorkerOK, Settled
  <2> QED BY <1>1, <2>1, <2>2, <2>3 DEF Phases
<1> QED BY <1>1, <1>2, <1>3

\* The words of the band, by the status.
LEMMA WordIs ==
  ASSUME status.kind \in Kinds
  PROVE  /\ state_word[1] = "STREAMING" => status.kind = "Streaming" /\ ~stalled /\ ~not_rtcm
         /\ state_word[1] = "RECONNECTING" <=> status.kind = "ReconnectWait"
         /\ state_word[1] = "FAILED" => status.kind = "Stopped" /\ status.failed
         /\ state_word[1] = "DISCONNECTED" => status.kind = "Stopped" /\ ~status.failed
<1>1. CASE table_streams
  <2>1. state_word = <<"SOURCETABLE", "Good">> /\ status.kind = "Stopped"
    BY <1>1 DEF state_word, table_streams
  <2> QED BY <2>1
<1>2. CASE ~table_streams /\ status.kind \in {"WaitingForData", "Streaming"} /\ stalled
  <2>1. state_word = <<"NO DATA", "Warn">>
    BY <1>2 DEF state_word
  <2> QED BY <1>2, <2>1
<1>3. CASE ~table_streams /\ ~(status.kind \in {"WaitingForData", "Streaming"} /\ stalled)
  <2>1. CASE status.kind = "Idle"
    <3>1. state_word = <<"NOT CONNECTED", "Idle">>
      BY <1>3, <2>1 DEF state_word
    <3> QED BY <2>1, <3>1
  <2>2. CASE status.kind = "Connecting"
    <3>1. state_word = <<"CONNECTING", "Busy">>
      BY <1>3, <2>2 DEF state_word
    <3> QED BY <2>2, <3>1
  <2>3. CASE status.kind = "WaitingForData"
    <3>1. state_word = <<"WAITING FOR DATA", "Busy">>
      BY <1>3, <2>3 DEF state_word
    <3> QED BY <2>3, <3>1
  <2>4. CASE status.kind = "Streaming"
    <3>1. state_word = IF not_rtcm THEN <<"NOT RTCM3", "Warn">> ELSE <<"STREAMING", "Good">>
      BY <1>3, <2>4 DEF state_word
    <3> QED BY <1>3, <2>4, <3>1
  <2>5. CASE status.kind = "ReconnectWait"
    <3>1. state_word = <<"RECONNECTING", "Warn">>
      BY <1>3, <2>5 DEF state_word
    <3> QED BY <2>5, <3>1
  <2>6. CASE status.kind = "Stopped"
    <3>1. state_word = IF status.failed THEN <<"FAILED", "Bad">> ELSE <<"DISCONNECTED", "Idle">>
      BY <1>3, <2>6 DEF state_word
    <3> QED BY <2>6, <3>1
  <2> QED BY <2>1, <2>2, <2>3, <2>4, <2>5, <2>6 DEF Kinds
<1> QED BY <1>1, <1>2, <1>3

\* With everything drained the band tells what the session does.
THEOREM VerdictHolds == Spec => []VerdictIsTrue
<1>1. ASSUME WindowInv, Settled
      PROVE  /\ Busy <=> DOMAIN workers # {}
             /\ (Phase = "none") <=> (status.kind \in {"Idle", "Stopped"})
             /\ (Phase = "retry") <=> (state_word[1] = "RECONNECTING")
             /\ state_word[1] = "STREAMING" =>
                  Phase = "streaming" /\ "recent" \in {since, last_rx} /\ hint = "" /\ ~not_rtcm
             /\ state_word[1] = "FAILED" => ended[1].failed /\ ended[1].why \in next_step
             /\ state_word[1] = "DISCONNECTED" => ~ended[1].failed
             /\ state_word[1] = "RECONNECTING" =>
                  \E id \in DOMAIN workers : workers[id].why \in next_step \/ hint # ""
             /\ bar_fill_level > 0 => Phase \in {"connecting", "waiting", "streaming"}
             /\ summary_line => Phase # "none"
  <2>1. status.kind \in Kinds /\ status.failed \in BOOLEAN
        /\ since \in {"recent", "old"} /\ last_rx \in {"none", "recent", "old"}
    BY <1>1 DEF WindowInv, TypeOK, ShownOK, Shown, Statuses
  <2>2. bar_fill_level > 0 => status.kind \in {"Connecting", "WaitingForData", "Streaming"}
    BY <1>1, BarFollows
  <2>3. Shown.status = status /\ Shown.figures = figures
    BY DEF Shown
  <2>4. CASE DOMAIN workers = {} /\ Phase = "none" /\ ~Busy
    <3>1. ToldTheEnd(Shown)
      BY <1>1, <2>4, SettledIs DEF WindowInv, UpToDate
    <3>2. /\ status.kind \in {"Idle", "Stopped"}
          /\ status.kind = "Stopped" =>
               /\ status.why = ended[1].why /\ status.failed = ended[1].failed
               /\ status.failed => status.why # ""
      BY <2>3, <3>1 DEF ToldTheEnd
    <3>3. state_word[1] # "STREAMING" /\ state_word[1] # "RECONNECTING"
      BY <2>1, <3>2, WordIs
    <3>4. state_word[1] = "FAILED" => ended[1].failed /\ ended[1].why \in next_step
      BY <2>1, <3>2, WordIs DEF next_step
    <3>5. state_word[1] = "DISCONNECTED" => ~ended[1].failed
      BY <2>1, <3>2, WordIs
    <3> QED BY <2>2, <2>4, <3>2, <3>3, <3>4, <3>5 DEF summary_line
  <2>5. ASSUME NEW id \in DOMAIN workers, DOMAIN workers = {id}, Busy, Phase = workers[id].phase,
               Phase \in {"connecting", "waiting", "streaming", "retry"}, Told(workers[id], Shown)
        PROVE  /\ Busy <=> DOMAIN workers # {}
               /\ (Phase = "none") <=> (status.kind \in {"Idle", "Stopped"})
               /\ (Phase = "retry") <=> (state_word[1] = "RECONNECTING")
               /\ state_word[1] = "STREAMING" =>
                    Phase = "streaming" /\ "recent" \in {since, last_rx} /\ hint = "" /\ ~not_rtcm
               /\ state_word[1] = "FAILED" => ended[1].failed /\ ended[1].why \in next_step
               /\ state_word[1] = "DISCONNECTED" => ~ended[1].failed
               /\ state_word[1] = "RECONNECTING" =>
                    \E i \in DOMAIN workers : workers[i].why \in next_step \/ hint # ""
               /\ bar_fill_level > 0 => Phase \in {"connecting", "waiting", "streaming"}
               /\ summary_line => Phase # "none"
    <3>1. /\ Phase = "connecting" <=> status.kind = "Connecting"
          /\ Phase = "waiting" <=> status.kind = "WaitingForData"
          /\ Phase = "streaming" <=> status.kind = "Streaming"
          /\ Phase = "retry" <=> status.kind = "ReconnectWait"
      BY <2>3, <2>5 DEF Told
    <3>2. status.kind \in {"Connecting", "WaitingForData", "Streaming", "ReconnectWait"}
      BY <2>5, <3>1
    <3>3. state_word[1] # "FAILED" /\ state_word[1] # "DISCONNECTED"
      BY <2>1, <3>2, WordIs
    <3>4. (Phase = "retry") <=> (state_word[1] = "RECONNECTING")
      BY <2>1, <3>1, WordIs
    <3>5. state_word[1] = "STREAMING" =>
            Phase = "streaming" /\ "recent" \in {since, last_rx} /\ hint = "" /\ ~not_rtcm
      <4> SUFFICES ASSUME state_word[1] = "STREAMING"
                   PROVE  Phase = "streaming" /\ "recent" \in {since, last_rx} /\ hint = "" /\ ~not_rtcm
        OBVIOUS
      <4>1. status.kind = "Streaming" /\ ~stalled /\ ~not_rtcm
        BY <2>1, WordIs
      <4>2. "recent" \in {since, last_rx}
        BY <2>1, <4>1 DEF stalled, rx_age
      <4>3. figures.trouble = ""
        BY <2>3, <2>5, <3>1, <4>1 DEF Told
      <4> QED BY <3>1, <4>1, <4>2, <4>3 DEF hint
    <3>6. state_word[1] = "RECONNECTING" =>
            \E i \in DOMAIN workers : workers[i].why \in next_step \/ hint # ""
      <4> SUFFICES ASSUME state_word[1] = "RECONNECTING", hint = ""
                   PROVE  workers[id].why \in next_step
        OBVIOUS
      <4>1. status.kind = "ReconnectWait"
        BY <2>1, WordIs
      <4>2. figures.last_close = workers[id].why /\ workers[id].why # ""
        BY <2>3, <2>5, <3>1, <4>1 DEF Told
      <4> QED BY <4>1, <4>2 DEF next_step
    <3>7. bar_fill_level > 0 => Phase \in {"connecting", "waiting", "streaming"}
      BY <2>2, <3>1
    <3> QED BY <2>5, <3>2, <3>3, <3>4, <3>5, <3>6, <3>7
  <2> QED BY <1>1, <2>4, <2>5, SettledIs
<1>2. ASSUME WindowInv PROVE VerdictIsTrue
  BY <1>1, <1>2 DEF VerdictIsTrue
<1> QED BY <1>2, WindowHolds, PTL

-------------------------------------------------------------------------------
(* The readouts: the rate meter *)

\* t holds the sums of the first n numbers of s, and fewer.
Sums(t, s, n) == /\ t = [k \in 0 .. n |-> t[k]]
                 /\ t[0] = 0
                 /\ \A k \in 1 .. n : t[k] = t[k - 1] + s[k]

\* The sums go one number further.
LEMMA SumsOn ==
  ASSUME NEW s, NEW n \in Nat, NEW t, Sums(t, s, n)
  PROVE  \E u : Sums(u, s, n + 1)
<1> DEFINE u == [k \in 0 .. n + 1 |-> IF k = n + 1 THEN t[n] + s[n + 1] ELSE t[k]]
<1>1. \A k \in 0 .. n : u[k] = t[k]
  OBVIOUS
<1>2. u[n + 1] = t[n] + s[n + 1]
  OBVIOUS
<1>3. u = [k \in 0 .. n + 1 |-> u[k]]
  OBVIOUS
<1> HIDE DEF u
<1>4. ASSUME NEW k \in 1 .. n + 1 PROVE u[k] = u[k - 1] + s[k]
  <2>1. CASE k \in 1 .. n
    <3>1. u[k] = t[k] /\ u[k - 1] = t[k - 1]
      BY <1>1, <2>1
    <3> QED BY <2>1, <3>1 DEF Sums
  <2>2. CASE k = n + 1
    <3>1. u[k - 1] = t[n]
      BY <1>1, <2>2
    <3> QED BY <1>2, <2>2, <3>1
  <2> QED BY <2>1, <2>2
<1>5. u[0] = 0
  BY <1>1 DEF Sums
<1> QED BY <1>3, <1>4, <1>5 DEF Sums

\* There are sums of any number of numbers, ...
LEMMA SumsExist ==
  ASSUME NEW s, NEW n \in Nat
  PROVE  \E t : Sums(t, s, n)
<1> DEFINE T == {m \in Nat : ~\E t : Sums(t, s, m)}
<1>1. 0 \notin T
  <2> DEFINE t == [k \in 0 .. 0 |-> 0]
  <2>1. t = [k \in 0 .. 0 |-> t[k]] /\ t[0] = 0
    OBVIOUS
  <2> HIDE DEF t
  <2>2. Sums(t, s, 0)
    BY <2>1 DEF Sums
  <2> QED BY <2>2
<1>2. T = {}
  <2> SUFFICES ASSUME T # {} PROVE FALSE
    OBVIOUS
  <2>1. PICK m \in T : \A k \in T : m <= k
    BY LeastNumber
  <2>2. m \in Nat /\ m # 0
    BY <1>1
  <2>3. m - 1 \in Nat /\ m - 1 \notin T /\ (m - 1) + 1 = m
    BY <2>1, <2>2
  <2>4. \E t : Sums(t, s, m - 1)
    BY <2>3
  <2>5. \E t : Sums(t, s, m)
    BY <2>3, <2>4, SumsOn
  <2> QED BY <2>1, <2>5
<1> QED BY <1>2

\* ... one of them is Total's, ...
LEMMA TotalIs ==
  ASSUME NEW s, Len(s) \in Nat
  PROVE  \E t : Sums(t, s, Len(s)) /\ Total(s) = t[Len(s)]
<1> DEFINE N == Len(s)
           F(g) == [k \in 0 .. N |-> IF k = 0 THEN 0 ELSE g[k - 1] + s[k]]
           f == CHOOSE g : g = F(g)
<1>1. Total(s) = f[N]
  BY DEF Total
<1>2. PICK g : Sums(g, s, N)
  BY SumsExist
<1> HIDE DEF N
<1>0. N \in Nat
  BY DEF N
<1>3. g = F(g)
  <2>1. g = [k \in 0 .. N |-> g[k]] /\ g[0] = 0 /\ \A k \in 1 .. N : g[k] = g[k - 1] + s[k]
    BY <1>2 DEF Sums
  <2>2. ASSUME NEW k \in 0 .. N
        PROVE  g[k] = IF k = 0 THEN 0 ELSE g[k - 1] + s[k]
    <3>1. CASE k = 0
      BY <2>1, <3>1
    <3>2. CASE k # 0
      <4>1. k \in 1 .. N
        BY <1>0, <3>2
      <4> QED BY <2>1, <3>2, <4>1
    <3> QED BY <3>1, <3>2
  <2> QED BY <2>1, <2>2
<1>4. f = F(f)
  <2> HIDE DEF F
  <2>1. \E h : h = F(h)
    BY <1>3
  <2> QED BY <2>1
<1> HIDE DEF f
<1>5. Sums(f, s, N)
  <2>1. \A k \in 0 .. N : f[k] = IF k = 0 THEN 0 ELSE f[k - 1] + s[k]
    BY <1>4
  <2>2. f = [k \in 0 .. N |-> f[k]]
    BY <1>4
  <2>3. f[0] = 0
    BY <1>0, <2>1
  <2>4. \A k \in 1 .. N : f[k] = f[k - 1] + s[k]
    BY <1>0, <2>1
  <2> QED BY <2>2, <2>3, <2>4 DEF Sums
<1> QED BY <1>1, <1>5 DEF N

\* The first n of s and r are the same.
Agree(s, r, n) == \A k \in 1 .. n : s[k] = r[k]

\* ... and any two agree as far as their numbers do.
LEMMA SumsAgree ==
  ASSUME NEW s, NEW r, NEW t, NEW u, NEW n \in Nat, NEW i \in Nat, n <= i,
         Sums(t, s, n), Sums(u, r, i), Agree(s, r, n)
  PROVE  t[n] = u[n]
<1> DEFINE T == {m \in Nat : m <= n /\ t[m] # u[m]}
<1>1. T = {}
  <2> SUFFICES ASSUME T # {} PROVE FALSE
    OBVIOUS
  <2>1. PICK m \in T : \A k \in T : m <= k
    BY LeastNumber
  <2>2. m \in Nat /\ m <= n /\ t[m] # u[m]
    OBVIOUS
  <2>3. m # 0
    BY <2>2 DEF Sums
  <2>4. m - 1 \in Nat /\ m - 1 <= n /\ m - 1 \notin T
    BY <2>1, <2>2, <2>3
  <2>5. t[m - 1] = u[m - 1]
    BY <2>4
  <2>6. m \in 1 .. n /\ m \in 1 .. i
    BY <2>2, <2>3
  <2>7. t[m] = t[m - 1] + s[m] /\ u[m] = u[m - 1] + r[m] /\ s[m] = r[m]
    BY <2>6 DEF Sums, Agree
  <2> QED BY <2>2, <2>5, <2>7
<1>2. n \notin T
  BY <1>1
<1> QED BY <1>2

\* A number more adds itself to the total.
LEMMA TotalAppended ==
  ASSUME NEW s, Len(s) \in Nat, NEW r, Len(r) = Len(s) + 1,
         \A k \in 1 .. Len(s) : s[k] = r[k]
  PROVE  Total(r) = Total(s) + r[Len(r)]
<1>1. PICK t : Sums(t, s, Len(s)) /\ Total(s) = t[Len(s)]
  BY TotalIs
<1>2. Len(r) \in Nat /\ Len(s) <= Len(r)
  OBVIOUS
<1>3. PICK u : Sums(u, r, Len(r)) /\ Total(r) = u[Len(r)]
  BY <1>2, TotalIs
<1>4. t[Len(s)] = u[Len(s)]
  <2> DEFINE n == Len(s)
             i == Len(r)
  <2>1. /\ n \in Nat /\ i \in Nat /\ n <= i /\ Agree(s, r, n)
        /\ Sums(t, s, n) /\ Sums(u, r, i)
    BY <1>1, <1>2, <1>3 DEF Agree
  <2> HIDE DEF n, i
  <2>2. t[n] = u[n]
    BY <2>1, SumsAgree
  <2> QED BY <2>2 DEF n
<1>5. Len(r) \in 1 .. Len(r) /\ Len(r) - 1 = Len(s)
  OBVIOUS
<1>6. u[Len(r)] = u[Len(r) - 1] + r[Len(r)]
  BY <1>3, <1>5 DEF Sums
<1> QED BY <1>1, <1>3, <1>4, <1>5, <1>6

LEMMA TotalOfNone ==
  ASSUME NEW s, Len(s) = 0
  PROVE  Total(s) = 0
<1>1. PICK t : Sums(t, s, Len(s)) /\ Total(s) = t[Len(s)]
  BY TotalIs
<1> QED BY <1>1 DEF Sums

\* What the meter holds: windows that begin with the first frame and leave no
\* time out.
Folds == Seq([count : Nat, elapsed : Nat \ {0}])
MeterInv ==
  /\ now \in Nat /\ window_count \in Nat /\ frames_in \in Nat /\ rate_folds \in Folds
  /\ Total(Counts) \in Nat /\ Total(Counts) + window_count = frames_in
  /\ first_at = <<>> => /\ window_start = <<>> /\ rate_folds = <<>>
                        /\ window_count = 0 /\ frames_in = 0
  /\ first_at # <<>> => \E a, b \in 0 .. now :
       a <= b /\ first_at = <<a>> /\ window_start = <<b>> /\ Total(Times) = b - a

\* A fold is one more number in both totals.
LEMMA FoldAdds ==
  ASSUME rate_folds \in Folds, NEW c \in Nat, NEW e \in Nat \ {0},
         rate_folds' = Append(rate_folds, [count |-> c, elapsed |-> e])
  PROVE  /\ rate_folds' \in Folds
         /\ Total(Counts)' = Total(Counts) + c /\ Total(Times)' = Total(Times) + e
<1> DEFINE n == Len(rate_folds)
<1>1. /\ n \in Nat /\ DOMAIN rate_folds = 1 .. n
      /\ rate_folds' \in Folds /\ Len(rate_folds') = n + 1 /\ DOMAIN rate_folds' = 1 .. n + 1
      /\ \A k \in 1 .. n : rate_folds'[k] = rate_folds[k]
      /\ rate_folds'[n + 1] = [count |-> c, elapsed |-> e]
  BY DEF Folds
<1> HIDE DEF n
<1>2. /\ Counts = [k \in 1 .. n |-> rate_folds[k].count]
      /\ Counts' = [k \in 1 .. n + 1 |-> rate_folds'[k].count]
      /\ Times = [k \in 1 .. n |-> rate_folds[k].elapsed]
      /\ Times' = [k \in 1 .. n + 1 |-> rate_folds'[k].elapsed]
  BY <1>1 DEF Counts, Times
<1>3. /\ Len(Counts) = n /\ Len(Counts') = n + 1 /\ Len(Times) = n /\ Len(Times') = n + 1
  <2>1. ASSUME NEW m \in Nat, NEW g, g = [k \in 1 .. m |-> g[k]] PROVE Len(g) = m
    BY <2>1
  <2> QED BY <1>1, <1>2, <2>1
<1>4. /\ \A k \in 1 .. n : Counts[k] = Counts'[k] /\ Times[k] = Times'[k]
      /\ Counts'[n + 1] = c /\ Times'[n + 1] = e
  BY <1>1, <1>2
<1> HIDE DEF Folds
<1>5. Total(Counts') = Total(Counts) + c
  BY <1>1, <1>3, <1>4, TotalAppended
<1>6. Total(Times') = Total(Times) + e
  BY <1>1, <1>3, <1>4, TotalAppended
<1> QED BY <1>1, <1>5, <1>6

\* Without a fold the totals stay.
LEMMA TotalsStay ==
  ASSUME UNCHANGED rate_folds
  PROVE  Total(Counts)' = Total(Counts) /\ Total(Times)' = Total(Times)
BY DEF Counts, Times

\* fold_if_due in a window that began at b: its frames are counted in it or are
\* still, and the next one begins where it ends.
LEMMA FoldIs ==
  ASSUME now \in Nat, rate_folds \in Folds, NEW a \in 0 .. now, NEW b \in 0 .. now, a <= b,
         Total(Times) = b - a, Total(Counts) \in Nat, NEW n \in Nat, Fold(<<b>>, n)
  PROVE  /\ rate_folds' \in Folds /\ window_count' \in Nat
         /\ Total(Counts)' \in Nat /\ Total(Counts)' + window_count' = Total(Counts) + n
         /\ \E c \in 0 .. now : a <= c /\ window_start' = <<c>> /\ Total(Times)' = c - a
<1>1. CASE now - b < 1
  <2>1. window_start' = <<b>> /\ window_count' = n /\ UNCHANGED rate_folds
    BY <1>1 DEF Fold
  <2>2. Total(Counts)' = Total(Counts) /\ Total(Times)' = Total(Times)
    BY <2>1, TotalsStay
  <2> QED BY <2>1, <2>2
<1>2. CASE ~(now - b < 1)
  <2>1. /\ rate_folds' = Append(rate_folds, [count |-> n, elapsed |-> now - b])
        /\ window_start' = <<now>> /\ window_count' = 0
    BY <1>2 DEF Fold, Restart
  <2>2. now - b \in Nat \ {0}
    BY <1>2
  <2>3. /\ rate_folds' \in Folds
        /\ Total(Counts)' = Total(Counts) + n /\ Total(Times)' = Total(Times) + (now - b)
    BY <2>1, <2>2, FoldAdds
  <2>4. a <= now /\ Total(Times)' = now - a /\ now \in 0 .. now
    BY <2>3
  <2> QED BY <2>1, <2>3, <2>4
<1> QED BY <1>1, <1>2

LEMMA MeterStarts == ReadoutsInit => MeterInv
<1> SUFFICES ASSUME ReadoutsInit PROVE MeterInv
  OBVIOUS
<1>1. /\ now = 0 /\ window_count = 0 /\ frames_in = 0 /\ rate_folds = <<>>
      /\ first_at = <<>> /\ window_start = <<>>
  BY DEF ReadoutsInit
<1>2. Len(Counts) = 0
  BY <1>1 DEF Counts
<1>3. Total(Counts) = 0
  BY <1>2, TotalOfNone
<1>4. rate_folds \in Folds
  BY <1>1 DEF Folds
<1> QED BY <1>1, <1>3, <1>4 DEF MeterInv

\* Frames are counted in the window they come in, which the first of them begins.
LEMMA FramesKeep == ASSUME MeterInv, OnFrames PROVE MeterInv'
<1>0. /\ now \in Nat /\ window_count \in Nat /\ frames_in \in Nat /\ rate_folds \in Folds
      /\ Total(Counts) \in Nat /\ Total(Counts) + window_count = frames_in
  BY DEF MeterInv
<1>1. PICK n \in 1 .. 2 :
        /\ frames_in' = frames_in + n
        /\ first_at' = IF first_at = <<>> THEN <<now>> ELSE first_at
        /\ Fold(IF window_start = <<>> THEN <<now>> ELSE window_start, window_count + n)
        /\ UNCHANGED now
  BY DEF OnFrames
<1>2. now' \in Nat /\ frames_in' \in Nat /\ n \in Nat /\ window_count + n \in Nat /\ first_at' # <<>>
  BY <1>0, <1>1
<1>3. CASE first_at = <<>>
  <2>1. window_start = <<>> /\ rate_folds = <<>> /\ window_count = 0 /\ frames_in = 0
    BY <1>3 DEF MeterInv
  <2>2. Len(Counts) = 0 /\ Len(Times) = 0
    BY <2>1 DEF Counts, Times
  <2>3. Total(Counts) = 0 /\ Total(Times) = 0
    BY <2>2, TotalOfNone
  <2>4. Fold(<<now>>, window_count + n) /\ now \in 0 .. now /\ Total(Times) = now - now
    BY <1>0, <1>1, <2>1, <2>3
  <2>5. /\ rate_folds' \in Folds /\ window_count' \in Nat
        /\ Total(Counts)' \in Nat /\ Total(Counts)' + window_count' = Total(Counts) + (window_count + n)
        /\ \E c \in 0 .. now : now <= c /\ window_start' = <<c>> /\ Total(Times)' = c - now
    BY <1>0, <1>2, <2>3, <2>4, FoldIs
  <2>6. first_at' = <<now>> /\ now \in 0 .. now' /\ now' = now
    BY <1>0, <1>1, <1>3
  <2>7. Total(Counts)' + window_count' = frames_in'
    BY <1>1, <2>1, <2>3, <2>5
  <2> QED BY <1>2, <2>5, <2>6, <2>7 DEF MeterInv
<1>4. CASE first_at # <<>>
  <2>1. PICK a \in 0 .. now, b \in 0 .. now :
          a <= b /\ first_at = <<a>> /\ window_start = <<b>> /\ Total(Times) = b - a
    BY <1>4 DEF MeterInv
  <2>2. Fold(<<b>>, window_count + n) /\ first_at' = <<a>> /\ now' = now
    BY <1>1, <1>4, <2>1
  <2>3. /\ rate_folds' \in Folds /\ window_count' \in Nat
        /\ Total(Counts)' \in Nat /\ Total(Counts)' + window_count' = Total(Counts) + (window_count + n)
        /\ \E c \in 0 .. now : a <= c /\ window_start' = <<c>> /\ Total(Times)' = c - a
    BY <1>0, <1>2, <2>1, <2>2, FoldIs
  <2>4. Total(Counts)' + window_count' = frames_in'
    BY <1>0, <1>1, <2>3
  <2> QED BY <1>2, <2>1, <2>2, <2>3, <2>4 DEF MeterInv
<1> QED BY <1>3, <1>4

\* A frame of the UI may end a window, and begins none.
LEMMA TickKeeps == ASSUME MeterInv, MeterTick PROVE MeterInv'
<1>0. /\ now \in Nat /\ window_count \in Nat /\ rate_folds \in Folds
      /\ Total(Counts) \in Nat /\ Total(Counts) + window_count = frames_in
  BY DEF MeterInv
<1>1. Fold(window_start, window_count) /\ now' = now /\ frames_in' = frames_in /\ first_at' = first_at
  BY DEF MeterTick
<1>2. CASE first_at = <<>>
  <2>1. window_start = <<>>
    BY <1>2 DEF MeterInv
  <2>2. UNCHANGED <<window_start, window_count, rate_folds>>
    BY <1>1, <2>1 DEF Fold
  <2>3. Total(Counts)' = Total(Counts)
    BY <2>2, TotalsStay
  <2> QED BY <1>1, <1>2, <2>2, <2>3 DEF MeterInv
<1>3. CASE first_at # <<>>
  <2>1. PICK a \in 0 .. now, b \in 0 .. now :
          a <= b /\ first_at = <<a>> /\ window_start = <<b>> /\ Total(Times) = b - a
    BY <1>3 DEF MeterInv
  <2>2. Fold(<<b>>, window_count)
    BY <1>1, <2>1
  <2>3. /\ rate_folds' \in Folds /\ window_count' \in Nat
        /\ Total(Counts)' \in Nat /\ Total(Counts)' + window_count' = Total(Counts) + window_count
        /\ \E c \in 0 .. now : a <= c /\ window_start' = <<c>> /\ Total(Times)' = c - a
    BY <1>0, <2>1, <2>2, FoldIs
  <2>4. now' \in Nat /\ frames_in' \in Nat /\ first_at' # <<>>
    BY <1>1, <1>3 DEF MeterInv
  <2> QED BY <1>0, <1>1, <2>1, <2>3, <2>4 DEF MeterInv
<1> QED BY <1>2, <1>3

\* What the chart does is none of the meter's, and time alone changes nothing of it.
LEMMA MeterRests ==
  ASSUME MeterInv, UNCHANGED <<rate_meter, frames_in, first_at>>, now' \in Nat, now' >= now
  PROVE  MeterInv'
<1>1. UNCHANGED <<window_start, window_count, rate_folds, frames_in, first_at>>
  BY DEF rate_meter
<1>2. Total(Counts)' = Total(Counts) /\ Total(Times)' = Total(Times)
  BY <1>1, TotalsStay
<1>3. now \in Nat /\ 0 .. now \subseteq 0 .. now'
  BY DEF MeterInv
<1> QED BY <1>1, <1>2, <1>3 DEF MeterInv

\* The rate is of all the frames and all the time.
LEMMA RateFollows == MeterInv => RateIsOfAllTime
<1> SUFFICES ASSUME MeterInv PROVE RateIsOfAllTime
  OBVIOUS
<1>1. Total(Counts) + window_count = frames_in
  BY DEF MeterInv
<1>2. ASSUME first_at # <<>>
      PROVE  window_start # <<>> /\ Total(Times) = window_start[1] - first_at[1]
  BY <1>2 DEF MeterInv
<1>3. ASSUME NEW i \in DOMAIN rate_folds PROVE rate_folds[i].elapsed >= 1
  <2>1. rate_folds \in Seq([count : Nat, elapsed : Nat \ {0}])
    BY DEF MeterInv, Folds
  <2>2. DOMAIN rate_folds = 1 .. Len(rate_folds)
    BY <2>1, LenProperties
  <2>3. rate_folds[i] \in [count : Nat, elapsed : Nat \ {0}]
    BY <2>1, <2>2, ElementOfSeq
  <2>4. rate_folds[i].elapsed \in Nat \ {0}
    BY <2>3
  <2> QED BY <2>4
<1> QED BY <1>1, <1>2, <1>3 DEF RateIsOfAllTime

-------------------------------------------------------------------------------
(* The readouts: the chart *)

\* Every point is a sample, the first one the first; neighbours are one stride
\* apart, and less than two.
Traced(ps, ss) == /\ \A i \in DOMAIN ps : ps[i][1] \in DOMAIN ss /\ ps[i][2] = ss[ps[i][1]]
                  /\ ps # <<>> => ps[1][1] = 1
Spaced(ps, st) == \A i \in 1 .. Len(ps) - 1 : ps[i + 1][1] - ps[i][1] \in st .. 2 * st - 1

\* Samples since the last point that the stride does not account for: those a
\* halving took the point of.
Unplotted(ps, ss, st, sk) == Len(ss) - ps[Len(ps)][1] - (st - 1 - sk)

IsPoints(ps) == ps \in Seq((Nat \ {0}) \X Heights)
Plotted(ps, ss, st, sk) ==
  /\ ss \in Seq(Heights) /\ IsPoints(ps)
  /\ st \in Nat \ {0} /\ sk \in 0 .. st - 1
  /\ ps = <<>> <=> ss = <<>>
  /\ ps = <<>> => sk = 0
  /\ Traced(ps, ss) /\ Spaced(ps, st)
  /\ ps # <<>> => Unplotted(ps, ss, st, sk) \in 0 .. st - 1

Least(m, ss) == IF ss = <<>> THEN m = <<>>
                ELSE \E x \in ToSet(ss) : m = <<x>> /\ \A v \in ToSet(ss) : x <= v
Greatest(m, ss) == IF ss = <<>> THEN m = <<>>
                   ELSE \E x \in ToSet(ss) : m = <<x>> /\ \A v \in ToSet(ss) : x >= v
ChartInv ==
  /\ Plotted(points, samples, stride, skip) /\ Len(points) < PlotCap
  /\ Least(plot_min, samples) /\ Greatest(plot_max, samples)
  /\ samples # <<>> => current = <<samples[Len(samples)]>>

\* A sample more.
LEMMA OneMore ==
  ASSUME NEW S, NEW ss \in Seq(S), NEW v \in S
  PROVE  /\ Append(ss, v) \in Seq(S) /\ Append(ss, v) # <<>>
         /\ Len(ss) \in Nat /\ DOMAIN ss = 1 .. Len(ss)
         /\ Len(Append(ss, v)) = Len(ss) + 1 /\ DOMAIN Append(ss, v) = 1 .. Len(ss) + 1
         /\ Append(ss, v)[Len(ss) + 1] = v
         /\ \A i \in 1 .. Len(ss) : Append(ss, v)[i] = ss[i]
OBVIOUS

\* The heights with one more.
LEMMA OneHeight ==
  ASSUME NEW ss \in Seq(Heights), NEW v \in Heights
  PROVE  /\ ToSet(Append(ss, v)) = ToSet(ss) \cup {v}
         /\ ToSet(ss) \subseteq Int /\ v \in Int
         /\ ss = <<>> => ToSet(ss) = {}
<1> DEFINE q == Append(ss, v)
<1>1. /\ q # <<>> /\ Len(ss) \in Nat /\ DOMAIN ss = 1 .. Len(ss) /\ DOMAIN q = 1 .. Len(ss) + 1
      /\ q[Len(ss) + 1] = v /\ \A i \in 1 .. Len(ss) : q[i] = ss[i]
  BY OneMore
<1>2. ToSet(ss) \subseteq Int /\ v \in Int
  <2>1. \A i \in 1 .. Len(ss) : ss[i] \in Heights
    OBVIOUS
  <2> QED BY <1>1, <2>1, ChartAssumption DEF ToSet
<1> HIDE DEF q
<1>3. ASSUME NEW x \in ToSet(q) PROVE x \in ToSet(ss) \cup {v}
  <2>1. PICK i \in 1 .. Len(ss) + 1 : x = q[i]
    BY <1>1 DEF ToSet
  <2>2. i \in 1 .. Len(ss) \/ i = Len(ss) + 1
    BY <1>1
  <2> QED BY <1>1, <2>1, <2>2 DEF ToSet
<1>4. ASSUME NEW x \in ToSet(ss) \cup {v} PROVE x \in ToSet(q)
  <2>1. CASE x = v
    <3>1. Len(ss) + 1 \in DOMAIN q
      BY <1>1
    <3> QED BY <1>1, <2>1, <3>1 DEF ToSet
  <2>2. CASE x \in ToSet(ss)
    <3>1. PICK i \in 1 .. Len(ss) : x = ss[i]
      BY <1>1, <2>2 DEF ToSet
    <3>2. i \in DOMAIN q /\ q[i] = x
      BY <1>1, <3>1
    <3> QED BY <3>2 DEF ToSet
  <2> QED BY <2>1, <2>2
<1>5. ss = <<>> => ToSet(ss) = {}
  BY DEF ToSet
<1> QED BY <1>2, <1>3, <1>4, <1>5 DEF q

\* The extremes go with it.
LEMMA ExtremesGo ==
  ASSUME NEW ss \in Seq(Heights), NEW v \in Heights,
         NEW m, Least(m, ss), NEW n, Greatest(n, ss)
  PROVE  Least(Lower(m, v), Append(ss, v)) /\ Greatest(Higher(n, v), Append(ss, v))
<1> DEFINE q == Append(ss, v)
<1>1. /\ ToSet(q) = ToSet(ss) \cup {v} /\ ToSet(ss) \subseteq Int /\ v \in Int /\ q # <<>>
      /\ ss = <<>> => ToSet(ss) = {}
  BY OneHeight, OneMore
<1> HIDE DEF q
<1>2. CASE ss = <<>>
  <2>1. m = <<>> /\ n = <<>> /\ ToSet(q) = {v}
    BY <1>1, <1>2 DEF Least, Greatest
  <2>2. Lower(m, v) = <<v>> /\ Higher(n, v) = <<v>>
    BY <2>1 DEF Lower, Higher
  <2> QED BY <1>1, <2>1, <2>2 DEF Least, Greatest, q
<1>3. CASE ss # <<>>
  <2>1. PICK x \in ToSet(ss) : m = <<x>> /\ \A y \in ToSet(ss) : x <= y
    BY <1>3 DEF Least
  <2>2. PICK z \in ToSet(ss) : n = <<z>> /\ \A y \in ToSet(ss) : z >= y
    BY <1>3 DEF Greatest
  <2>3. Lower(m, v) = (IF v < x THEN <<v>> ELSE <<x>>) /\ Higher(n, v) = (IF v > z THEN <<v>> ELSE <<z>>)
    BY <2>1, <2>2 DEF Lower, Higher
  <2>4. \E y \in ToSet(q) : Lower(m, v) = <<y>> /\ \A w \in ToSet(q) : y <= w
    BY <1>1, <2>1, <2>3
  <2>5. \E y \in ToSet(q) : Higher(n, v) = <<y>> /\ \A w \in ToSet(q) : y >= w
    BY <1>1, <2>2, <2>3
  <2> QED BY <1>1, <2>4, <2>5 DEF Least, Greatest, q
<1> QED BY <1>2, <1>3

\* A sample that is skipped is one the stride accounts for.
LEMMA SkipOneIs ==
  ASSUME NEW ps, NEW ss, NEW st, NEW sk, Plotted(ps, ss, st, sk), sk > 0, NEW v \in Heights
  PROVE  Plotted(ps, Append(ss, v), st, sk - 1)
<1> DEFINE q == Append(ss, v)
<1>1. /\ q \in Seq(Heights) /\ q # <<>> /\ Len(ss) \in Nat /\ DOMAIN ss = 1 .. Len(ss)
      /\ Len(q) = Len(ss) + 1 /\ DOMAIN q = 1 .. Len(ss) + 1 /\ \A i \in 1 .. Len(ss) : q[i] = ss[i]
  BY OneMore DEF Plotted
<1> HIDE DEF q
<1>2. st \in Nat \ {0} /\ sk \in 0 .. st - 1 /\ ps # <<>> /\ IsPoints(ps)
  BY DEF Plotted
<1>3. Traced(ps, q)
  <2>1. ASSUME NEW i \in DOMAIN ps PROVE ps[i][1] \in DOMAIN q /\ ps[i][2] = q[ps[i][1]]
    <3>1. ps[i][1] \in 1 .. Len(ss) /\ ps[i][2] = ss[ps[i][1]]
      BY <1>1 DEF Plotted, Traced
    <3> QED BY <1>1, <3>1
  <2> QED BY <2>1 DEF Plotted, Traced
<1>4. Unplotted(ps, q, st, sk - 1) \in 0 .. st - 1
  <2>1. Unplotted(ps, ss, st, sk) \in 0 .. st - 1
    BY <1>2 DEF Plotted
  <2>2. ps[Len(ps)][1] \in Nat
    BY <1>2 DEF IsPoints
  <2>3. Unplotted(ps, q, st, sk - 1) = Unplotted(ps, ss, st, sk)
    BY <1>1, <1>2, <2>2 DEF Unplotted
  <2> QED BY <2>1, <2>3
<1>5. sk - 1 \in 0 .. st - 1
  BY <1>2
<1> QED BY <1>1, <1>2, <1>3, <1>4, <1>5 DEF Plotted, q

\* A sample that is kept is the last point, and lies a stride and what was behind
\* from the one before.
LEMMA KeepOneIs ==
  ASSUME NEW ps, NEW ss, NEW st, Plotted(ps, ss, st, 0), NEW v \in Heights
  PROVE  /\ Plotted(Append(ps, <<Len(ss) + 1, v>>), Append(ss, v), st, st - 1)
         /\ Unplotted(Append(ps, <<Len(ss) + 1, v>>), Append(ss, v), st, st - 1) = 0
         /\ Len(ps) \in Nat /\ Len(Append(ps, <<Len(ss) + 1, v>>)) = Len(ps) + 1
         /\ Append(ps, <<Len(ss) + 1, v>>) # <<>>
<1> DEFINE q == Append(ss, v)
           n == Len(ss) + 1
           p == <<n, v>>
           r == Append(ps, p)
           m == Len(ps)
<1>1. /\ q \in Seq(Heights) /\ q # <<>> /\ Len(ss) \in Nat /\ DOMAIN ss = 1 .. Len(ss)
      /\ Len(q) = n /\ DOMAIN q = 1 .. n /\ q[n] = v /\ \A i \in 1 .. Len(ss) : q[i] = ss[i]
  BY OneMore DEF Plotted
<1>2. st \in Nat \ {0} /\ st - 1 \in 0 .. st - 1 /\ IsPoints(ps)
  BY DEF Plotted
<1>3. p \in (Nat \ {0}) \X Heights /\ p[1] = n /\ p[2] = v
  BY <1>1
<1> HIDE DEF q, p
<1>4. /\ IsPoints(r) /\ r # <<>> /\ m \in Nat /\ DOMAIN ps = 1 .. m
      /\ Len(r) = m + 1 /\ DOMAIN r = 1 .. m + 1 /\ r[m + 1] = p /\ \A i \in 1 .. m : r[i] = ps[i]
  <2> DEFINE P == (Nat \ {0}) \X Heights
  <2>1. ps \in Seq(P) /\ p \in P
    BY <1>2, <1>3 DEF IsPoints
  <2> HIDE DEF P
  <2>2. /\ r \in Seq(P) /\ r # <<>> /\ m \in Nat /\ DOMAIN ps = 1 .. m
        /\ Len(r) = m + 1 /\ DOMAIN r = 1 .. m + 1 /\ r[m + 1] = p /\ \A i \in 1 .. m : r[i] = ps[i]
    BY <2>1, OneMore
  <2> QED BY <2>2 DEF P, IsPoints
<1> HIDE DEF r
<1>5. \A i \in 1 .. m : ps[i][1] \in 1 .. Len(ss) /\ ps[i][2] = ss[ps[i][1]]
  BY <1>1, <1>4 DEF Plotted, Traced
<1>6. ps = <<>> <=> m = 0
  BY <1>2, <1>4, EmptySeq DEF IsPoints
<1>7. Traced(r, q)
  <2>1. ASSUME NEW i \in DOMAIN r PROVE r[i][1] \in DOMAIN q /\ r[i][2] = q[r[i][1]]
    <3>1. CASE i \in 1 .. m
      BY <1>1, <1>4, <1>5, <3>1
    <3>2. CASE i = m + 1
      BY <1>1, <1>3, <1>4, <3>2
    <3> QED BY <1>4, <3>1, <3>2
  <2>2. r[1][1] = 1
    <3>1. CASE m = 0
      <4>1. ss = <<>>
        BY <1>6, <3>1 DEF Plotted
      <4>2. n = 1
        BY <4>1
      <4> QED BY <1>3, <1>4, <3>1, <4>2
    <3>2. CASE m # 0
      <4>1. 1 \in 1 .. m /\ ps[1][1] = 1
        BY <1>4, <1>6, <3>2 DEF Plotted, Traced
      <4> QED BY <1>4, <4>1
    <3> QED BY <3>1, <3>2
  <2> QED BY <2>1, <2>2 DEF Traced
<1>8. Spaced(r, st)
  <2>1. ASSUME NEW i \in 1 .. m PROVE r[i + 1][1] - r[i][1] \in st .. 2 * st - 1
    <3>1. CASE i + 1 \in 1 .. m
      <4>1. i \in 1 .. m - 1
        BY <1>4, <3>1
      <4>2. ps[i + 1][1] - ps[i][1] \in st .. 2 * st - 1
        BY <4>1 DEF Plotted, Spaced
      <4> QED BY <1>4, <3>1, <4>2
    <3>2. CASE i = m
      <4>1. Unplotted(ps, ss, st, 0) \in 0 .. st - 1
        BY <1>4, <1>6 DEF Plotted
      <4>2. ps[m][1] \in 1 .. Len(ss)
        BY <1>4, <1>5, <3>2
      <4>3. Len(ss) - ps[m][1] - (st - 1 - 0) \in 0 .. st - 1
        BY <4>1 DEF Unplotted
      <4>4. n - ps[m][1] \in st .. 2 * st - 1
        BY <1>1, <1>2, <4>2, <4>3
      <4>5. r[i + 1][1] = n /\ r[i][1] = ps[m][1]
        BY <1>3, <1>4, <3>2
      <4> QED BY <4>4, <4>5
    <3>3. i + 1 \in 1 .. m \/ i = m
      <4>1. m \in Nat
        BY <1>4
      <4> HIDE DEF m
      <4> QED BY <4>1
    <3> QED BY <3>1, <3>2, <3>3
  <2>2. Len(r) - 1 = m
    BY <1>4
  <2> QED BY <2>1, <2>2 DEF Spaced
<1>9. Unplotted(r, q, st, st - 1) = 0 /\ 0 \in 0 .. st - 1
  <2>1. r[Len(r)][1] = n
    BY <1>3, <1>4
  <2> QED BY <1>1, <1>2, <2>1 DEF Unplotted
<1> QED BY <1>1, <1>2, <1>4, <1>7, <1>8, <1>9 DEF Plotted, q, r, p

\* Every other point of a list.
LEMMA HalvedIs ==
  ASSUME NEW ps, IsPoints(ps), ps # <<>>
  PROVE  /\ IsPoints(Halved(ps)) /\ Halved(ps) # <<>> /\ Len(ps) \in Nat \ {0}
         /\ 2 * Len(Halved(ps)) \in {Len(ps), Len(ps) + 1} /\ Len(Halved(ps)) \in Nat \ {0}
         /\ DOMAIN ps = 1 .. Len(ps) /\ DOMAIN Halved(ps) = 1 .. Len(Halved(ps))
         /\ \A i \in 1 .. Len(Halved(ps)) : 2 * i - 1 \in 1 .. Len(ps) /\ Halved(ps)[i] = ps[2 * i - 1]
<1> DEFINE n == Len(ps)
           h == (n + 1) \div 2
           q == [i \in 1 .. h |-> ps[2 * i - 1]]
<1>1. n \in Nat \ {0} /\ DOMAIN ps = 1 .. n /\ \A i \in 1 .. n : ps[i] \in (Nat \ {0}) \X Heights
  BY EmptySeq DEF IsPoints
<1>2. h \in Nat \ {0} /\ 2 * h \in {n, n + 1}
  <2> HIDE DEF n
  <2> QED BY <1>1
<1> HIDE DEF n, h
<1>3. \A i \in 1 .. h : 2 * i - 1 \in 1 .. n
  BY <1>1, <1>2
<1>4. q \in Seq((Nat \ {0}) \X Heights) /\ Len(q) = h /\ DOMAIN q = 1 .. h /\ q # <<>>
  <2>1. \A i \in 1 .. h : q[i] \in (Nat \ {0}) \X Heights
    BY <1>1, <1>3
  <2>2. q \in [1 .. h -> (Nat \ {0}) \X Heights]
    BY <2>1
  <2>3. q \in Seq((Nat \ {0}) \X Heights) /\ Len(q) = h
    BY <1>2, <2>2
  <2>4. q # <<>>
    BY <1>2, <2>3, EmptySeq
  <2> QED BY <2>3, <2>4
<1>5. \A i \in 1 .. h : q[i] = ps[2 * i - 1]
  OBVIOUS
<1>6. Halved(ps) = q
  BY DEF Halved, h, n
<1> HIDE DEF q
<1> QED BY <1>1, <1>2, <1>3, <1>4, <1>5, <1>6 DEF IsPoints, n

\* Every other point of a chart is a chart of twice the stride.
LEMMA HalveIs ==
  ASSUME NEW ps, NEW ss, NEW st, Plotted(ps, ss, st, st - 1), ps # <<>>,
         Unplotted(ps, ss, st, st - 1) = 0
  PROVE  Plotted(Halved(ps), ss, 2 * st, 2 * st - 1)
<1> DEFINE q == Halved(ps)
           n == Len(ps)
           h == Len(q)
<1>1. st \in Nat \ {0} /\ IsPoints(ps) /\ ss \in Seq(Heights) /\ ss # <<>> /\ Len(ss) \in Nat
  BY DEF Plotted
<1>2. /\ IsPoints(q) /\ q # <<>> /\ n \in Nat \ {0} /\ h \in Nat \ {0} /\ 2 * h \in {n, n + 1}
      /\ DOMAIN ps = 1 .. n /\ DOMAIN q = 1 .. h
      /\ \A i \in 1 .. h : 2 * i - 1 \in 1 .. n /\ q[i] = ps[2 * i - 1]
  BY <1>1, HalvedIs
<1>3. /\ \A i \in 1 .. n : ps[i][1] \in DOMAIN ss /\ ps[i][2] = ss[ps[i][1]] /\ ps[i][1] \in Nat
      /\ ps[1][1] = 1
      /\ \A i \in 1 .. n - 1 : ps[i + 1][1] - ps[i][1] \in st .. 2 * st - 1
  <2>1. \A i \in 1 .. n : ps[i][1] \in Nat
    BY <1>1 DEF IsPoints
  <2>2. Traced(ps, ss) /\ Spaced(ps, st)
    BY DEF Plotted
  <2> HIDE DEF q, h
  <2>3. (\A i \in 1 .. n : ps[i][1] \in DOMAIN ss /\ ps[i][2] = ss[ps[i][1]]) /\ ps[1][1] = 1
    BY <1>2, <2>2, Zenon DEF Traced
  <2>4. \A i \in 1 .. n - 1 : ps[i + 1][1] - ps[i][1] \in st .. 2 * st - 1
    BY <2>2, Zenon DEF Spaced
  <2> QED BY <2>1, <2>3, <2>4
<1>4. Len(ss) = ps[n][1]
  <2>1. ps[n][1] \in Nat
    <3>0. n \in Nat \ {0}
      BY <1>2
    <3>1. n \in 1 .. n
      <4> HIDE DEF n
      <4> QED BY <3>0
    <3> QED BY <1>3, <3>1
  <2>2. Len(ss) - ps[n][1] - (st - 1 - (st - 1)) = 0
    BY DEF Unplotted
  <2> QED BY <1>1, <2>1, <2>2
<1> HIDE DEF q, n, h
<1>5. Traced(q, ss)
  <2>1. 1 \in 1 .. h /\ q[1] = ps[1]
    BY <1>2
  <2>2. \A i \in 1 .. h : q[i][1] \in DOMAIN ss /\ q[i][2] = ss[q[i][1]]
    BY <1>2, <1>3
  <2> QED BY <1>2, <1>3, <2>1, <2>2 DEF Traced
<1>6. Spaced(q, 2 * st)
  <2>1. ASSUME NEW i \in 1 .. h - 1 PROVE q[i + 1][1] - q[i][1] \in 2 * st .. 2 * (2 * st) - 1
    <3>1. q[i] = ps[2 * i - 1] /\ q[i + 1] = ps[2 * i + 1]
      <4>1. i \in 1 .. h /\ i + 1 \in 1 .. h /\ 2 * (i + 1) - 1 = 2 * i + 1
        BY <1>2
      <4> QED BY <1>2, <4>1
    <3>2. 2 * i - 1 \in 1 .. n - 1 /\ 2 * i \in 1 .. n - 1 /\ 2 * i + 1 \in 1 .. n
      BY <1>2
    <3> DEFINE a == ps[2 * i - 1][1]
               b == ps[2 * i][1]
               c == ps[2 * i + 1][1]
    <3>3. a \in Nat /\ b \in Nat /\ c \in Nat
      BY <1>2, <1>3, <3>2
    <3>4. b - a \in st .. 2 * st - 1 /\ c - b \in st .. 2 * st - 1
      <4>1. (2 * i - 1) + 1 = 2 * i
        BY <3>2
      <4> QED BY <1>3, <3>2, <4>1
    <3> HIDE DEF a, b, c
    <3>5. c - a \in 2 * st .. 2 * (2 * st) - 1
      BY <1>1, <3>3, <3>4
    <3> QED BY <3>1, <3>5 DEF a, c
  <2> QED BY <2>1 DEF Spaced, h
<1>7. Unplotted(q, ss, 2 * st, 2 * st - 1) \in 0 .. 2 * st - 1
  <2>1. q[h] = ps[2 * h - 1] /\ 2 * h - 1 \in 1 .. n
    BY <1>2
  <2>2. Unplotted(q, ss, 2 * st, 2 * st - 1) = Len(ss) - q[h][1]
    <3>1. q[h][1] \in Nat
      BY <1>3, <2>1
    <3> QED BY <1>1, <3>1 DEF Unplotted, h
  <2>3. CASE 2 * h = n + 1
    <3>1. q[h] = ps[n]
      BY <1>2, <2>1, <2>3
    <3> QED BY <1>1, <1>4, <2>2, <3>1
  <2>4. CASE 2 * h = n
    <3>1. n - 1 \in 1 .. n - 1 /\ q[h] = ps[n - 1] /\ (n - 1) + 1 = n
      BY <1>2, <2>1, <2>4
    <3>2. ps[n][1] - ps[n - 1][1] \in st .. 2 * st - 1
      BY <1>3, <3>1
    <3> QED BY <1>1, <1>4, <2>2, <3>1, <3>2
  <2> QED BY <1>2, <2>3, <2>4
<1>8. 2 * st \in Nat \ {0} /\ 2 * st - 1 \in 0 .. 2 * st - 1
  BY <1>1
<1> QED BY <1>1, <1>2, <1>5, <1>6, <1>7, <1>8 DEF Plotted, q

\* The least and the greatest of the samples are Min and Max.
LEMMA ExtremesAre ==
  ASSUME NEW S \in SUBSET Int, NEW x \in S
  PROVE  /\ (\A y \in S : x <= y) => Min(S) = x
         /\ (\A y \in S : x >= y) => Max(S) = x
<1>1. ASSUME \A y \in S : x <= y PROVE Min(S) = x
  <2> DEFINE m == CHOOSE z \in S : \A y \in S : z <= y
  <2>1. m \in S /\ \A y \in S : m <= y
    BY <1>1
  <2> HIDE DEF m
  <2>2. m = x
    BY <1>1, <2>1
  <2> QED BY <2>2 DEF Min, m
<1>2. ASSUME \A y \in S : x >= y PROVE Max(S) = x
  <2> DEFINE m == CHOOSE z \in S : \A y \in S : z >= y
  <2>1. m \in S /\ \A y \in S : m >= y
    BY <1>2
  <2> HIDE DEF m
  <2>2. m = x
    BY <1>2, <2>1
  <2> QED BY <2>2 DEF Max, m
<1> QED BY <1>1, <1>2

LEMMA ChartStarts == ReadoutsInit => ChartInv
<1> SUFFICES ASSUME ReadoutsInit PROVE ChartInv
  OBVIOUS
<1>1. /\ points = <<>> /\ samples = <<>> /\ stride = 1 /\ skip = 0
      /\ plot_min = <<>> /\ plot_max = <<>>
  BY DEF ReadoutsInit
<1>2. Plotted(<<>>, <<>>, 1, 0)
  BY DEF Plotted, IsPoints, Traced, Spaced
<1>3. Len(points) < PlotCap
  BY <1>1, ChartAssumption
<1> QED BY <1>1, <1>2, <1>3 DEF ChartInv, Least, Greatest

\* Reset is as good as a start.
LEMMA ResetKeeps == ASSUME ResetChart PROVE ChartInv'
<1>1. /\ points' = <<>> /\ samples' = <<>> /\ stride' = 1 /\ skip' = 0
      /\ plot_min' = <<>> /\ plot_max' = <<>>
  BY DEF ResetChart
<1>2. Plotted(<<>>, <<>>, 1, 0)
  BY DEF Plotted, IsPoints, Traced, Spaced
<1>3. Len(points') < PlotCap
  BY <1>1, ChartAssumption
<1> QED BY <1>1, <1>2, <1>3 DEF ChartInv, Least, Greatest

\* A sample is skipped, kept, or kept with every other one.
LEMMA SampleKeeps == ASSUME ChartInv, Sample PROVE ChartInv'
<1>1. PICK v \in Heights :
        /\ samples' = Append(samples, v) /\ current' = <<v>> /\ Extremes(v)
        /\ SkipOne \/ KeepOne(<<Len(samples) + 1, v>>)
  BY DEF Sample
<1>2. /\ Plotted(points, samples, stride, skip) /\ samples \in Seq(Heights) /\ IsPoints(points)
      /\ stride \in Nat \ {0} /\ skip \in 0 .. stride - 1 /\ Len(points) < PlotCap
      /\ Least(plot_min, samples) /\ Greatest(plot_max, samples)
  BY DEF ChartInv, Plotted
<1>3. Least(plot_min', samples') /\ Greatest(plot_max', samples')
  <2>1. plot_min' = Lower(plot_min, v) /\ plot_max' = Higher(plot_max, v)
    BY <1>1 DEF Extremes
  <2>2. Least(Lower(plot_min, v), Append(samples, v)) /\ Greatest(Higher(plot_max, v), Append(samples, v))
    BY <1>2, ExtremesGo
  <2> QED BY <1>1, <2>1, <2>2
<1>4. samples' # <<>> => current' = <<samples'[Len(samples')]>>
  BY <1>1, <1>2
<1>5. Plotted(points', samples', stride', skip') /\ Len(points') < PlotCap
  <2>1. CASE SkipOne
    <3>1. skip > 0 /\ skip' = skip - 1 /\ points' = points /\ stride' = stride
      BY <2>1 DEF SkipOne
    <3>2. Plotted(points, Append(samples, v), stride, skip - 1)
      BY <1>2, <3>1, SkipOneIs
    <3> QED BY <1>1, <1>2, <3>1, <3>2
  <2>2. CASE KeepOne(<<Len(samples) + 1, v>>)
    <3> DEFINE p == <<Len(samples) + 1, v>>
               q == Append(points, p)
               ss == Append(samples, v)
    <3>1. /\ skip = 0 /\ skip' = stride' - 1
          /\ IF Len(points) + 1 >= PlotCap THEN points' = Halved(q) /\ stride' = 2 * stride
             ELSE points' = q /\ stride' = stride
      BY <2>2 DEF KeepOne
    <3>2. /\ Plotted(q, ss, stride, stride - 1) /\ Unplotted(q, ss, stride, stride - 1) = 0
          /\ q # <<>> /\ Len(q) = Len(points) + 1 /\ Len(points) \in Nat
      BY <1>2, <3>1, KeepOneIs
    <3>3. IsPoints(q)
      BY <3>2 DEF Plotted
    <3> HIDE DEF p, q
    <3>4. CASE Len(points) + 1 >= PlotCap
      <4>1. points' = Halved(q) /\ stride' = 2 * stride /\ skip' = 2 * stride - 1
        BY <3>1, <3>4
      <4>2. Plotted(Halved(q), ss, 2 * stride, 2 * stride - 1)
        BY <3>2, <3>3, HalveIs
      <4>3. Len(Halved(q)) \in Nat /\ 2 * Len(Halved(q)) \in {Len(q), Len(q) + 1}
        BY <3>2, <3>3, HalvedIs
      <4>4. Len(Halved(q)) < PlotCap
        BY <1>2, <3>2, <4>3, ChartAssumption
      <4> QED BY <1>1, <4>1, <4>2, <4>4
    <3>5. CASE ~(Len(points) + 1 >= PlotCap)
      <4>1. points' = q /\ stride' = stride /\ skip' = stride - 1
        BY <3>1, <3>5
      <4>2. Len(q) < PlotCap
        BY <3>2, <3>5, ChartAssumption
      <4> QED BY <1>1, <3>2, <4>1, <4>2
    <3> QED BY <3>4, <3>5
  <2> QED BY <1>1, <2>1, <2>2
<1> QED BY <1>3, <1>4, <1>5 DEF ChartInv

\* The chart has its shape.
LEMMA ShapeFollows == ChartInv => PlotKeepsShape
<1> SUFFICES ASSUME ChartInv PROVE PlotKeepsShape
  OBVIOUS
<1>1. /\ Plotted(points, samples, stride, skip) /\ samples \in Seq(Heights) /\ IsPoints(points)
      /\ stride \in Nat \ {0} /\ skip \in 0 .. stride - 1 /\ Traced(points, samples)
      /\ Spaced(points, stride)
  BY DEF ChartInv, Plotted
<1>2. Len(samples) \in Nat /\ (Len(samples) > 0 => samples # <<>> /\ points # <<>>)
  BY <1>1 DEF Plotted
<1>3. DOMAIN points = 1 .. Len(points) /\ Len(points) \in Nat /\ (points # <<>> => Len(points) # 0)
  BY <1>1, LenProperties, EmptySeq DEF IsPoints
<1>4. ASSUME points # <<>> PROVE Len(samples) - points[Len(points)][1] < 2 * stride
  <2>1. Unplotted(points, samples, stride, skip) \in 0 .. stride - 1
    BY <1>1, <1>4 DEF Plotted
  <2>2. points[Len(points)][1] \in Nat
    BY <1>1, <1>3, <1>4 DEF IsPoints
  <2> QED BY <1>1, <1>2, <2>1, <2>2 DEF Unplotted
<1>5. ASSUME NEW i \in DOMAIN points
      PROVE  points[i] = <<points[i][1], samples[points[i][1]]>>
  <2>1. points[i] \in (Nat \ {0}) \X Heights
    BY <1>1, <1>3, <1>5 DEF IsPoints
  <2>2. points[i][2] = samples[points[i][1]]
    BY <1>1, <1>5 DEF Traced
  <2> QED BY <2>1, <2>2
<1>6. ASSUME samples # <<>>
      PROVE  plot_min = <<Min(ToSet(samples))>> /\ plot_max = <<Max(ToSet(samples))>>
  <2>1. ToSet(samples) \subseteq Int
    <3>1. \A i \in 1 .. Len(samples) : samples[i] \in Heights
      BY <1>1
    <3>2. DOMAIN samples = 1 .. Len(samples)
      BY <1>1, LenProperties
    <3> QED BY <3>1, <3>2, ChartAssumption DEF ToSet
  <2>2. PICK x \in ToSet(samples) : plot_min = <<x>> /\ \A y \in ToSet(samples) : x <= y
    BY <1>6 DEF ChartInv, Least
  <2>3. PICK z \in ToSet(samples) : plot_max = <<z>> /\ \A y \in ToSet(samples) : z >= y
    BY <1>6 DEF ChartInv, Greatest
  <2>4. Min(ToSet(samples)) = x /\ Max(ToSet(samples)) = z
    BY <2>1, <2>2, <2>3, ExtremesAre
  <2> QED BY <2>2, <2>3, <2>4
<1>7. Len(points) < PlotCap /\ (samples # <<>> => current = <<samples[Len(samples)]>>)
  BY DEF ChartInv
<1>8. points # <<>> => points[1][1] = 1
  BY <1>1 DEF Traced
<1>9. \A i \in 1 .. Len(points) - 1 : points[i + 1][1] - points[i][1] \in stride .. 2 * stride - 1
  BY <1>1, Zenon DEF Spaced
<1> QED BY <1>2, <1>4, <1>5, <1>6, <1>7, <1>8, <1>9 DEF PlotKeepsShape

\* What is to be known of both for every step: the chart's points are samples of
\* one stride and less than two apart, of all the samples since Reset, and the
\* meter's windows hold every frame and leave no time out.
ReadoutsInv == ChartInv /\ MeterInv

\* The readouts as they are kept from step to step, for any heights, capacity of
\* the chart (PlotSeries::new makes it two at least), and length of the stream.
THEOREM ReadoutsHold == ReadoutsSpec => []ReadoutsInv
<1>1. ASSUME ReadoutsInv, [ReadoutsNext]_roVars PROVE ReadoutsInv'
  <2>1. now \in Nat
    BY <1>1 DEF ReadoutsInv, MeterInv
  <2>2. ASSUME UNCHANGED <<points, stride, skip, plot_min, plot_max, current, samples>>
        PROVE  ChartInv'
    BY <1>1, <2>2 DEF ReadoutsInv, ChartInv
  <2>3. ASSUME UNCHANGED <<rate_meter, now, frames_in, first_at>> PROVE MeterInv'
    BY <1>1, <2>1, <2>3, MeterRests DEF ReadoutsInv
  <2>4. CASE Sample
    BY <1>1, <2>3, <2>4, SampleKeeps DEF ReadoutsInv, Sample
  <2>5. CASE ToggleRecording
    BY <2>2, <2>3, <2>5 DEF ReadoutsInv, ToggleRecording
  <2>6. CASE ResetChart
    BY <2>3, <2>6, ResetKeeps DEF ReadoutsInv, ResetChart
  <2>7. CASE OnFrames
    BY <1>1, <2>2, <2>7, FramesKeep DEF ReadoutsInv, OnFrames, chart
  <2>8. CASE MeterTick
    BY <1>1, <2>2, <2>8, TickKeeps DEF ReadoutsInv, MeterTick, chart
  <2>9. CASE MeterClock
    <3>1. now' \in Nat /\ now' >= now
      BY <2>1, <2>9 DEF MeterClock
    <3>2. MeterInv'
      BY <1>1, <2>9, <3>1, MeterRests DEF ReadoutsInv, MeterClock
    <3> QED BY <2>2, <2>9, <3>2 DEF ReadoutsInv, MeterClock, chart
  <2>10. CASE UNCHANGED roVars
    BY <2>2, <2>3, <2>10 DEF ReadoutsInv, roVars, chart
  <2> QED BY <1>1, <2>4, <2>5, <2>6, <2>7, <2>8, <2>9, <2>10 DEF ReadoutsNext
<1>2. ReadoutsInit => ReadoutsInv
  BY ChartStarts, MeterStarts DEF ReadoutsInv
<1> QED BY <1>1, <1>2, PTL DEF ReadoutsSpec

\* PlotSeries and RateMeter over any session: the chart keeps its shape within
\* its capacity, its extremes are those of every sample, and the rate is of all
\* frames and all the time, however the stream batches them.
THEOREM ReadoutsAreTrue == ReadoutsSpec => []ReadoutsTrue
<1>1. ReadoutsInv => ReadoutsTrue
  BY ShapeFollows, RateFollows DEF ReadoutsInv, ReadoutsTrue
<1> QED BY <1>1, ReadoutsHold, PTL
===============================================================================
