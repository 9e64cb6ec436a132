------------------------------ MODULE DiskProofs ------------------------------
(***************************************************************************)
(* What the program leaves on disk: the logger's daily files and captures, *)
(* for every length of the run, of its channel and of its captures; and    *)
(* settings.toml, for any runs, edits, crashes and files of the original   *)
(* client.  The two share no state.                                        *)
(*                                                                         *)
(* The logger's thread is always some commands behind its senders.  The    *)
(* invariants say how the two are linked: each command under way fits what *)
(* the thread will have done by then, and the last of them is what the     *)
(* senders see.                                                            *)
(*                                                                         *)
(* The settings file is what the last whole save made it.  The invariant   *)
(* says where the last unreadable text is while a run that could overwrite *)
(* it is under way, and what the run knows of the file.                    *)
(***************************************************************************)
EXTENDS Logger, SettingsStore, SequenceTheorems, NaturalsInduction, WellFoundedInduction, TLAPS

(* Types *)

SinkType  == [enabled : BOOLEAN, current : Nat, dirty : BOOLEAN, failed : BOOLEAN]
CapType   == [armed : Nat, open : Nat, count : Nat, dirty : BOOLEAN, failed : BOOLEAN]
BlockType == [conn : Nat, nth : Nat]
Disks     == UNION {[D -> Seq(BlockType)] : D \in SUBSET Nat}
Receipts  == SUBSET [name : Nat, conn : Nat, count : Nat]
Fates     == [Sinks -> {"written", "told", "untold"}]
LogType   == [events : SinkType, nmea : SinkType, cap : CapType, disk : Disks,
              receipts : Receipts, refused : SUBSET Nat, fate : Fates]

SetCmds == [what : {"set"}, sink : Sinks, on : BOOLEAN]
CapCmds == [what : {"begin", "data", "end"}, conn : Nat, nth : Nat]
Cmds    == [what : Sinks] \cup SetCmds \cup CapCmds \cup [what : {"shutdown"}]

LogTypes == /\ chan \in Seq(Cmds) /\ log \in LogType /\ clock \in Nat \ {0}
            /\ opt \in [Sinks -> BOOLEAN]
            /\ snap # <<>> => snap[1] \in [Sinks -> BOOLEAN]
            /\ conn.sent \in Seq(Nat) /\ conn \in [up : BOOLEAN, sent : Seq(Nat)]
            /\ conn.up => conn.sent # <<>>

(* The options *)

Sets(cmd, s) == cmd.what = "set" /\ cmd.sink = s

\* The last word under way on a sink is the user's; with none under way, the
\* thread has it.
LastWord ==
  running => \A s \in Sinks :
    /\ (\A i \in DOMAIN chan : ~Sets(chan[i], s)) => log[s].enabled = opt[s]
    /\ \A i \in DOMAIN chan :
         Sets(chan[i], s) /\ (\A j \in DOMAIN chan : j > i => ~Sets(chan[j], s))
           => chan[i].on = opt[s]

\* A sink whose failure is kept quiet has told of it before.
Honest(l) ==
  /\ l.nmea.failed => l.nmea.enabled /\ l.nmea.current = None /\ l.fate["nmea"] = "told"
  /\ l.fate["nmea"] # "untold"
FailureTold == Honest(log)

(* The captures *)

IsCap(cmd) == cmd.what \in {"begin", "data", "end"}

\* The blocks of a connection before its command.
Before(cmd) == IF cmd.what = "data" THEN cmd.nth - 1 ELSE cmd.nth

\* The thread has stored the first n blocks of connection c, or cannot.
Stored(c, n) == /\ log.cap.armed = c
                /\ IF log.cap.open = None THEN n = 0 \/ log.cap.failed ELSE log.cap.count = n

Ready(cmd) == IF cmd.what = "begin" THEN log.cap.armed = None
              ELSE Stored(cmd.conn, Before(cmd))
Follows(a, b) == IF b.what = "begin" THEN a.what = "end"
                 ELSE a.what # "end" /\ a.conn = b.conn /\ a.nth = Before(b)

\* Nothing of a capture is under way between (or before, or behind) these.
NoneBetween(i, k) == \A j \in DOMAIN chan : i < j /\ j < k => ~IsCap(chan[j])

\* Each capture command follows the one before it, and the first of them the
\* thread; the last is where the connection is.
Linked ==
  \A k \in DOMAIN chan : IsCap(chan[k]) =>
    /\ NoneBetween(0, k) => Ready(chan[k])
    /\ \A i \in DOMAIN chan : i < k /\ IsCap(chan[i]) /\ NoneBetween(i, k)
         => Follows(chan[i], chan[k])
    /\ chan[k].conn # 0
    /\ chan[k].what = "begin" => chan[k].nth = 0
    /\ chan[k].what = "data" => chan[k].nth # 0

Tip ==
  /\ (\A i \in DOMAIN chan : ~IsCap(chan[i])) =>
       IF conn.up THEN Stored(Len(conn.sent), Last(conn.sent)) ELSE log.cap.armed = None
  /\ \A i \in DOMAIN chan : IsCap(chan[i]) /\ NoneBetween(i, Len(chan) + 1) =>
       IF conn.up THEN /\ chan[i].what # "end" /\ chan[i].conn = Len(conn.sent)
                       /\ chan[i].nth = Last(conn.sent)
       ELSE chan[i].what = "end"

EndIsLast ==
  \A i \in DOMAIN chan : chan[i].what = "end" =>
    /\ chan[i].conn \in DOMAIN conn.sent /\ chan[i].nth = conn.sent[chan[i].conn]
    /\ chan[i].conn = Len(conn.sent) => ~conn.up

Known(c) == \/ conn.sent[c] = 0 \/ c \in log.refused
            \/ \E r \in log.receipts : r.conn = c /\ r.count = conn.sent[c]
Receipted ==
  \A c \in DOMAIN conn.sent :
    \/ c = Len(conn.sent) /\ conn.up
    \/ \E i \in DOMAIN chan : chan[i].what = "end" /\ chan[i].conn = c
    \/ Known(c)

Chain == running => Linked /\ Tip /\ EndIsLast /\ Receipted

(* The files *)

CapShape == /\ log.cap.armed = None => log.cap.open = None
            /\ log.cap.open = None => log.cap.count = 0
            /\ log.cap.armed # None /\ log.cap.failed => log.cap.armed \in log.refused

FileIs == log.cap.open # None =>
            /\ log.cap.open \in DOMAIN log.disk
            /\ log.disk[log.cap.open] = Blocks(log.cap.armed, log.cap.count)
            /\ \A r \in log.receipts : r.name # log.cap.open
ReceiptsStand == \A r \in log.receipts : /\ r.name \in DOMAIN log.disk
                                         /\ log.disk[r.name] = Blocks(r.conn, r.count)
NamesPast == \A n \in DOMAIN log.disk : n <= clock

\* A file that is still to be made finds its name free.
NameFree ==
  UnderWay("begin") \/ (log.cap.armed # None /\ log.cap.open = None /\ ~log.cap.failed)
    => clock \notin DOMAIN log.disk
BeginsFirst ==
  \A i, j \in DOMAIN chan : chan[i].what = "begin" /\ chan[j].what = "data" => i < j

Files == FileIs /\ ReceiptsStand /\ NamesPast /\ NameFree /\ BeginsFirst

-------------------------------------------------------------------------------
(* What the operators of the thread do *)

Captured(l) == <<l.cap, l.disk, l.receipts, l.refused>>

LEMMA WriteLineIs ==
  ASSUME NEW s \in SinkType, NEW opens \in BOOLEAN, clock \in Nat
  PROVE  LET w == WriteLine(s, opens)
         IN /\ w.sink \in SinkType /\ w.lost \in BOOLEAN
            /\ w.sink.enabled = s.enabled
BY DEF WriteLine, SinkType, Reopened, Today, None

LEMMA FatesStay ==
  ASSUME NEW f \in Fates, NEW s \in Sinks, NEW x \in {"written", "told", "untold"}
  PROVE  /\ [f EXCEPT ![s] = x] \in Fates
         /\ \A t \in Sinks : [f EXCEPT ![s] = x][t] = IF t = s THEN x ELSE f[t]
BY DEF Fates

LEMMA NoticeIs ==
  ASSUME NEW l \in LogType, NEW opens \in BOOLEAN, clock \in Nat
  PROVE  LET n == Notice(l, opens)
         IN /\ n \in LogType /\ Captured(n) = Captured(l)
            /\ n.nmea = l.nmea /\ n.fate["nmea"] = l.fate["nmea"]
            /\ n.events.enabled = l.events.enabled
<1> DEFINE w == WriteLine(l.events, opens)
           F == Fate(l.fate["events"], w, FALSE)
           f == [l.fate EXCEPT !["events"] = F]
           e == w.sink
<1>1. w.sink \in SinkType /\ w.sink.enabled = l.events.enabled
  BY WriteLineIs DEF LogType
<1>2. l.fate \in Fates
  BY DEF LogType
<1>3. F \in {"written", "told", "untold"}
  BY DEF Fate
<1> HIDE DEF F
<1>4. f \in Fates /\ f["nmea"] = l.fate["nmea"]
  BY <1>2, <1>3, FatesStay DEF Sinks
<1>5. Notice(l, opens) = [l EXCEPT !.events = w.sink, !.fate = f]
  BY DEF Notice, F
<1> HIDE DEF w, f
<1>6. Notice(l, opens) = [l EXCEPT !.events = e, !.fate = f] /\ e \in SinkType
  BY <1>1, <1>5
<1> HIDE DEF e
<1> QED BY <1>1, <1>4, <1>6 DEF LogType, Captured, e

\* A sink that has written a line is open; one that dropped it has said so, now
\* or before.
LEMMA NmeaLine ==
  ASSUME NEW l \in LogType, NEW opens \in BOOLEAN, clock \in Nat, Honest(l)
  PROVE  LET w == WriteLine(l.nmea, opens)
             f == Fate(l.fate["nmea"], w, w.says = "failed")
         IN /\ w.sink.failed => w.sink.enabled /\ w.sink.current = None /\ f = "told"
            /\ f \in {"written", "told"}
<1> DEFINE s == l.nmea
           w == WriteLine(s, opens)
<1>0. s \in SinkType
  BY DEF LogType
<1>1. CASE ~s.enabled
  BY <1>1 DEF WriteLine, Fate, Honest
<1>2. CASE s.enabled /\ s.current = Today
  <2>1. ~s.failed
    BY <1>2 DEF Honest, Today, None
  <2>2. w.sink = [s EXCEPT !.dirty = TRUE] /\ w.lost = FALSE
    BY <1>2 DEF WriteLine
  <2> QED BY <1>0, <2>1, <2>2 DEF Fate, SinkType
<1>3. CASE s.enabled /\ s.current # Today /\ opens
  <2>1. w.sink = Reopened(s) /\ w.lost = FALSE
    BY <1>3 DEF WriteLine
  <2>2. ~Reopened(s).failed
    BY <1>0 DEF Reopened, SinkType
  <2> QED BY <2>1, <2>2 DEF Fate
<1>4. CASE s.enabled /\ s.current # Today /\ ~opens
  <2>1. /\ w.sink = [s EXCEPT !.current = None, !.dirty = FALSE, !.failed = TRUE]
        /\ w.lost = TRUE /\ w.says = IF s.failed THEN "none" ELSE "failed"
    BY <1>4 DEF WriteLine
  <2>2. w.sink.enabled /\ w.sink.current = None
    BY <1>0, <1>4, <2>1 DEF SinkType
  <2> QED BY <2>1, <2>2 DEF Fate, Honest
<1> QED BY <1>1, <1>2, <1>3, <1>4

\* A line of a sink: nothing changes of the captures, nor of what is enabled.
LEMMA LineIs ==
  ASSUME NEW l \in LogType, NEW s \in Sinks, NEW opens \in BOOLEAN, NEW other \in BOOLEAN,
         clock \in Nat, Honest(l)
  PROVE  LET n == Line(l, s, opens, other)
         IN /\ n \in LogType /\ Captured(n) = Captured(l) /\ Honest(n)
            /\ \A t \in Sinks : n[t].enabled = l[t].enabled
<1> DEFINE w == WriteLine(l[s], opens)
           F == Fate(l.fate[s], w, w.says = "failed")
           f == [l.fate EXCEPT ![s] = F]
           e == w.sink
           after == [l EXCEPT ![s] = e, !.fate = f]
<1>0. l[s] \in SinkType /\ l.fate \in Fates
  BY DEF LogType, Sinks
<1>1. e \in SinkType /\ e.enabled = l[s].enabled
  BY <1>0, WriteLineIs
<1>2. F \in {"written", "told", "untold"}
  BY DEF Fate
<1>3. [l EXCEPT ![s] = w.sink, !.fate[s] = Fate(@, w, w.says = "failed")] = after
  BY DEF Sinks
<1>4. s = "nmea" => /\ e.failed => e.enabled /\ e.current = None /\ F = "told"
                    /\ F \in {"written", "told"}
  BY NmeaLine
<1>5. Line(l, s, opens, other) = IF w.says = "rolled" THEN Notice(after, other) ELSE after
  <2> DEFINE raw == [l EXCEPT ![s] = w.sink, !.fate[s] = Fate(@, w, w.says = "failed")]
  <2>1. Line(l, s, opens, other) = IF w.says = "rolled" THEN Notice(raw, other) ELSE raw
    BY Zenon DEF Line
  <2> HIDE DEF w, after, raw
  <2>2. raw = after
    BY <1>3 DEF raw
  <2> QED BY <2>1, <2>2
<1> HIDE DEF F
<1>6. f \in Fates /\ (s = "nmea" => f["nmea"] = F) /\ (s # "nmea" => f["nmea"] = l.fate["nmea"])
  BY <1>0, <1>2, FatesStay DEF Sinks
<1> HIDE DEF f, w, e
<1>7. /\ after \in LogType /\ Captured(after) = Captured(l)
      /\ after[s] = e /\ after.fate = f /\ \A t \in Sinks \ {s} : after[t] = l[t]
  BY <1>1, <1>6 DEF LogType, Captured, Sinks
<1>8. Honest(after) /\ \A t \in Sinks : after[t].enabled = l[t].enabled
  <2>1. CASE s = "nmea"
    BY <1>1, <1>4, <1>6, <1>7, <2>1 DEF Honest, Sinks
  <2>2. CASE s # "nmea"
    BY <1>1, <1>6, <1>7, <2>2 DEF Honest, Sinks
  <2> QED BY <2>1, <2>2
<1> HIDE DEF after
<1>9. /\ Notice(after, other) \in LogType /\ Captured(Notice(after, other)) = Captured(after)
      /\ Notice(after, other).nmea = after.nmea
      /\ Notice(after, other).fate["nmea"] = after.fate["nmea"]
      /\ Notice(after, other).events.enabled = after.events.enabled
  BY <1>7, NoticeIs
<1> QED BY <1>5, <1>7, <1>8, <1>9 DEF Honest, Sinks

\* An option's command.
SetTo(l, s, on) == [l EXCEPT ![s] = SetEnabled(@, on), !.fate[s] = "written"]

LEMMA SetIs ==
  ASSUME NEW l \in LogType, NEW s \in Sinks, NEW on \in BOOLEAN, Honest(l)
  PROVE  LET n == SetTo(l, s, on)
         IN /\ n \in LogType /\ Captured(n) = Captured(l) /\ Honest(n)
            /\ n[s].enabled = on /\ \A t \in Sinks \ {s} : n[t].enabled = l[t].enabled
<1> DEFINE e == SetEnabled(l[s], on)
           f == [l.fate EXCEPT ![s] = "written"]
           n == [l EXCEPT ![s] = e, !.fate = f]
<1>0. l[s] \in SinkType /\ l.fate \in Fates
  BY DEF LogType, Sinks
<1>1. e \in SinkType /\ e.enabled = on /\ ~e.failed
  BY <1>0 DEF SetEnabled, SinkType, None
<1>2. SetTo(l, s, on) = n
  BY DEF SetTo, Sinks
<1>3. f \in Fates /\ f[s] = "written" /\ (s # "nmea" => f["nmea"] = l.fate["nmea"])
  BY <1>0, FatesStay DEF Sinks
<1> HIDE DEF f, e
<1>4. /\ n \in LogType /\ Captured(n) = Captured(l)
      /\ n[s] = e /\ n.fate = f /\ \A t \in Sinks \ {s} : n[t] = l[t]
  BY <1>1, <1>3 DEF LogType, Captured, Sinks
<1>5. Honest(n)
  BY <1>1, <1>3, <1>4 DEF Honest, Sinks
<1> QED BY <1>1, <1>2, <1>4, <1>5

\* What no capture command touches.
Options(l) == <<l.events.enabled, l.nmea, l.fate["nmea"]>>

LEMMA CloseIs ==
  ASSUME NEW l \in LogType, NEW c \in CapType, NEW opens \in BOOLEAN, clock \in Nat
  PROVE  LET n == Close(l, c, opens)
         IN /\ n \in LogType /\ Options(n) = Options(l)
            /\ n.cap = c /\ n.disk = l.disk /\ n.refused = l.refused
            /\ n.receipts = l.receipts \cup Receipt(l.cap)
<1> DEFINE R == l.receipts \cup Receipt(l.cap)
           closed == [l EXCEPT !.cap = c, !.receipts = R]
<1>1. R \in Receipts
  BY DEF LogType, CapType, Receipt, Receipts
<1>2. Close(l, c, opens) = IF l.cap.open = None THEN closed ELSE Notice(closed, opens)
  BY DEF Close
<1> HIDE DEF R
<1>3. /\ closed \in LogType /\ Options(closed) = Options(l)
      /\ closed.cap = c /\ closed.disk = l.disk /\ closed.refused = l.refused
      /\ closed.receipts = R
  BY <1>1 DEF LogType, Options
<1> HIDE DEF closed
<1>4. /\ Notice(closed, opens) \in LogType /\ Captured(Notice(closed, opens)) = Captured(closed)
      /\ Options(Notice(closed, opens)) = Options(closed)
  BY <1>3, NoticeIs DEF Options
<1> QED BY <1>2, <1>3, <1>4 DEF R, Captured

LEMMA BegunIs ==
  ASSUME NEW c \in CapType, NEW id \in Nat
  PROVE  /\ Ended(c) \in CapType /\ Ended(c).armed = None /\ Ended(c).open = None
         /\ Ended(c).count = 0 /\ Ended(c).failed = c.failed
         /\ Begun(c, id) \in CapType /\ Begun(c, id).armed = id /\ Begun(c, id).open = None
         /\ Begun(c, id).count = 0 /\ ~Begun(c, id).failed
BY DEF Ended, Begun, CapType, None

\* A block behind those a file has; a file that was made is empty before.
LEMMA StoreIs ==
  ASSUME NEW l \in LogType, NEW block \in BlockType, NEW name \in Nat,
         name \in DOMAIN l.disk
  PROVE  LET n == Store(l, block, name)
         IN /\ n \in LogType /\ Options(n) = Options(l)
            /\ n.cap.armed = l.cap.armed /\ n.cap.open = name /\ n.cap.count = l.cap.count + 1
            /\ n.cap.failed = l.cap.failed
            /\ n.receipts = l.receipts /\ n.refused = l.refused
            /\ DOMAIN n.disk = DOMAIN l.disk
            /\ n.disk[name] = Append(l.disk[name], block)
            /\ \A m \in DOMAIN l.disk \ {name} : n.disk[m] = l.disk[m]
<1> DEFINE c == [l.cap EXCEPT !.open = name, !.count = @ + 1, !.dirty = TRUE]
           d == [l.disk EXCEPT ![name] = Append(@, block)]
<1>0. l.cap \in CapType
  BY DEF LogType
<1>1. /\ c \in CapType /\ c.armed = l.cap.armed /\ c.open = name
      /\ c.count = l.cap.count + 1 /\ c.failed = l.cap.failed
  <2>1. l.cap.count + 1 \in Nat
    BY <1>0 DEF CapType
  <2> DEFINE k == l.cap.count + 1
             e == [l.cap EXCEPT !.open = name, !.count = k, !.dirty = TRUE]
  <2>2. c = e /\ k \in Nat
    BY <2>1
  <2> HIDE DEF k, c
  <2>3. /\ e \in CapType /\ e.armed = l.cap.armed /\ e.open = name
        /\ e.count = k /\ e.failed = l.cap.failed
    BY <1>0, <2>2 DEF CapType
  <2> QED BY <2>2, <2>3 DEF k
<1>2. l.disk \in [DOMAIN l.disk -> Seq(BlockType)] /\ DOMAIN l.disk \subseteq Nat
  BY DEF LogType, Disks
<1>3. Append(l.disk[name], block) \in Seq(BlockType)
  BY <1>2, AppendProperties
<1>4. /\ d \in [DOMAIN l.disk -> Seq(BlockType)]
      /\ DOMAIN d = DOMAIN l.disk /\ d[name] = Append(l.disk[name], block)
      /\ \A m \in DOMAIN l.disk \ {name} : d[m] = l.disk[m]
  BY <1>2, <1>3
<1>5. d \in Disks
  BY <1>2, <1>4 DEF Disks
<1>6. Store(l, block, name) = [l EXCEPT !.cap = c, !.disk = d]
  BY DEF Store, LogType
<1> HIDE DEF c, d
<1> QED BY <1>1, <1>4, <1>5, <1>6 DEF LogType, Options

LEMMA CreatedIs ==
  ASSUME NEW l \in LogType, clock \in Nat
  PROVE  LET n == [l EXCEPT !.disk = Created(@, clock)]
         IN /\ n \in LogType /\ Options(n) = Options(l) /\ n.cap = l.cap
            /\ n.receipts = l.receipts /\ n.refused = l.refused
            /\ DOMAIN n.disk = DOMAIN l.disk \cup {clock} /\ n.disk[clock] = <<>>
            /\ \A m \in DOMAIN l.disk \ {clock} : n.disk[m] = l.disk[m]
<1> DEFINE d == Created(l.disk, clock)
<1>1. l.disk \in [DOMAIN l.disk -> Seq(BlockType)] /\ DOMAIN l.disk \subseteq Nat
  BY DEF LogType, Disks
<1>2. /\ DOMAIN d = DOMAIN l.disk \cup {clock} /\ d[clock] = <<>>
      /\ \A m \in DOMAIN l.disk \ {clock} : d[m] = l.disk[m]
      /\ d \in [DOMAIN l.disk \cup {clock} -> Seq(BlockType)]
  BY <1>1 DEF Created
<1>3. d \in Disks
  BY <1>1, <1>2 DEF Disks
<1> HIDE DEF d
<1> QED BY <1>2, <1>3 DEF LogType, Options, d

\* The bytes of a command: stored, or the file cannot be made, or nobody wants them.
Appended(n, l, block, name) ==
  /\ n.cap.armed = l.cap.armed /\ n.cap.open = name /\ n.cap.count = l.cap.count + 1
  /\ n.receipts = l.receipts /\ n.refused = l.refused
  /\ DOMAIN n.disk = DOMAIN l.disk \cup {name}
  /\ n.disk[name] = Append(IF name \in DOMAIN l.disk THEN l.disk[name] ELSE <<>>, block)
  /\ \A m \in DOMAIN l.disk \ {name} : n.disk[m] = l.disk[m]
GivenUp(n, l) ==
  /\ n.cap.armed = l.cap.armed /\ n.cap.open = None /\ n.cap.count = l.cap.count
  /\ n.cap.failed /\ n.disk = l.disk /\ n.receipts = l.receipts
  /\ n.refused = l.refused \cup {l.cap.armed}

LEMMA DataIs ==
  ASSUME NEW l \in LogType, NEW block \in BlockType, NEW creates \in BOOLEAN,
         NEW opens \in BOOLEAN, clock \in Nat,
         l.cap.open # None => l.cap.open \in DOMAIN l.disk
  PROVE  LET n == Data(l, block, creates, opens)
             fresh == l.cap.open = None /\ l.cap.armed # None /\ ~l.cap.failed
         IN /\ n \in LogType /\ Options(n) = Options(l)
            /\ l.cap.open # None =>
                 Appended(n, l, block, l.cap.open) /\ n.cap.failed = l.cap.failed
            /\ l.cap.open = None /\ (l.cap.armed = None \/ l.cap.failed)
                 => Captured(n) = Captured(l)
            /\ fresh /\ clock \notin DOMAIN l.disk
                 => (Appended(n, l, block, clock) /\ ~n.cap.failed) \/ GivenUp(n, l)
            /\ fresh => \/ n.cap.armed = l.cap.armed /\ n.cap.open = clock
                           /\ n.cap.count = l.cap.count + 1 /\ ~n.cap.failed
                           /\ n.receipts = l.receipts /\ n.refused = l.refused
                           /\ clock \in DOMAIN n.disk
                        \/ GivenUp(n, l)
<1> DEFINE n == Data(l, block, creates, opens)
<1>0. l.cap \in CapType /\ l.refused \in SUBSET Nat
  BY DEF LogType
<1>1. CASE l.cap.open # None
  <2>1. l.cap.open \in Nat
    BY <1>0 DEF CapType
  <2>2. n = Store(l, block, l.cap.open)
    BY <1>1 DEF Data
  <2>3. DOMAIN l.disk = DOMAIN l.disk \cup {l.cap.open}
    BY <1>1
  <2> QED BY <1>1, <2>1, <2>2, <2>3, StoreIs DEF Appended
<1>2. CASE l.cap.open = None /\ (l.cap.armed = None \/ l.cap.failed)
  <2>1. n = l
    BY <1>2 DEF Data
  <2> QED BY <1>2, <2>1
<1>3. CASE l.cap.open = None /\ ~(l.cap.armed = None \/ l.cap.failed)
  <2>1. CASE creates
    <3> DEFINE made == [l EXCEPT !.disk = Created(@, clock)]
               held == Store(made, block, clock)
    <3>1. n = Notice(held, opens)
      BY <1>3, <2>1 DEF Data
    <3>2. /\ made \in LogType /\ Options(made) = Options(l) /\ made.cap = l.cap
          /\ made.receipts = l.receipts /\ made.refused = l.refused
          /\ DOMAIN made.disk = DOMAIN l.disk \cup {clock} /\ made.disk[clock] = <<>>
          /\ \A m \in DOMAIN l.disk \ {clock} : made.disk[m] = l.disk[m]
      BY CreatedIs
    <3> HIDE DEF made
    <3>3. /\ held \in LogType /\ Options(held) = Options(made)
          /\ held.cap.armed = made.cap.armed /\ held.cap.open = clock
          /\ held.cap.count = made.cap.count + 1 /\ held.cap.failed = made.cap.failed
          /\ held.receipts = made.receipts /\ held.refused = made.refused
          /\ DOMAIN held.disk = DOMAIN made.disk
          /\ held.disk[clock] = Append(made.disk[clock], block)
          /\ \A m \in DOMAIN made.disk \ {clock} : held.disk[m] = made.disk[m]
      BY <3>2, StoreIs
    <3> HIDE DEF held, n
    <3>4. n \in LogType /\ Captured(n) = Captured(held) /\ Options(n) = Options(held)
      BY <3>1, <3>3, NoticeIs DEF Options
    <3>5. n.cap = held.cap /\ n.disk = held.disk /\ n.receipts = held.receipts
          /\ n.refused = held.refused
      BY <3>4 DEF Captured
    <3>6. clock \notin DOMAIN l.disk => Appended(n, l, block, clock)
      BY <3>2, <3>3, <3>5 DEF Appended
    <3> QED BY <1>3, <3>2, <3>3, <3>4, <3>5, <3>6 DEF n
  <2>2. CASE ~creates
    <3> DEFINE R == l.refused \cup {l.cap.armed}
               c == [l.cap EXCEPT !.failed = TRUE]
               noted == [l EXCEPT !.cap = c, !.refused = R]
    <3>1. R \in SUBSET Nat
      BY <1>0 DEF CapType
    <3>2. /\ c \in CapType /\ c.armed = l.cap.armed /\ c.open = l.cap.open
          /\ c.count = l.cap.count /\ c.failed
      BY <1>0 DEF CapType
    <3>3. n = Notice(noted, opens)
      BY <1>3, <2>2 DEF Data
    <3> HIDE DEF R, c, n
    <3>4. /\ noted \in LogType /\ Options(noted) = Options(l) /\ noted.cap = c
          /\ noted.disk = l.disk /\ noted.receipts = l.receipts /\ noted.refused = R
      BY <3>1, <3>2 DEF LogType, Options
    <3> HIDE DEF noted
    <3>5. n \in LogType /\ Captured(n) = Captured(noted) /\ Options(n) = Options(noted)
      BY <3>3, <3>4, NoticeIs DEF Options
    <3>6. n.cap = c /\ n.disk = l.disk /\ n.receipts = l.receipts /\ n.refused = R
      BY <3>4, <3>5 DEF Captured
    <3>7. GivenUp(n, l)
      BY <1>3, <3>2, <3>6 DEF GivenUp, R
    <3> QED BY <1>3, <3>4, <3>5, <3>7 DEF n
  <2> QED BY <2>1, <2>2
<1> QED BY <1>1, <1>2, <1>3

\* Files that are flushed: nothing else changes.
LEMMA FlushedIs ==
  ASSUME NEW l \in LogType
  PROVE  LET n == Flushed(l)
         IN /\ n \in LogType
            /\ n.disk = l.disk /\ n.receipts = l.receipts /\ n.refused = l.refused
            /\ n.cap.armed = l.cap.armed /\ n.cap.open = l.cap.open
            /\ n.cap.count = l.cap.count /\ n.cap.failed = l.cap.failed
            /\ n.events.enabled = l.events.enabled /\ n.nmea.enabled = l.nmea.enabled
            /\ Honest(l) => Honest(n)
<1> DEFINE e == [l.events EXCEPT !.dirty = FALSE]
           m == [l.nmea EXCEPT !.dirty = FALSE]
           c == [l.cap EXCEPT !.dirty = FALSE]
<1>1. l.events \in SinkType /\ l.nmea \in SinkType /\ l.cap \in CapType
  BY DEF LogType
<1>2. e \in SinkType /\ e.enabled = l.events.enabled
  BY <1>1 DEF SinkType
<1>3. m \in SinkType /\ m.enabled = l.nmea.enabled /\ m.current = l.nmea.current
      /\ m.failed = l.nmea.failed
  BY <1>1 DEF SinkType
<1>4. /\ c \in CapType /\ c.armed = l.cap.armed /\ c.open = l.cap.open
      /\ c.count = l.cap.count /\ c.failed = l.cap.failed
  BY <1>1 DEF CapType
<1>5. Flushed(l) = [l EXCEPT !.events = e, !.nmea = m, !.cap = c]
  BY DEF Flushed, LogType
<1> HIDE DEF e, m, c
<1>6. /\ Flushed(l) \in LogType /\ Flushed(l).events = e /\ Flushed(l).nmea = m
      /\ Flushed(l).cap = c /\ Flushed(l).disk = l.disk /\ Flushed(l).receipts = l.receipts
      /\ Flushed(l).refused = l.refused /\ Flushed(l).fate = l.fate
  BY <1>2, <1>3, <1>4, <1>5 DEF LogType
<1> QED BY <1>2, <1>3, <1>4, <1>6 DEF Honest

(* One command *)

Same(n, l) == /\ n.cap.armed = l.cap.armed /\ n.cap.open = l.cap.open
              /\ n.cap.count = l.cap.count /\ n.cap.failed = l.cap.failed
              /\ n.disk = l.disk /\ n.receipts = l.receipts /\ n.refused = l.refused
Closed(n, l) == /\ n.cap.open = None /\ n.cap.count = 0
                /\ n.disk = l.disk /\ n.refused = l.refused
                /\ n.receipts = l.receipts \cup Receipt(l.cap)
Taken(n, l, block) ==
  LET fresh == l.cap.open = None /\ l.cap.armed # None /\ ~l.cap.failed
  IN  /\ l.cap.open # None =>
           Appended(n, l, block, l.cap.open) /\ n.cap.failed = l.cap.failed
      /\ l.cap.open = None /\ (l.cap.armed = None \/ l.cap.failed) => Same(n, l)
      /\ fresh /\ clock \notin DOMAIN l.disk
           => (Appended(n, l, block, clock) /\ ~n.cap.failed) \/ GivenUp(n, l)
      /\ fresh => \/ n.cap.armed = l.cap.armed /\ n.cap.open = clock
                     /\ n.cap.count = l.cap.count + 1 /\ ~n.cap.failed
                     /\ n.receipts = l.receipts /\ n.refused = l.refused
                     /\ clock \in DOMAIN n.disk
                  \/ GivenUp(n, l)

\* What a command does to the captures.
CapEffect(cmd, n, l) ==
  /\ ~IsCap(cmd) => Same(n, l)
  /\ cmd.what = "begin" => Closed(n, l) /\ n.cap.armed = cmd.conn /\ ~n.cap.failed
  /\ cmd.what = "data"  => Taken(n, l, [conn |-> cmd.conn, nth |-> cmd.nth])
  /\ cmd.what = "end"   => Closed(n, l) /\ n.cap.armed = None

OpenOnDisk(l) == l.cap.open # None => l.cap.open \in DOMAIN l.disk

LEMMA ObeyedIs ==
  ASSUME NEW l \in LogType, NEW cmd \in Cmds, cmd.what # "shutdown",
         NEW opens \in BOOLEAN, NEW other \in BOOLEAN,
         clock \in Nat, Honest(l), OpenOnDisk(l)
  PROVE  LET n == Obeyed(l, cmd, opens, other)
         IN /\ n \in LogType /\ Honest(n) /\ CapEffect(cmd, n, l)
            /\ \A s \in Sinks : n[s].enabled = IF Sets(cmd, s) THEN cmd.on ELSE l[s].enabled
<1> DEFINE n == Obeyed(l, cmd, opens, other)
<1>0. l.cap \in CapType
  BY DEF LogType
<1>1. CASE cmd.what \in Sinks
  <2>1. n = Line(l, cmd.what, opens, other)
    BY <1>1 DEF Obeyed, Sinks
  <2> HIDE DEF n
  <2>2. /\ n \in LogType /\ Captured(n) = Captured(l) /\ Honest(n)
        /\ \A t \in Sinks : n[t].enabled = l[t].enabled
    BY <1>1, <2>1, LineIs
  <2>3. CapEffect(cmd, n, l) /\ \A s \in Sinks : ~Sets(cmd, s)
    BY <1>1, <2>2 DEF CapEffect, Captured, Same, IsCap, Sinks, Sets
  <2> QED BY <2>2, <2>3 DEF n
<1>2. CASE cmd.what = "set"
  <2>1. cmd.sink \in Sinks /\ cmd.on \in BOOLEAN
    BY <1>2 DEF Cmds, SetCmds, CapCmds, Sinks
  <2>2. n = SetTo(l, cmd.sink, cmd.on)
    BY <1>2 DEF Obeyed, SetTo, Sinks
  <2> HIDE DEF n
  <2>3. /\ n \in LogType /\ Captured(n) = Captured(l) /\ Honest(n)
        /\ n[cmd.sink].enabled = cmd.on
        /\ \A t \in Sinks \ {cmd.sink} : n[t].enabled = l[t].enabled
    <3>1. \A s \in Sinks, b \in BOOLEAN :
            /\ SetTo(l, s, b) \in LogType /\ Captured(SetTo(l, s, b)) = Captured(l)
            /\ Honest(SetTo(l, s, b)) /\ SetTo(l, s, b)[s].enabled = b
            /\ \A t \in Sinks \ {s} : SetTo(l, s, b)[t].enabled = l[t].enabled
      BY SetIs
    <3> DEFINE m == SetTo(l, cmd.sink, cmd.on)
    <3>2. /\ m \in LogType /\ Captured(m) = Captured(l)
          /\ Honest(m) /\ m[cmd.sink].enabled = cmd.on
          /\ \A t \in Sinks \ {cmd.sink} : m[t].enabled = l[t].enabled
      BY <2>1, <3>1, Zenon
    <3>3. n = m
      BY <2>2
    <3> HIDE DEF m
    <3> QED BY <3>2, <3>3, Zenon
  <2>4. CapEffect(cmd, n, l) /\ \A s \in Sinks : Sets(cmd, s) <=> s = cmd.sink
    BY <1>2, <2>1, <2>3 DEF CapEffect, Captured, Same, IsCap, Sets
  <2> QED BY <2>3, <2>4 DEF n
<1>3. CASE cmd.what \in {"begin", "data", "end"}
  <2>1. cmd.conn \in Nat /\ cmd.nth \in Nat /\ \A s \in Sinks : ~Sets(cmd, s)
    BY <1>3 DEF Cmds, SetCmds, CapCmds, Sinks, Sets
  <2>2. \A m : Options(m) = Options(l) => /\ Honest(l) => Honest(m)
                                         /\ \A s \in Sinks : m[s].enabled = l[s].enabled
    BY DEF Options, Honest, Sinks
  <2>3. CASE cmd.what = "begin"
    <3>1. n = Close(l, Begun(l.cap, cmd.conn), opens)
      BY <2>3 DEF Obeyed, Sinks
    <3> HIDE DEF n
    <3>2. /\ Begun(l.cap, cmd.conn) \in CapType /\ Begun(l.cap, cmd.conn).armed = cmd.conn
          /\ Begun(l.cap, cmd.conn).open = None /\ Begun(l.cap, cmd.conn).count = 0
          /\ ~Begun(l.cap, cmd.conn).failed
      BY <1>0, <2>1, BegunIs
    <3>3. /\ n \in LogType /\ Options(n) = Options(l)
          /\ n.cap = Begun(l.cap, cmd.conn) /\ n.disk = l.disk /\ n.refused = l.refused
          /\ n.receipts = l.receipts \cup Receipt(l.cap)
      BY <3>1, <3>2, CloseIs
    <3>4. CapEffect(cmd, n, l)
      BY <2>3, <3>2, <3>3 DEF CapEffect, Closed, IsCap
    <3> QED BY <2>1, <2>2, <3>3, <3>4 DEF n
  <2>4. CASE cmd.what = "end"
    <3>1. n = Close(l, Ended(l.cap), opens)
      BY <2>4 DEF Obeyed, Sinks
    <3> HIDE DEF n
    <3>2. /\ Ended(l.cap) \in CapType /\ Ended(l.cap).armed = None
          /\ Ended(l.cap).open = None /\ Ended(l.cap).count = 0
      BY <1>0, <2>1, BegunIs
    <3>3. /\ n \in LogType /\ Options(n) = Options(l)
          /\ n.cap = Ended(l.cap) /\ n.disk = l.disk /\ n.refused = l.refused
          /\ n.receipts = l.receipts \cup Receipt(l.cap)
      BY <3>1, <3>2, CloseIs
    <3>4. CapEffect(cmd, n, l)
      BY <2>4, <3>2, <3>3 DEF CapEffect, Closed, IsCap
    <3> QED BY <2>1, <2>2, <3>3, <3>4 DEF n
  <2>5. CASE cmd.what = "data"
    <3> DEFINE b == [conn |-> cmd.conn, nth |-> cmd.nth]
    <3>1. n = Data(l, b, other, opens)
      BY <2>5 DEF Obeyed, Sinks
    <3>2. b \in BlockType
      BY <2>1 DEF BlockType
    <3> HIDE DEF n, b
    <3>3. /\ n \in LogType /\ Options(n) = Options(l) /\ Taken(n, l, b)
      BY <3>1, <3>2, DataIs DEF OpenOnDisk, Taken, Captured, Same
    <3>4. CapEffect(cmd, n, l)
      BY <2>5, <3>3 DEF CapEffect, IsCap, b
    <3> QED BY <2>1, <2>2, <3>3, <3>4 DEF n
  <2> QED BY <1>3, <2>3, <2>4, <2>5
<1> QED BY <1>1, <1>2, <1>3 DEF Cmds, SetCmds, CapCmds

(* The steps: a turn of the thread takes a command off, a sender adds some. *)

TakesOff ==
  /\ chan # <<>> /\ chan[1] \in Cmds /\ Head(chan) = chan[1] /\ chan' \in Seq(Cmds)
  /\ Len(chan') = Len(chan) - 1
  /\ \A i \in 1..Len(chan') : chan'[i] = chan[i + 1]

LEMMA TakenOff ==
  ASSUME chan \in Seq(Cmds), chan # <<>>, chan' = Tail(chan)
  PROVE  TakesOff
<1>1. chan' \in Seq(Cmds) /\ Len(chan') = Len(chan) - 1
      /\ \A i \in 1..Len(chan') : chan'[i] = chan[i + 1]
  BY HeadTailProperties
<1>2. Len(chan) \in Nat /\ Len(chan) # 0 /\ Head(chan) = chan[1]
  BY EmptySeq
<1>3. chan[1] \in Cmds
  BY <1>2
<1> QED BY <1>1, <1>2, <1>3 DEF TakesOff

Adds(cmds) ==
  /\ chan' \in Seq(Cmds) /\ Len(chan') = Len(chan) + Len(cmds)
  /\ \A i \in 1..Len(chan) : chan'[i] = chan[i]
  /\ \A k \in 1..Len(cmds) : chan'[Len(chan) + k] = cmds[k]

LEMMA Added ==
  ASSUME chan \in Seq(Cmds), NEW cmds \in Seq(Cmds), Sends(cmds)
  PROVE  Adds(cmds)
<1>1. chan' = chan \o cmds
  BY DEF Sends
<1> QED BY <1>1, ConcatProperties DEF Adds

LEMMA HandleIs ==
  ASSUME LogTypes, FailureTold, OpenOnDisk(log), Handle
  PROVE  /\ TakesOff
         /\ log' \in LogType /\ Honest(log') /\ CapEffect(chan[1], log', log)
         /\ \A s \in Sinks : log'[s].enabled =
              IF Sets(chan[1], s) THEN chan[1].on ELSE log[s].enabled
<1>1. TakesOff /\ clock \in Nat /\ log \in LogType
  BY TakenOff DEF Handle, LogTypes
<1> DEFINE cmd == chan[1]
<1>2. PICK opens \in BOOLEAN, other \in BOOLEAN :
        LET done == Obeyed(log, cmd, opens, other)
        IN  log' = IF FlushAfterCommand THEN Flushed(done) ELSE done
  BY <1>1 DEF Handle, TakesOff
<1> DEFINE done == Obeyed(log, cmd, opens, other)
<1>3. cmd \in Cmds /\ cmd.what # "shutdown"
  BY <1>1 DEF TakesOff, Handle
<1>4. log' = done \/ log' = Flushed(done)
  BY <1>2
<1> HIDE DEF cmd
<1>5. /\ done \in LogType /\ Honest(done) /\ CapEffect(cmd, done, log)
      /\ \A s \in Sinks : done[s].enabled = IF Sets(cmd, s) THEN cmd.on ELSE log[s].enabled
  BY <1>1, <1>3, ObeyedIs DEF FailureTold
<1> HIDE DEF done
<1>6. CASE log' = done
  BY <1>1, <1>5, <1>6 DEF cmd
<1>7. CASE log' = Flushed(done)
  <2>1. /\ log' \in LogType
        /\ log'.disk = done.disk /\ log'.receipts = done.receipts
        /\ log'.refused = done.refused
        /\ log'.cap.armed = done.cap.armed /\ log'.cap.open = done.cap.open
        /\ log'.cap.count = done.cap.count /\ log'.cap.failed = done.cap.failed
        /\ log'.events.enabled = done.events.enabled
        /\ log'.nmea.enabled = done.nmea.enabled
        /\ Honest(done) => Honest(log')
    BY <1>5, <1>7, FlushedIs
  <2>2. CapEffect(cmd, log', log)
    <3> DEFINE b == [conn |-> cmd.conn, nth |-> cmd.nth]
    <3> HIDE DEF b
    <3>1. Same(done, log) => Same(log', log)
      BY <2>1 DEF Same
    <3>2. Closed(done, log) => Closed(log', log)
      BY <2>1 DEF Closed
    <3>3. \A n : Appended(done, log, b, n) => Appended(log', log, b, n)
      BY <2>1 DEF Appended
    <3>4. GivenUp(done, log) => GivenUp(log', log)
      BY <2>1 DEF GivenUp
    <3>5. Taken(done, log, b) => Taken(log', log, b)
      BY <2>1, <3>1, <3>3, <3>4 DEF Taken
    <3> QED BY <1>5, <2>1, <3>1, <3>2, <3>5 DEF CapEffect, b
  <2>3. \A s \in Sinks : log'[s].enabled = done[s].enabled
    BY <2>1 DEF Sinks
  <2> QED BY <1>1, <1>5, <2>1, <2>2, <2>3 DEF cmd
<1> QED BY <1>4, <1>6, <1>7

LEMMA TimeoutIs ==
  ASSUME LogTypes, FailureTold, Timeout
  PROVE  /\ log' \in LogType /\ Honest(log') /\ Same(log', log)
         /\ \A s \in Sinks : log'[s].enabled = log[s].enabled
BY FlushedIs DEF Timeout, LogTypes, FailureTold, Same, Sinks

LEMMA QuitIs ==
  ASSUME LogTypes, FailureTold, Quit
  PROVE  /\ TakesOff
         /\ log' \in LogType /\ Honest(log') /\ Closed(log', log) /\ log'.cap.armed = None
<1>1. TakesOff /\ clock \in Nat /\ log \in LogType /\ log.cap \in CapType
  BY TakenOff DEF Quit, LogTypes, LogType
<1>2. PICK opens \in BOOLEAN : log' = Flushed(Close(log, Ended(log.cap), opens))
  BY DEF Quit
<1> DEFINE c == Ended(log.cap)
           l == Close(log, c, opens)
<1>3. c \in CapType /\ c.armed = None /\ c.open = None /\ c.count = 0
  BY <1>1, BegunIs
<1> HIDE DEF c
<1>4. /\ l \in LogType /\ Options(l) = Options(log)
      /\ l.cap = c /\ l.disk = log.disk /\ l.refused = log.refused
      /\ l.receipts = log.receipts \cup Receipt(log.cap)
  BY <1>1, <1>3, CloseIs
<1>5. Honest(l)
  BY <1>4 DEF Options, Honest, FailureTold
<1>6. log' = Flushed(l)
  BY <1>2 DEF c
<1> HIDE DEF l
<1> QED BY <1>1, <1>3, <1>4, <1>5, <1>6, FlushedIs DEF Closed

\* What Cancel sends: one command for each option that differs.
LEMMA RevertIs ==
  ASSUME LogTypes, snap # <<>>
  PROVE  /\ RevertCmds \in Seq(SetCmds)
         /\ \A k \in 1..Len(RevertCmds) : RevertCmds[k].on = snap[1][RevertCmds[k].sink]
         /\ \A s \in Sinks : opt[s] # snap[1][s] =>
              \E k \in 1..Len(RevertCmds) : RevertCmds[k].sink = s
<1> DEFINE Back(s) == IF opt[s] = snap[1][s] THEN <<>> ELSE <<SetCmd(s, snap[1][s])>>
           a == Back("events")
           b == Back("nmea")
<1>1. \A s \in Sinks : /\ SetCmd(s, snap[1][s]) \in SetCmds
                       /\ SetCmd(s, snap[1][s]).sink = s
                       /\ SetCmd(s, snap[1][s]).on = snap[1][s]
  BY DEF LogTypes, SetCmd, SetCmds
<1>2. \A s \in Sinks : /\ Back(s) \in Seq(SetCmds)
                       /\ \A k \in 1..Len(Back(s)) : Back(s)[k] = SetCmd(s, snap[1][s])
                       /\ opt[s] # snap[1][s] => Len(Back(s)) = 1
  BY <1>1
<1>3. RevertCmds = a \o b
  BY DEF RevertCmds
<1>4. "events" \in Sinks /\ "nmea" \in Sinks /\ \A s \in Sinks : s \in {"events", "nmea"}
  BY DEF Sinks
<1> DEFINE A(s) == Back(s)
<1>5. /\ a \in Seq(SetCmds) /\ \A k \in 1..Len(a) : a[k] = SetCmd("events", snap[1]["events"])
      /\ opt["events"] # snap[1]["events"] => Len(a) = 1
      /\ b \in Seq(SetCmds) /\ \A k \in 1..Len(b) : b[k] = SetCmd("nmea", snap[1]["nmea"])
      /\ opt["nmea"] # snap[1]["nmea"] => Len(b) = 1
  BY <1>2, <1>4
<1> HIDE DEF a, b
<1>6. /\ RevertCmds \in Seq(SetCmds) /\ Len(RevertCmds) = Len(a) + Len(b)
      /\ \A k \in 1..Len(RevertCmds) :
           RevertCmds[k] = IF k <= Len(a) THEN a[k] ELSE b[k - Len(a)]
  BY <1>3, <1>5, ConcatProperties
<1>7. Len(a) \in Nat /\ Len(b) \in Nat
  BY <1>5
<1>8. ASSUME NEW k \in 1..Len(RevertCmds)
      PROVE  RevertCmds[k].on = snap[1][RevertCmds[k].sink]
  <2>1. CASE k <= Len(a)
    BY <1>1, <1>4, <1>5, <1>6, <1>7, <2>1
  <2>2. CASE ~(k <= Len(a))
    <3>1. k - Len(a) \in 1..Len(b)
      BY <1>6, <1>7, <2>2
    <3> QED BY <1>1, <1>4, <1>5, <1>6, <2>2, <3>1
  <2> QED BY <2>1, <2>2
<1>9. opt["events"] # snap[1]["events"] =>
        \E k \in 1..Len(RevertCmds) : RevertCmds[k].sink = "events"
  <2> SUFFICES ASSUME opt["events"] # snap[1]["events"]
               PROVE  1 \in 1..Len(RevertCmds) /\ RevertCmds[1].sink = "events"
    OBVIOUS
  <2>1. Len(a) = 1
    BY <1>5, Zenon
  <2>2. 1 \in 1..Len(RevertCmds) /\ 1 <= Len(a) /\ 1 \in 1..Len(a)
    BY <1>6, <1>7, <2>1
  <2>3. RevertCmds[1] = a[1] /\ a[1] = SetCmd("events", snap[1]["events"])
    BY <1>5, <1>6, <2>2
  <2> QED BY <1>1, <1>4, <2>2, <2>3
<1>10. opt["nmea"] # snap[1]["nmea"] =>
        \E k \in 1..Len(RevertCmds) : RevertCmds[k].sink = "nmea"
  <2> SUFFICES ASSUME opt["nmea"] # snap[1]["nmea"]
               PROVE  /\ Len(a) + 1 \in 1..Len(RevertCmds)
                      /\ RevertCmds[Len(a) + 1].sink = "nmea"
    OBVIOUS
  <2>1. Len(b) = 1 /\ Len(a) + 1 \in 1..Len(RevertCmds) /\ ~(Len(a) + 1 <= Len(a))
        /\ Len(a) + 1 - Len(a) = 1
    <3>1. Len(b) = 1
      BY <1>5, Zenon
    <3> QED BY <1>6, <1>7, <3>1
  <2>2. RevertCmds[Len(a) + 1] = b[1] /\ b[1] = SetCmd("nmea", snap[1]["nmea"])
    BY <1>5, <1>6, <2>1
  <2> QED BY <1>1, <1>4, <2>1, <2>2
<1> QED BY <1>4, <1>6, <1>8, <1>9, <1>10

\* The senders' commands.
LEMMA SenderIs ==
  ASSUME LogTypes
  PROVE  /\ \A s \in Sinks : SendLine(s) => Adds(<<[what |-> s]>>)
         /\ Shutdown => Adds(<<[what |-> "shutdown"]>>)
         /\ \A s \in Sinks : Toggle(s) => Adds(<<SetCmd(s, ~opt[s])>>)
         /\ CancelOptions => Adds(RevertCmds)
<1>1. \A s \in Sinks : /\ <<[what |-> s]>> \in Seq(Cmds)
                       /\ <<SetCmd(s, ~opt[s])>> \in Seq(Cmds)
  BY DEF Cmds, SetCmds, SetCmd
<1>2. <<[what |-> "shutdown"]>> \in Seq(Cmds)
  BY DEF Cmds
<1>3. snap # <<>> => RevertCmds \in Seq(Cmds)
  BY RevertIs DEF Cmds
<1> QED BY <1>1, <1>2, <1>3, Added DEF LogTypes, SendLine, Shutdown, Toggle, CancelOptions

\* The worker's, which say where its connection is by then.
ConnTypes == /\ conn.sent \in Seq(Nat) /\ conn \in [up : BOOLEAN, sent : Seq(Nat)]
             /\ conn.up => conn.sent # <<>>

LEMMA BeginIs ==
  ASSUME LogTypes, BeginCapture
  PROVE  LET n == Len(conn.sent)
         IN /\ ~conn.up /\ conn'.up /\ ConnTypes'
            /\ n \in Nat /\ Len(conn'.sent) = n + 1 /\ conn'.sent[n + 1] = 0
            /\ \A c \in 1..n : conn'.sent[c] = conn.sent[c]
            /\ Adds(<<[what |-> "begin", conn |-> n + 1, nth |-> 0]>>)
<1> DEFINE n == Len(conn.sent)
           S == Append(conn.sent, 0)
           cmd == [what |-> "begin", conn |-> n + 1, nth |-> 0]
<1>1. conn.sent \in Seq(Nat) /\ n \in Nat /\ chan \in Seq(Cmds)
  BY DEF LogTypes
<1>2. /\ S \in Seq(Nat) /\ S # <<>> /\ Len(S) = n + 1 /\ S[n + 1] = 0
      /\ \A c \in 1..n : S[c] = conn.sent[c]
  BY <1>1, AppendProperties
<1> HIDE DEF S
<1>3. conn' = [up |-> TRUE, sent |-> S] /\ ~conn.up
  BY DEF BeginCapture, S
<1>4. CaptureCmd("begin") = cmd
  BY <1>2, <1>3 DEF CaptureCmd, Last
<1>5. cmd \in Cmds
  BY <1>1 DEF Cmds, CapCmds
<1> HIDE DEF cmd
<1>6. Sends(<<cmd>>) /\ <<cmd>> \in Seq(Cmds)
  BY <1>4, <1>5 DEF BeginCapture
<1>7. Adds(<<cmd>>)
  BY <1>1, <1>6, Added
<1> QED BY <1>1, <1>2, <1>3, <1>7 DEF cmd, ConnTypes

LEMMA BytesAre ==
  ASSUME LogTypes, CaptureBytes
  PROVE  LET n == Len(conn.sent)
         IN /\ conn.up /\ conn'.up /\ ConnTypes'
            /\ n \in Nat \ {0} /\ Len(conn'.sent) = n /\ conn.sent[n] \in Nat
            /\ conn'.sent[n] = conn.sent[n] + 1
            /\ \A c \in 1..n : c # n => conn'.sent[c] = conn.sent[c]
            /\ Adds(<<[what |-> "data", conn |-> n, nth |-> conn.sent[n] + 1]>>)
<1> DEFINE n == Len(conn.sent)
           S == [conn.sent EXCEPT ![n] = @ + 1]
           cmd == [what |-> "data", conn |-> n, nth |-> conn.sent[n] + 1]
<1>1. conn.sent \in Seq(Nat) /\ n \in Nat /\ chan \in Seq(Cmds) /\ conn.up
      /\ conn \in [up : BOOLEAN, sent : Seq(Nat)]
  BY DEF LogTypes, CaptureBytes
<1>2. n # 0 /\ conn.sent[n] \in Nat
  <2>1. conn.sent # <<>>
    BY DEF LogTypes, CaptureBytes
  <2> QED BY <1>1, <2>1, EmptySeq
<1>3. /\ S \in Seq(Nat) /\ Len(S) = n /\ S[n] = conn.sent[n] + 1
      /\ \A c \in 1..n : c # n => S[c] = conn.sent[c]
  BY <1>1, <1>2
<1>4. conn' = [conn EXCEPT !.sent = S]
  BY DEF CaptureBytes
<1> HIDE DEF S
<1>5. conn' = [up |-> conn.up, sent |-> S]
  BY <1>1, <1>4
<1>6. CaptureCmd("data") = cmd
  BY <1>3, <1>5 DEF CaptureCmd, Last
<1>7. cmd \in Cmds
  BY <1>1, <1>2 DEF Cmds, CapCmds
<1> HIDE DEF cmd
<1>8. Sends(<<cmd>>) /\ <<cmd>> \in Seq(Cmds)
  BY <1>6, <1>7 DEF CaptureBytes
<1>9. Adds(<<cmd>>)
  BY <1>1, <1>8, Added
<1>10. S # <<>>
  BY <1>2, <1>3
<1>11. conn'.up /\ conn'.sent = S /\ conn' \in [up : BOOLEAN, sent : Seq(Nat)]
  BY <1>1, <1>3, <1>5
<1> QED BY <1>1, <1>2, <1>3, <1>9, <1>10, <1>11 DEF cmd, ConnTypes

LEMMA EndIs ==
  ASSUME LogTypes, EndCapture
  PROVE  LET n == Len(conn.sent)
         IN /\ conn.up /\ ~conn'.up /\ ConnTypes'
            /\ n \in Nat \ {0} /\ conn'.sent = conn.sent /\ conn.sent[n] \in Nat
            /\ Adds(<<[what |-> "end", conn |-> n, nth |-> conn.sent[n]]>>)
<1> DEFINE n == Len(conn.sent)
           cmd == [what |-> "end", conn |-> n, nth |-> conn.sent[n]]
<1>1. conn.sent \in Seq(Nat) /\ n \in Nat /\ chan \in Seq(Cmds) /\ conn.up
      /\ conn \in [up : BOOLEAN, sent : Seq(Nat)]
  BY DEF LogTypes, EndCapture
<1>2. n # 0 /\ conn.sent[n] \in Nat
  <2>1. conn.sent # <<>>
    BY DEF LogTypes, EndCapture
  <2> QED BY <1>1, <2>1, EmptySeq
<1>3. conn' = [conn EXCEPT !.up = FALSE]
  BY DEF EndCapture
<1>4. ~conn'.up /\ conn'.sent = conn.sent /\ conn' \in [up : BOOLEAN, sent : Seq(Nat)]
  BY <1>1, <1>3
<1>5. CaptureCmd("end") = cmd
  BY <1>4 DEF CaptureCmd, Last
<1>6. cmd \in Cmds
  BY <1>1, <1>2 DEF Cmds, CapCmds
<1> HIDE DEF cmd
<1>7. Sends(<<cmd>>) /\ <<cmd>> \in Seq(Cmds)
  BY <1>5, <1>6 DEF EndCapture
<1>8. Adds(<<cmd>>)
  BY <1>1, <1>7, Added
<1> QED BY <1>1, <1>2, <1>4, <1>8 DEF cmd, ConnTypes

-------------------------------------------------------------------------------
(* Types, and the honesty of the sinks *)

Base == LogTypes /\ FailureTold /\ OpenOnDisk(log)

LEMMA EffectOnDisk ==
  ASSUME OpenOnDisk(log), log \in LogType, NEW cmd \in Cmds, CapEffect(cmd, log', log)
  PROVE  OpenOnDisk(log')
<1>1. Same(log', log) => OpenOnDisk(log')
  BY DEF Same, OpenOnDisk
<1>2. Closed(log', log) => OpenOnDisk(log')
  BY DEF Closed, OpenOnDisk
<1>3. \A b, n : Appended(log', log, b, n) => OpenOnDisk(log')
  BY DEF Appended, OpenOnDisk
<1>4. GivenUp(log', log) => OpenOnDisk(log')
  BY DEF GivenUp, OpenOnDisk
<1>5. \A b : Taken(log', log, b) => OpenOnDisk(log')
  BY <1>1, <1>3, <1>4 DEF Taken, OpenOnDisk
<1> QED BY <1>1, <1>2, <1>5 DEF CapEffect, IsCap

LEMMA BaseStarts == LoggerInit => Base
<1> SUFFICES ASSUME LoggerInit PROVE Base
  OBVIOUS
<1>1. \A s \in Sinks : opt[s] \in BOOLEAN
  BY DEF LoggerInit
<1>2. NewSink(opt.events) \in SinkType /\ NewSink(opt.nmea) \in SinkType
      /\ ~NewSink(opt.nmea).failed
  BY <1>1 DEF NewSink, SinkType, None, Sinks
<1>3. NewCapture \in CapType /\ NewCapture.open = None
  BY DEF NewCapture, CapType, None
<1>4. <<>> \in Disks
  <2>1. <<>> \in [{} -> Seq(BlockType)]
    OBVIOUS
  <2> QED BY <2>1 DEF Disks
<1>5. [s \in Sinks |-> "written"] \in Fates
  BY DEF Fates
<1> DEFINE e == NewSink(opt.events)
           m == NewSink(opt.nmea)
           f == [s \in Sinks |-> "written"]
<1>6. f["nmea"] = "written" /\ f \in Fates
  BY <1>5 DEF Sinks
<1>7. log = [events |-> e, nmea |-> m, cap |-> NewCapture, disk |-> <<>>,
             receipts |-> {}, refused |-> {}, fate |-> f]
  BY DEF LoggerInit, NewLog
<1> HIDE DEF e, m, f
<1>8. log \in LogType /\ log.nmea = m /\ log.fate = f /\ log.cap = NewCapture
  BY <1>2, <1>3, <1>4, <1>6, <1>7 DEF LogType, Receipts, e, m
<1>9. FailureTold
  BY <1>2, <1>6, <1>8 DEF FailureTold, Honest, m
<1>10. conn.sent \in Seq(Nat) /\ conn \in [up : BOOLEAN, sent : Seq(Nat)] /\ ~conn.up
  BY DEF LoggerInit
<1> QED BY <1>3, <1>8, <1>9, <1>10 DEF Base, LogTypes, LoggerInit, OpenOnDisk

LEMMA BaseSteps == Base /\ [LoggerNext]_loggerVars => Base'
<1> SUFFICES ASSUME Base, [LoggerNext]_loggerVars PROVE Base'
  OBVIOUS
<1> USE DEF Base
<1>0. /\ chan \in Seq(Cmds) /\ log \in LogType /\ clock \in Nat \ {0}
      /\ opt \in [Sinks -> BOOLEAN]
      /\ snap # <<>> => snap[1] \in [Sinks -> BOOLEAN]
  BY DEF LogTypes
\* The parts that most steps leave alone.
<1> DEFINE UserSame == UNCHANGED <<opt, snap>>
           ConnSame == UNCHANGED conn
           LogSame  == UNCHANGED log
<1>1. ConnSame => ConnTypes'
  BY DEF LogTypes, ConnTypes
<1>2. UserSame => /\ (opt \in [Sinks -> BOOLEAN])'
                  /\ (snap # <<>> => snap[1] \in [Sinks -> BOOLEAN])'
  BY <1>0
<1>3. LogSame => (log \in LogType /\ FailureTold /\ OpenOnDisk(log))'
  BY <1>0 DEF FailureTold, OpenOnDisk
<1>4. ASSUME log' \in LogType, Honest(log'), OpenOnDisk(log'), chan' \in Seq(Cmds),
             clock' \in Nat \ {0}, ConnTypes',
             opt' \in [Sinks -> BOOLEAN], snap' # <<>> => snap'[1] \in [Sinks -> BOOLEAN]
      PROVE  Base'
  BY <1>4 DEF LogTypes, FailureTold, ConnTypes
<1>5. CASE Handle
  <2>1. TakesOff /\ log' \in LogType /\ Honest(log') /\ CapEffect(chan[1], log', log)
    BY <1>5, HandleIs
  <2>2. OpenOnDisk(log')
    BY <1>0, <2>1, EffectOnDisk DEF TakesOff
  <2>3. ConnSame /\ UserSame /\ clock' = clock
    BY <1>5 DEF Handle
  <2> QED BY <1>0, <1>1, <1>2, <1>4, <2>1, <2>2, <2>3 DEF TakesOff
<1>6. CASE Timeout
  <2>1. log' \in LogType /\ Honest(log') /\ Same(log', log)
    BY <1>6, TimeoutIs
  <2>2. OpenOnDisk(log')
    BY <2>1 DEF Same, OpenOnDisk
  <2>3. ConnSame /\ UserSame /\ clock' = clock /\ chan' = chan
    BY <1>6 DEF Timeout
  <2> QED BY <1>0, <1>1, <1>2, <1>4, <2>1, <2>2, <2>3
<1>7. CASE Quit
  <2>1. TakesOff /\ log' \in LogType /\ Honest(log') /\ Closed(log', log)
    BY <1>7, QuitIs
  <2>2. OpenOnDisk(log')
    BY <2>1 DEF Closed, OpenOnDisk
  <2>3. ConnSame /\ UserSame /\ clock' = clock
    BY <1>7 DEF Quit
  <2> QED BY <1>0, <1>1, <1>2, <1>4, <2>1, <2>2, <2>3 DEF TakesOff
<1>8. ASSUME LogSame, chan' \in Seq(Cmds), clock' \in Nat \ {0}, ConnSame,
             opt' \in [Sinks -> BOOLEAN], snap' # <<>> => snap'[1] \in [Sinks -> BOOLEAN]
      PROVE  Base'
  BY <1>1, <1>3, <1>4, <1>8 DEF FailureTold
<1>9. CASE Deadline \/ SecondPasses \/ UNCHANGED loggerVars
  <2>1. LogSame /\ ConnSame /\ UserSame /\ chan' = chan /\ (clock' = clock \/ clock' = clock + 1)
    BY <1>9 DEF Deadline, SecondPasses, loggerVars
  <2> QED BY <1>0, <1>2, <1>8, <2>1
<1>10. CASE (\E s \in Sinks : SendLine(s)) \/ Shutdown
  <2>1. LogSame /\ ConnSame /\ UserSame /\ clock' = clock
    BY <1>10 DEF SendLine, Shutdown, Sends
  <2>2. chan' \in Seq(Cmds)
    BY <1>10, SenderIs DEF Adds
  <2> QED BY <1>0, <1>2, <1>8, <2>1, <2>2
<1>11. CASE \E s \in Toggled : Toggle(s)
  <2>1. PICK s \in Toggled : Toggle(s)
    BY <1>11
  <2>2. s \in Sinks
    BY LoggerBounds DEF Sinks
  <2>3. chan' \in Seq(Cmds)
    BY <2>1, <2>2, SenderIs DEF Adds
  <2>4. LogSame /\ ConnSame /\ clock' = clock /\ snap' = snap /\ opt' = [opt EXCEPT ![s] = ~@]
    BY <2>1 DEF Toggle, Sends
  <2>5. opt' \in [Sinks -> BOOLEAN]
    BY <1>0, <2>2, <2>4
  <2> QED BY <1>0, <1>8, <2>3, <2>4, <2>5
<1>12. CASE OpenOptions \/ KeepOptions
  <2>1. LogSame /\ ConnSame /\ clock' = clock /\ chan' = chan /\ opt' = opt
        /\ (snap' = <<>> \/ snap' = <<opt>>)
    BY <1>12 DEF OpenOptions, KeepOptions
  <2> QED BY <1>0, <1>8, <2>1
<1>13. CASE CancelOptions
  <2>1. chan' \in Seq(Cmds)
    BY <1>13, SenderIs DEF Adds
  <2>2. LogSame /\ ConnSame /\ clock' = clock /\ opt' = snap[1] /\ snap' = <<>> /\ snap # <<>>
    BY <1>13 DEF CancelOptions, Sends
  <2> QED BY <1>0, <1>8, <2>1, <2>2
<1>14. ASSUME ConnTypes', chan' \in Seq(Cmds), LogSame, UserSame, clock' = clock
       PROVE  Base'
  BY <1>0, <1>2, <1>3, <1>4, <1>14 DEF FailureTold
<1>15. CASE BeginCapture
  BY <1>14, <1>15, BeginIs DEF BeginCapture, Sends, Adds
<1>16. CASE CaptureBytes
  BY <1>14, <1>16, BytesAre DEF CaptureBytes, Sends, Adds
<1>17. CASE EndCapture
  BY <1>14, <1>17, EndIs DEF EndCapture, Sends, Adds
<1> QED BY <1>5, <1>6, <1>7, <1>9, <1>10, <1>11, <1>12, <1>13, <1>15, <1>16, <1>17
        DEF LoggerNext, Thread

-------------------------------------------------------------------------------
(* The options *)

\* Commands that say of each sink what the user wants of it now, or nothing where
\* that has not changed.
LEMMA WordsAdded ==
  ASSUME Base, LastWord, NEW cmds \in Seq(Cmds), Adds(cmds), running' = running,
         log' = log, opt' \in [Sinks -> BOOLEAN],
         \A s \in Sinks : \/ opt'[s] = opt[s] /\ \A k \in 1..Len(cmds) : ~Sets(cmds[k], s)
                          \/ /\ \E k \in 1..Len(cmds) : Sets(cmds[k], s)
                             /\ \A k \in 1..Len(cmds) : Sets(cmds[k], s) => cmds[k].on = opt'[s]
  PROVE  LastWord'
<1> SUFFICES ASSUME running', NEW s \in Sinks
             PROVE  /\ (\A i \in DOMAIN chan' : ~Sets(chan'[i], s)) => log'[s].enabled = opt'[s]
                    /\ \A i \in DOMAIN chan' :
                         Sets(chan'[i], s) /\ (\A j \in DOMAIN chan' : j > i => ~Sets(chan'[j], s))
                           => chan'[i].on = opt'[s]
  BY DEF LastWord
<1> DEFINE n == Len(chan)
           m == Len(cmds)
<1>1. /\ n \in Nat /\ m \in Nat /\ DOMAIN chan = 1..n /\ DOMAIN chan' = 1..(n + m)
      /\ DOMAIN cmds = 1..m
      /\ \A i \in 1..n : chan'[i] = chan[i] /\ i \in 1..(n + m)
      /\ \A k \in 1..m : chan'[n + k] = cmds[k] /\ n + k \in 1..(n + m)
  BY DEF Adds, Base, LogTypes
<1>2. \A i \in 1..(n + m) : i \notin 1..n => i - n \in 1..m /\ chan'[i] = cmds[i - n]
  <2> TAKE i \in 1..(n + m)
  <2> HAVE i \notin 1..n
  <2>1. i - n \in 1..m /\ n + (i - n) = i
    BY <1>1
  <2> QED BY <1>1, <2>1
<1> HIDE DEF n, m
<1>3. CASE opt'[s] = opt[s] /\ \A k \in 1..m : ~Sets(cmds[k], s)
  <2>1. \A i \in 1..(n + m) : Sets(chan'[i], s) => i \in 1..n /\ Sets(chan[i], s)
    BY <1>1, <1>2, <1>3
  <2>2. (\A i \in DOMAIN chan' : ~Sets(chan'[i], s)) => \A i \in DOMAIN chan : ~Sets(chan[i], s)
    BY <1>1
  <2>3. ASSUME NEW i \in DOMAIN chan', Sets(chan'[i], s),
               \A j \in DOMAIN chan' : j > i => ~Sets(chan'[j], s)
        PROVE  chan'[i].on = opt'[s]
    <3>1. i \in DOMAIN chan /\ Sets(chan[i], s)
      BY <1>1, <2>1, <2>3
    <3>2. \A j \in DOMAIN chan : j > i => ~Sets(chan[j], s)
      BY <1>1, <2>3
    <3>3. chan[i].on = opt[s]
      BY <3>1, <3>2 DEF LastWord
    <3> QED BY <1>1, <1>3, <3>1, <3>3
  <2>4. (\A i \in DOMAIN chan : ~Sets(chan[i], s)) => log'[s].enabled = opt'[s]
    <3>1. (\A i \in DOMAIN chan : ~Sets(chan[i], s)) => log[s].enabled = opt[s]
      BY DEF LastWord
    <3> QED BY <1>3, <3>1
  <2> QED BY <2>2, <2>3, <2>4
<1>4. CASE /\ \E k \in 1..m : Sets(cmds[k], s)
           /\ \A k \in 1..m : Sets(cmds[k], s) => cmds[k].on = opt'[s]
  <2>1. PICK k \in 1..m : Sets(cmds[k], s)
    BY <1>4
  <2>2. n + k \in DOMAIN chan' /\ Sets(chan'[n + k], s)
    BY <1>1, <2>1
  <2>3. ASSUME NEW i \in DOMAIN chan', Sets(chan'[i], s),
               \A j \in DOMAIN chan' : j > i => ~Sets(chan'[j], s)
        PROVE  chan'[i].on = opt'[s]
    <3>1. ~(n + k > i)
      BY <2>2, <2>3
    <3>2. i \in 1..(n + m) /\ i \notin 1..n
      BY <1>1, <2>1, <3>1
    <3>3. i - n \in 1..m /\ chan'[i] = cmds[i - n]
      BY <1>2, <3>2
    <3> QED BY <1>4, <2>3, <3>3
  <2> QED BY <2>2, <2>3
<1> QED BY <1>3, <1>4 DEF m

\* A command taken off: if it was the last word, the thread has it now.
LEMMA WordTaken ==
  ASSUME Base, LastWord, TakesOff, opt' = opt, running,
         \A s \in Sinks : log'[s].enabled =
              IF Sets(chan[1], s) THEN chan[1].on ELSE log[s].enabled
  PROVE  LastWord'
<1> SUFFICES ASSUME NEW s \in Sinks
             PROVE  /\ (\A i \in DOMAIN chan' : ~Sets(chan'[i], s)) => log'[s].enabled = opt'[s]
                    /\ \A i \in DOMAIN chan' :
                         Sets(chan'[i], s) /\ (\A j \in DOMAIN chan' : j > i => ~Sets(chan'[j], s))
                           => chan'[i].on = opt'[s]
  BY DEF LastWord
<1> DEFINE n == Len(chan)
<1>1. /\ n \in Nat \ {0} /\ DOMAIN chan = 1..n /\ DOMAIN chan' = 1..(n - 1)
      /\ \A i \in 1..(n - 1) : chan'[i] = chan[i + 1] /\ i + 1 \in 1..n
  <2>1. n \in Nat /\ DOMAIN chan = 1..n /\ Len(chan') \in Nat /\ DOMAIN chan' = 1..Len(chan')
        /\ Len(chan') = n - 1
    BY DEF TakesOff, Base, LogTypes
  <2> QED BY <2>1 DEF TakesOff
<1>2. \A i \in 1..n : i # 1 => i - 1 \in 1..(n - 1) /\ chan'[i - 1] = chan[i]
  <2> TAKE i \in 1..n
  <2> HAVE i # 1
  <2>1. i - 1 \in 1..(n - 1) /\ (i - 1) + 1 = i
    BY <1>1
  <2> QED BY <1>1, <2>1
<1> HIDE DEF n
<1>3. ASSUME \A i \in DOMAIN chan' : ~Sets(chan'[i], s)
      PROVE  log'[s].enabled = opt'[s]
  <2>1. \A i \in DOMAIN chan : i # 1 => ~Sets(chan[i], s)
    BY <1>1, <1>2, <1>3
  <2>2. CASE Sets(chan[1], s)
    <3>1. 1 \in DOMAIN chan /\ \A j \in DOMAIN chan : j > 1 => ~Sets(chan[j], s)
      BY <1>1, <2>1
    <3>2. chan[1].on = opt[s]
      BY <2>2, <3>1 DEF LastWord
    <3> QED BY <2>2, <3>2
  <2>3. CASE ~Sets(chan[1], s)
    <3>1. \A i \in DOMAIN chan : ~Sets(chan[i], s)
      BY <2>1, <2>3
    <3>2. log[s].enabled = opt[s]
      BY <3>1 DEF LastWord
    <3> QED BY <2>3, <3>2
  <2> QED BY <2>2, <2>3
<1>4. ASSUME NEW i \in DOMAIN chan', Sets(chan'[i], s),
             \A j \in DOMAIN chan' : j > i => ~Sets(chan'[j], s)
      PROVE  chan'[i].on = opt'[s]
  <2>1. i \in 1..(n - 1) /\ i + 1 \in DOMAIN chan /\ chan'[i] = chan[i + 1]
    BY <1>1
  <2>2. ASSUME NEW j \in DOMAIN chan, j > i + 1 PROVE ~Sets(chan[j], s)
    <3>1. j # 1 /\ j - 1 \in 1..(n - 1) /\ chan'[j - 1] = chan[j] /\ j - 1 > i
      BY <1>1, <1>2, <2>1, <2>2
    <3> QED BY <1>1, <1>4, <3>1
  <2>3. chan[i + 1].on = opt[s]
    BY <1>4, <2>1, <2>2 DEF LastWord
  <2> QED BY <2>1, <2>3
<1> QED BY <1>3, <1>4

LEMMA WordsStart == LoggerInit => LastWord
<1> SUFFICES ASSUME LoggerInit PROVE LastWord
  OBVIOUS
<1>1. chan = <<>> /\ DOMAIN chan = {}
  BY DEF LoggerInit
<1>2. log.events = NewSink(opt.events) /\ log.nmea = NewSink(opt.nmea)
  BY DEF LoggerInit, NewLog
<1>3. \A s \in Sinks : log[s].enabled = opt[s]
  BY <1>2 DEF NewSink, Sinks
<1> QED BY <1>1, <1>3 DEF LastWord

LEMMA WordsStep == Base /\ LastWord /\ [LoggerNext]_loggerVars => LastWord'
<1> SUFFICES ASSUME Base, LastWord, [LoggerNext]_loggerVars PROVE LastWord'
  OBVIOUS
<1>0. opt \in [Sinks -> BOOLEAN] /\ chan \in Seq(Cmds) /\ LogTypes
  BY DEF Base, LogTypes
<1>1. ASSUME chan' = chan, running' = running, opt' = opt,
             \A s \in Sinks : log'[s].enabled = log[s].enabled
      PROVE  LastWord'
  BY <1>1 DEF LastWord
<1>2. CASE Handle
  <2>1. /\ TakesOff
        /\ \A s \in Sinks : log'[s].enabled =
             IF Sets(chan[1], s) THEN chan[1].on ELSE log[s].enabled
    BY <1>2, HandleIs DEF Base
  <2> QED BY <1>2, <2>1, WordTaken DEF Handle
<1>3. CASE Timeout
  BY <1>1, <1>3, TimeoutIs DEF Base, Timeout
<1>4. CASE Quit
  BY <1>4 DEF Quit, LastWord
<1>5. CASE Deadline \/ SecondPasses \/ UNCHANGED loggerVars \/ OpenOptions \/ KeepOptions
  <2>1. chan' = chan /\ running' = running /\ opt' = opt /\ log' = log
    BY <1>5 DEF Deadline, SecondPasses, loggerVars, OpenOptions, KeepOptions
  <2> QED BY <1>1, <2>1
\* One command that is no word on a sink.
<1>6. ASSUME NEW cmd \in Cmds, cmd.what # "set", Adds(<<cmd>>),
             running' = running, log' = log, opt' = opt
      PROVE  LastWord'
  <2> DEFINE cmds == <<cmd>>
  <2>1. cmds \in Seq(Cmds) /\ Len(cmds) = 1 /\ cmds[1] = cmd
    OBVIOUS
  <2>2. Adds(cmds)
    BY <1>6
  <2> HIDE DEF cmds
  <2>3. \A s \in Sinks, k \in 1..Len(cmds) : ~Sets(cmds[k], s)
    BY <1>6, <2>1 DEF Sets
  <2> QED BY <1>0, <1>6, <2>1, <2>2, <2>3, WordsAdded
<1>7. CASE (\E s \in Sinks : SendLine(s)) \/ Shutdown
  <2>1. log' = log /\ opt' = opt /\ running' = running
    BY <1>7 DEF SendLine, Shutdown, Sends
  <2>2. PICK w \in Sinks \cup {"shutdown"} : Adds(<<[what |-> w]>>)
    BY <1>0, <1>7, SenderIs
  <2>3. [what |-> w] \in Cmds /\ [what |-> w].what # "set"
    BY DEF Cmds, Sinks
  <2> QED BY <1>6, <2>1, <2>2, <2>3
<1>8. CASE \E s \in Toggled : Toggle(s)
  <2>1. PICK s \in Toggled : Toggle(s)
    BY <1>8
  <2>2. s \in Sinks
    BY LoggerBounds DEF Sinks
  <2> DEFINE on == ~opt[s]
             cmds == <<SetCmd(s, on)>>
  <2>3. Adds(cmds) /\ log' = log /\ running' = running /\ opt' = [opt EXCEPT ![s] = on]
    BY <1>0, <2>1, <2>2, SenderIs DEF Toggle, Sends
  <2>4. on \in BOOLEAN
    BY <1>0, <2>2
  <2>5. SetCmd(s, on) \in Cmds /\ SetCmd(s, on).what = "set" /\ SetCmd(s, on).sink = s
    BY <2>2, <2>4 DEF Cmds, SetCmds, SetCmd
  <2>6. SetCmd(s, on).on = on
    BY DEF SetCmd
  <2> HIDE DEF on
  <2>7. cmds \in Seq(Cmds) /\ Len(cmds) = 1 /\ cmds[1] = SetCmd(s, on)
    BY <2>5
  <2> HIDE DEF cmds
  <2>8. opt' \in [Sinks -> BOOLEAN] /\ opt'[s] = on /\ \A t \in Sinks \ {s} : opt'[t] = opt[t]
    BY <1>0, <2>2, <2>3, <2>4
  <2>9. ASSUME NEW t \in Sinks
        PROVE  \/ opt'[t] = opt[t] /\ \A k \in 1..Len(cmds) : ~Sets(cmds[k], t)
               \/ /\ \E k \in 1..Len(cmds) : Sets(cmds[k], t)
                  /\ \A k \in 1..Len(cmds) : Sets(cmds[k], t) => cmds[k].on = opt'[t]
    <3>1. CASE t = s
      <4>1. Sets(cmds[1], t) /\ cmds[1].on = opt'[t] /\ 1 \in 1..Len(cmds)
            /\ \A k \in 1..Len(cmds) : k = 1
        BY <2>5, <2>6, <2>7, <2>8, <3>1 DEF Sets
      <4> QED BY <4>1
    <3>2. CASE t # s
      <4>1. \A k \in 1..Len(cmds) : ~Sets(cmds[k], t)
        BY <2>5, <2>7, <3>2 DEF Sets
      <4> QED BY <2>8, <3>2, <4>1
    <3> QED BY <3>1, <3>2
  <2> QED BY <2>3, <2>7, <2>8, <2>9, WordsAdded
<1>9. CASE CancelOptions
  <2>1. /\ Adds(RevertCmds) /\ snap # <<>> /\ opt' = snap[1]
        /\ log' = log /\ running' = running
    BY <1>0, <1>9, SenderIs DEF CancelOptions, Sends
  <2>2. opt' \in [Sinks -> BOOLEAN]
    BY <1>0, <2>1 DEF LogTypes
  <2> DEFINE cmds == RevertCmds
  <2>3. /\ cmds \in Seq(SetCmds) /\ cmds \in Seq(Cmds)
        /\ \A k \in 1..Len(cmds) : cmds[k].on = opt'[cmds[k].sink]
        /\ \A s \in Sinks : opt[s] # opt'[s] => \E k \in 1..Len(cmds) : cmds[k].sink = s
    BY <1>0, <2>1, RevertIs DEF Cmds
  <2> HIDE DEF cmds
  <2>4. \A k \in 1..Len(cmds) : cmds[k].what = "set"
    <3>1. \A x \in SetCmds : x.what = "set"
      BY DEF SetCmds
    <3> QED BY <2>3, <3>1
  <2>5. ASSUME NEW t \in Sinks
        PROVE  \/ opt'[t] = opt[t] /\ \A k \in 1..Len(cmds) : ~Sets(cmds[k], t)
               \/ /\ \E k \in 1..Len(cmds) : Sets(cmds[k], t)
                  /\ \A k \in 1..Len(cmds) : Sets(cmds[k], t) => cmds[k].on = opt'[t]
    <3>1. \A k \in 1..Len(cmds) : Sets(cmds[k], t) => cmds[k].on = opt'[t]
      BY <2>3 DEF Sets
    <3>2. (\E k \in 1..Len(cmds) : cmds[k].sink = t) => \E k \in 1..Len(cmds) : Sets(cmds[k], t)
      BY <2>4 DEF Sets
    <3>3. CASE \E k \in 1..Len(cmds) : Sets(cmds[k], t)
      BY <3>1, <3>3
    <3>4. CASE ~\E k \in 1..Len(cmds) : Sets(cmds[k], t)
      <4>1. ~(opt[t] # opt'[t])
        BY <2>3, <3>2, <3>4, Zenon
      <4> QED BY <3>4, <4>1, Zenon
    <3> QED BY <3>3, <3>4
  <2>6. Adds(cmds)
    BY <2>1 DEF cmds
  <2> QED BY <2>1, <2>2, <2>3, <2>5, <2>6, WordsAdded
<1>10. \A w \in {"begin", "data", "end"}, c, n \in Nat :
         /\ [what |-> w, conn |-> c, nth |-> n] \in Cmds
         /\ [what |-> w, conn |-> c, nth |-> n].what # "set"
  BY DEF Cmds, CapCmds
<1>11. CASE BeginCapture
  <2>1. log' = log /\ opt' = opt /\ running' = running
    BY <1>11 DEF BeginCapture, Sends
  <2>2. LET n == Len(conn.sent)
        IN n \in Nat /\ n + 1 \in Nat /\ Adds(<<[what |-> "begin", conn |-> n + 1, nth |-> 0]>>)
    BY <1>0, <1>11, BeginIs
  <2> QED BY <1>6, <1>10, <2>1, <2>2
<1>12. CASE CaptureBytes
  <2>1. log' = log /\ opt' = opt /\ running' = running
    BY <1>12 DEF CaptureBytes, Sends
  <2>2. LET n == Len(conn.sent)
        IN /\ n \in Nat /\ conn.sent[n] + 1 \in Nat
           /\ Adds(<<[what |-> "data", conn |-> n, nth |-> conn.sent[n] + 1]>>)
    BY <1>0, <1>12, BytesAre
  <2> QED BY <1>6, <1>10, <2>1, <2>2
<1>13. CASE EndCapture
  <2>1. log' = log /\ opt' = opt /\ running' = running
    BY <1>13 DEF EndCapture, Sends
  <2>2. LET n == Len(conn.sent)
        IN /\ n \in Nat /\ conn.sent[n] \in Nat
           /\ Adds(<<[what |-> "end", conn |-> n, nth |-> conn.sent[n]]>>)
    BY <1>0, <1>13, EndIs
  <2> QED BY <1>6, <1>10, <2>1, <2>2
<1> QED BY <1>2, <1>3, <1>4, <1>5, <1>7, <1>8, <1>9, <1>11, <1>12, <1>13
        DEF LoggerNext, Thread

\* What the user is told of the logs is so: once the thread has caught up with the
\* Options dialog, however it was toggled and cancelled, each sink is enabled as
\* the settings say; and no line of the receiver's log was dropped without the
\* user having been told.
THEOREM HonestAboutLogs == LoggerSpec => []LogIsHonest
<1>1. LoggerInit => Base /\ LastWord
  BY BaseStarts, WordsStart
<1>2. Base /\ LastWord /\ [LoggerNext]_loggerVars => (Base /\ LastWord)'
  BY BaseSteps, WordsStep
<1>3. Base /\ LastWord => LogIsHonest
  <2> SUFFICES ASSUME Base, LastWord PROVE LogIsHonest
    OBVIOUS
  <2>1. NmeaLossIsTold
    BY DEF NmeaLossIsTold, Base, FailureTold, Honest
  <2>2. OptionsInForce
    BY DEF OptionsInForce, UnderWay, LastWord, Sets
  <2> QED BY <2>1, <2>2 DEF LogIsHonest
<1> QED BY <1>1, <1>2, <1>3, PTL DEF LoggerSpec

-------------------------------------------------------------------------------
(* The captures: what each kind of step does to them *)

\* A step that neither sends nor takes a command.
Idle == /\ chan' = chan /\ conn' = conn /\ running' = running /\ Same(log', log)
        /\ clock' = clock \/ clock' = clock + 1
\* ... and one that sends commands that are nothing to a capture.
Chatter == \E cmds \in Seq(Cmds) :
             /\ Adds(cmds) /\ \A k \in 1..Len(cmds) : ~IsCap(cmds[k])
             /\ log' = log /\ conn' = conn /\ running' = running /\ clock' = clock

LEMMA StepKinds ==
  ASSUME Base, [LoggerNext]_loggerVars
  PROVE  \/ Handle \/ Quit \/ Idle \/ Chatter
         \/ BeginCapture \/ CaptureBytes \/ EndCapture
<1>0. opt \in [Sinks -> BOOLEAN] /\ chan \in Seq(Cmds) /\ LogTypes
  BY DEF Base, LogTypes
<1>1. CASE Timeout
  <2>1. Same(log', log)
    BY <1>1, TimeoutIs DEF Base
  <2> QED BY <1>1, <2>1 DEF Timeout, Idle
<1>2. CASE Deadline \/ SecondPasses \/ UNCHANGED loggerVars \/ OpenOptions \/ KeepOptions
  BY <1>2 DEF Deadline, SecondPasses, loggerVars, OpenOptions, KeepOptions, Idle, Same
<1>3. ASSUME NEW cmd \in Cmds, ~IsCap(cmd), Adds(<<cmd>>),
             log' = log, conn' = conn, running' = running, clock' = clock
      PROVE  Chatter
  <2> DEFINE cmds == <<cmd>>
  <2>1. cmds \in Seq(Cmds) /\ Len(cmds) = 1 /\ cmds[1] = cmd /\ Adds(cmds)
    BY <1>3
  <2> HIDE DEF cmds
  <2>2. \A k \in 1..Len(cmds) : ~IsCap(cmds[k])
    BY <1>3, <2>1
  <2> QED BY <1>3, <2>1, <2>2 DEF Chatter
<1>4. CASE (\E s \in Sinks : SendLine(s)) \/ Shutdown
  <2>1. log' = log /\ conn' = conn /\ running' = running /\ clock' = clock
    BY <1>4 DEF SendLine, Shutdown, Sends
  <2>2. PICK w \in Sinks \cup {"shutdown"} : Adds(<<[what |-> w]>>)
    BY <1>0, <1>4, SenderIs
  <2>3. [what |-> w] \in Cmds /\ ~IsCap([what |-> w])
    BY DEF Cmds, Sinks, IsCap
  <2> QED BY <1>3, <2>1, <2>2, <2>3
<1>5. CASE \E s \in Toggled : Toggle(s)
  <2>1. PICK s \in Toggled : Toggle(s)
    BY <1>5
  <2>2. s \in Sinks
    BY LoggerBounds DEF Sinks
  <2> DEFINE cmd == SetCmd(s, ~opt[s])
  <2>3. /\ Adds(<<cmd>>) /\ log' = log /\ conn' = conn /\ running' = running
        /\ clock' = clock
    BY <1>0, <2>1, <2>2, SenderIs DEF Toggle, Sends
  <2>4. cmd \in Cmds /\ ~IsCap(cmd)
    BY <2>2 DEF Cmds, SetCmds, SetCmd, IsCap
  <2> HIDE DEF cmd
  <2> QED BY <1>3, <2>3, <2>4
<1>6. CASE CancelOptions
  <2>1. /\ Adds(RevertCmds) /\ snap # <<>> /\ log' = log /\ conn' = conn
        /\ running' = running /\ clock' = clock
    BY <1>0, <1>6, SenderIs DEF CancelOptions, Sends
  <2>2. RevertCmds \in Seq(SetCmds)
    BY <1>0, <2>1, RevertIs
  <2>3. \A x \in SetCmds : ~IsCap(x) /\ x \in Cmds
    BY DEF SetCmds, IsCap, Cmds
  <2> DEFINE cmds == RevertCmds
  <2>4. cmds \in Seq(SetCmds) /\ Adds(cmds)
    BY <2>1, <2>2
  <2> HIDE DEF cmds
  <2>5. cmds \in Seq(Cmds) /\ \A k \in 1..Len(cmds) : ~IsCap(cmds[k])
    BY <2>3, <2>4
  <2> QED BY <2>1, <2>4, <2>5 DEF Chatter
<1> QED BY <1>1, <1>2, <1>4, <1>5, <1>6 DEF LoggerNext, Thread

LEMMA Grows ==
  ASSUME chan \in Seq(Cmds), NEW cmds \in Seq(Cmds), Adds(cmds)
  PROVE  LET n == Len(chan)
         IN /\ n \in Nat /\ Len(cmds) \in Nat /\ DOMAIN chan = 1..n
            /\ Len(chan') = n + Len(cmds) /\ DOMAIN chan' = 1..(n + Len(cmds))
            /\ \A i \in 1..n : i \in DOMAIN chan' /\ chan'[i] = chan[i]
            /\ \A i \in DOMAIN chan' : i \notin 1..n =>
                 i > n /\ i - n \in 1..Len(cmds) /\ chan'[i] = cmds[i - n]
<1> DEFINE n == Len(chan)
           m == Len(cmds)
<1>1. /\ n \in Nat /\ m \in Nat /\ DOMAIN chan = 1..n /\ Len(chan') = n + m
      /\ DOMAIN chan' = 1..(n + m)
      /\ \A i \in 1..n : chan'[i] = chan[i] /\ i \in 1..(n + m)
      /\ \A k \in 1..m : chan'[n + k] = cmds[k]
  BY DEF Adds
<1>2. ASSUME NEW i \in 1..(n + m), i \notin 1..n
      PROVE  i > n /\ i - n \in 1..m /\ chan'[i] = cmds[i - n]
  <2>1. i > n /\ i - n \in 1..m /\ n + (i - n) = i
    BY <1>1, <1>2
  <2> QED BY <1>1, <2>1
<1> QED BY <1>1, <1>2

LEMMA GrowsByOne ==
  ASSUME chan \in Seq(Cmds), NEW cmd \in Cmds, Adds(<<cmd>>)
  PROVE  LET n == Len(chan)
         IN /\ n \in Nat /\ DOMAIN chan = 1..n
            /\ Len(chan') = n + 1 /\ DOMAIN chan' = 1..(n + 1)
            /\ \A i \in 1..n : i \in DOMAIN chan' /\ chan'[i] = chan[i]
            /\ chan'[n + 1] = cmd
<1> DEFINE cmds == <<cmd>>
<1>1. cmds \in Seq(Cmds) /\ Len(cmds) = 1 /\ cmds[1] = cmd /\ Adds(cmds)
  OBVIOUS
<1> HIDE DEF cmds
<1>2. /\ Len(chan) \in Nat /\ DOMAIN chan = 1..Len(chan) /\ Len(chan') = Len(chan) + 1
      /\ DOMAIN chan' = 1..(Len(chan) + 1)
      /\ \A i \in 1..Len(chan) : i \in DOMAIN chan' /\ chan'[i] = chan[i]
  BY <1>1, Grows
<1>3. chan'[Len(chan) + 1] = cmd
  BY <1>1 DEF Adds
<1> QED BY <1>2, <1>3

LEMMA Shrinks ==
  ASSUME chan \in Seq(Cmds), TakesOff
  PROVE  LET n == Len(chan)
         IN /\ n \in Nat \ {0} /\ DOMAIN chan = 1..n /\ Len(chan') = n - 1
            /\ DOMAIN chan' = 1..(n - 1)
            /\ \A i \in 1..(n - 1) : i + 1 \in 1..n /\ chan'[i] = chan[i + 1]
            /\ \A i \in 1..n : i # 1 => i - 1 \in 1..(n - 1) /\ chan'[i - 1] = chan[i]
<1> DEFINE n == Len(chan)
<1>1. /\ n \in Nat \ {0} /\ DOMAIN chan = 1..n /\ Len(chan') = n - 1 /\ DOMAIN chan' = 1..(n - 1)
      /\ \A i \in 1..(n - 1) : chan'[i] = chan[i + 1] /\ i + 1 \in 1..n
  <2>1. n \in Nat /\ DOMAIN chan = 1..n /\ Len(chan') \in Nat /\ DOMAIN chan' = 1..Len(chan')
        /\ Len(chan') = n - 1
    BY DEF TakesOff
  <2> QED BY <2>1 DEF TakesOff
<1>2. ASSUME NEW i \in 1..n, i # 1
      PROVE  i - 1 \in 1..(n - 1) /\ chan'[i - 1] = chan[i]
  <2>1. i - 1 \in 1..(n - 1) /\ (i - 1) + 1 = i
    BY <1>1, <1>2
  <2> QED BY <1>1, <2>1
<1> QED BY <1>1, <1>2

\* The thread's captures stand as they did.
LEMMA ReadyStays ==
  ASSUME Same(log', log)
  PROVE  /\ \A c, n : Stored(c, n)' <=> Stored(c, n)
         /\ \A cmd : Ready(cmd)' <=> Ready(cmd)
<1>1. \A c, n : Stored(c, n)' <=> Stored(c, n)
  BY DEF Stored, Same
<1> QED BY <1>1 DEF Ready, Same

LEMMA ChainIdle ==
  ASSUME Base, Chain, Idle
  PROVE  Chain'
<1>1. chan' = chan /\ conn' = conn /\ running' = running /\ Same(log', log)
  BY DEF Idle
<1>2. Linked => Linked'
  BY <1>1, ReadyStays DEF Linked, NoneBetween
<1>3. Tip => Tip'
  BY <1>1, ReadyStays DEF Tip, NoneBetween, Same
<1>4. EndIsLast => EndIsLast'
  BY <1>1 DEF EndIsLast
<1>5. Receipted => Receipted'
  BY <1>1 DEF Receipted, Known, Same
<1> QED BY <1>1, <1>2, <1>3, <1>4, <1>5 DEF Chain

LEMMA ChainChatter ==
  ASSUME Base, Chain, Chatter
  PROVE  Chain'
<1> SUFFICES ASSUME running, Linked, Tip, EndIsLast, Receipted
             PROVE  Linked' /\ Tip' /\ EndIsLast' /\ Receipted'
  BY DEF Chain, Chatter
<1>0. chan \in Seq(Cmds)
  BY DEF Base, LogTypes
<1>1. PICK cmds \in Seq(Cmds) :
        /\ Adds(cmds) /\ \A k \in 1..Len(cmds) : ~IsCap(cmds[k])
        /\ log' = log /\ conn' = conn
  BY DEF Chatter
<1> DEFINE n == Len(chan)
<1>a. PICK N : N = Len(chan')
  OBVIOUS
<1>2. /\ n \in Nat /\ DOMAIN chan = 1..n /\ N \in Nat /\ N >= n /\ DOMAIN chan' = 1..N
      /\ \A i \in 1..n : i \in 1..N /\ chan'[i] = chan[i]
  BY <1>0, <1>1, <1>a, Grows
<1>3. \A i \in 1..N : IsCap(chan'[i]) => i \in 1..n
  BY <1>0, <1>1, <1>2, <1>a, Grows
<1> HIDE DEF n
<1>4. \A i, k : NoneBetween(i, k)' => NoneBetween(i, k)
  BY <1>2 DEF NoneBetween
<1>5. \A i \in Nat : NoneBetween(i, N + 1)' => NoneBetween(i, n + 1)
  BY <1>2 DEF NoneBetween
<1>6. /\ \A c, m : Stored(c, m)' <=> Stored(c, m)
      /\ \A cmd : Ready(cmd)' <=> Ready(cmd)
  BY <1>1, ReadyStays DEF Same
<1>7. Linked'
  <2> SUFFICES ASSUME NEW k \in 1..N, IsCap(chan'[k])
               PROVE  /\ NoneBetween(0, k)' => Ready(chan[k])'
                      /\ \A i \in 1..N : i < k /\ IsCap(chan'[i]) /\ NoneBetween(i, k)'
                           => Follows(chan'[i], chan'[k])
                      /\ chan'[k].conn # 0
                      /\ chan'[k].what = "begin" => chan'[k].nth = 0
                      /\ chan'[k].what = "data" => chan'[k].nth # 0
    BY <1>2 DEF Linked
  <2>1. k \in 1..n /\ chan'[k] = chan[k] /\ IsCap(chan[k])
    BY <1>2, <1>3
  <2>2. \A i \in 1..N : IsCap(chan'[i]) => i \in 1..n /\ chan'[i] = chan[i] /\ IsCap(chan[i])
    BY <1>2, <1>3
  <2> QED BY <1>2, <1>4, <1>6, <2>1, <2>2 DEF Linked
<1>8. Tip'
  <2>1. (\A i \in 1..N : ~IsCap(chan'[i])) => \A i \in 1..n : ~IsCap(chan[i])
    BY <1>2
  <2>2. ASSUME NEW i \in 1..N, IsCap(chan'[i]), NoneBetween(i, N + 1)'
        PROVE  i \in 1..n /\ chan'[i] = chan[i] /\ IsCap(chan[i]) /\ NoneBetween(i, n + 1)
    BY <1>2, <1>3, <1>5, <2>2
  <2>3. (\A i \in 1..n : ~IsCap(chan[i])) =>
          IF conn.up THEN Stored(Len(conn.sent), Last(conn.sent)) ELSE log.cap.armed = None
    BY <1>2 DEF Tip
  <2>4. \A i \in 1..n : IsCap(chan[i]) /\ NoneBetween(i, n + 1) =>
          IF conn.up THEN /\ chan[i].what # "end" /\ chan[i].conn = Len(conn.sent)
                          /\ chan[i].nth = Last(conn.sent)
          ELSE chan[i].what = "end"
    BY <1>2 DEF Tip, n
  <2>5. (\A i \in DOMAIN chan' : ~IsCap(chan'[i])) =>
          IF conn'.up THEN Stored(Len(conn.sent), Last(conn.sent))' ELSE log'.cap.armed = None
    BY <1>1, <1>2, <1>6, <2>1, <2>3
  <2>6. \A i \in DOMAIN chan' : IsCap(chan'[i]) /\ NoneBetween(i, Len(chan) + 1)' =>
          IF conn'.up THEN /\ chan'[i].what # "end" /\ chan'[i].conn = Len(conn'.sent)
                           /\ chan'[i].nth = Last(conn'.sent)
          ELSE chan'[i].what = "end"
    BY <1>1, <1>2, <1>a, <2>2, <2>4
  <2> QED BY <2>5, <2>6 DEF Tip
<1>9. EndIsLast'
  <2>1. \A i \in 1..N : chan'[i].what = "end" => i \in 1..n /\ chan'[i] = chan[i]
    BY <1>2, <1>3 DEF IsCap
  <2> QED BY <1>1, <1>2, <2>1 DEF EndIsLast
<1>10. Receipted'
  BY <1>1, <1>2 DEF Receipted, Known
<1> QED BY <1>7, <1>8, <1>9, <1>10

\* Each command finds the capture as its sender left it, and leaves it so to the
\* next one.
LEMMA AfterCommand ==
  ASSUME Base, CapShape, NEW cmd \in Cmds, IsCap(cmd), Ready(cmd), cmd.conn # 0,
         cmd.what = "begin" => cmd.nth = 0, cmd.what = "data" => cmd.nth # 0,
         CapEffect(cmd, log', log)
  PROVE  IF cmd.what = "end" THEN log'.cap.armed = None ELSE Stored(cmd.conn, cmd.nth)'
<1>1. cmd.conn \in Nat /\ cmd.nth \in Nat /\ clock # None
  BY DEF IsCap, Cmds, SetCmds, CapCmds, Sinks, Base, LogTypes, None
<1>2. CASE cmd.what = "end"
  BY <1>2 DEF CapEffect
<1>3. CASE cmd.what = "begin"
  BY <1>3 DEF CapEffect, Closed, Stored
<1>4. CASE cmd.what = "data"
  <2> DEFINE b == [conn |-> cmd.conn, nth |-> cmd.nth]
  <2>1. /\ log.cap.armed = cmd.conn /\ log.cap.armed # None
        /\ IF log.cap.open = None THEN cmd.nth - 1 = 0 \/ log.cap.failed
           ELSE log.cap.count = cmd.nth - 1
    BY <1>4 DEF Ready, Stored, Before, None
  <2>2. Taken(log', log, b)
    BY <1>4 DEF CapEffect
  <2> HIDE DEF b
  <2>3. CASE log.cap.open # None
    <3>1. Appended(log', log, b, log.cap.open)
      BY <2>2, <2>3 DEF Taken
    <3>2. log'.cap.armed = cmd.conn /\ log'.cap.open # None /\ log'.cap.count = cmd.nth
      BY <1>1, <2>1, <2>3, <3>1 DEF Appended
    <3> QED BY <1>4, <3>2 DEF Stored
  <2>4. CASE log.cap.open = None /\ log.cap.failed
    <3>1. Same(log', log)
      BY <2>2, <2>4 DEF Taken
    <3> QED BY <1>4, <2>1, <2>4, <3>1 DEF Same, Stored
  <2>5. CASE log.cap.open = None /\ ~log.cap.failed
    <3>1. \/ log'.cap.armed = log.cap.armed /\ log'.cap.open = clock
             /\ log'.cap.count = log.cap.count + 1
          \/ GivenUp(log', log)
      BY <2>1, <2>2, <2>5 DEF Taken
    <3>2. log.cap.count = 0 /\ cmd.nth = 1
      BY <1>1, <2>1, <2>5 DEF CapShape
    <3> QED BY <1>1, <1>4, <2>1, <3>1, <3>2 DEF GivenUp, Stored
  <2> QED BY <2>3, <2>4, <2>5
<1> QED BY <1>2, <1>3, <1>4 DEF IsCap

\* An end settles what its connection sent.
LEMMA AfterEnd ==
  ASSUME Base, CapShape, NEW cmd \in Cmds, cmd.what = "end", Ready(cmd), cmd.conn # 0,
         CapEffect(cmd, log', log)
  PROVE  \/ cmd.nth = 0 \/ cmd.conn \in log'.refused
         \/ \E r \in log'.receipts : r.conn = cmd.conn /\ r.count = cmd.nth
<1>1. /\ log.cap.armed = cmd.conn
      /\ IF log.cap.open = None THEN cmd.nth = 0 \/ log.cap.failed ELSE log.cap.count = cmd.nth
  BY DEF Ready, Stored, Before
<1>2. Closed(log', log)
  BY DEF CapEffect
<1>3. CASE log.cap.open = None
  <2>1. cmd.nth = 0 \/ log.cap.armed \in log.refused
    BY <1>1, <1>3 DEF CapShape, None
  <2> QED BY <1>1, <1>2, <2>1 DEF Closed
<1>4. CASE log.cap.open # None
  <2>1. [name |-> log.cap.open, conn |-> log.cap.armed, count |-> log.cap.count]
          \in Receipt(log.cap)
    BY <1>4 DEF Receipt
  <2> QED BY <1>1, <1>2, <1>4, <2>1 DEF Closed
<1> QED BY <1>3, <1>4

LEMMA EffectGrows ==
  ASSUME NEW cmd \in Cmds, CapEffect(cmd, log', log)
  PROVE  log.receipts \subseteq log'.receipts /\ log.refused \subseteq log'.refused
<1>1. Same(log', log) => log.receipts \subseteq log'.receipts /\ log.refused \subseteq log'.refused
  BY DEF Same
<1>2. Closed(log', log) => log.receipts \subseteq log'.receipts /\ log.refused \subseteq log'.refused
  BY DEF Closed
<1>3. \A b : Taken(log', log, b) =>
               log.receipts \subseteq log'.receipts /\ log.refused \subseteq log'.refused
  BY <1>1 DEF Taken, Appended, GivenUp
<1> QED BY <1>1, <1>2, <1>3 DEF CapEffect, IsCap

LEMMA ShapeStep ==
  ASSUME Base, CapShape, Linked, Handle
  PROVE  CapShape'
<1>0. chan \in Seq(Cmds) /\ clock # None /\ log \in LogType
  BY DEF Base, LogTypes, None
<1>1. TakesOff /\ CapEffect(chan[1], log', log)
  BY HandleIs DEF Base
<1> PICK cmd \in Cmds : cmd = chan[1]
  BY <1>1 DEF TakesOff
<1>2. 1 \in DOMAIN chan /\ NoneBetween(0, 1)
  BY <1>0, <1>1, Shrinks DEF NoneBetween
<1>3. CapEffect(cmd, log', log) /\ (IsCap(cmd) => cmd.conn # 0)
  BY <1>1, <1>2 DEF Linked
<1>4. Same(log', log) => CapShape'
  BY DEF Same, CapShape
<1>5. CASE cmd.what = "begin"
  BY <1>3, <1>5 DEF CapEffect, Closed, CapShape, IsCap, None
<1>6. CASE cmd.what = "end"
  BY <1>3, <1>6 DEF CapEffect, Closed, CapShape
<1>7. CASE cmd.what = "data"
  <2> DEFINE b == [conn |-> cmd.conn, nth |-> cmd.nth]
  <2>1. Taken(log', log, b)
    BY <1>3, <1>7 DEF CapEffect
  <2> HIDE DEF b
  <2>2. GivenUp(log', log) /\ log.cap.open = None => CapShape'
    BY DEF GivenUp, CapShape
  <2> QED BY <1>0, <1>4, <2>1, <2>2 DEF Taken, Appended, CapShape
<1> QED BY <1>3, <1>4, <1>5, <1>6, <1>7 DEF CapEffect, IsCap

LEMMA ChainHandle ==
  ASSUME Base, CapShape, Chain, Handle
  PROVE  Chain'
<1> SUFFICES ASSUME Linked, Tip, EndIsLast, Receipted
             PROVE  Linked' /\ Tip' /\ EndIsLast' /\ Receipted'
  BY DEF Chain, Handle
<1>0. chan \in Seq(Cmds) /\ conn' = conn
  BY DEF Base, LogTypes, Handle
<1>1. TakesOff /\ CapEffect(chan[1], log', log)
  BY HandleIs DEF Base
<1> PICK cmd \in Cmds : cmd = chan[1]
  BY <1>1 DEF TakesOff
<1> PICK n : n = Len(chan)
  OBVIOUS
<1>2. /\ n \in Nat \ {0} /\ DOMAIN chan = 1..n /\ Len(chan') = n - 1 /\ DOMAIN chan' = 1..(n - 1)
      /\ \A i \in 1..(n - 1) : i + 1 \in 1..n /\ chan'[i] = chan[i + 1]
      /\ \A i \in 1..n : i # 1 => i - 1 \in 1..(n - 1) /\ chan'[i - 1] = chan[i]
  BY <1>0, <1>1, Shrinks
<1>3. CapEffect(cmd, log', log)
  BY <1>1
<1>4. ASSUME NEW i \in Nat, NEW k \in Nat, NoneBetween(i, k)'
      PROVE  NoneBetween(i + 1, k + 1)
  <2> SUFFICES ASSUME NEW j \in 1..n, i + 1 < j, j < k + 1
               PROVE  ~IsCap(chan[j])
    BY <1>2 DEF NoneBetween
  <2>1. j # 1 /\ j - 1 \in 1..(n - 1) /\ chan'[j - 1] = chan[j] /\ i < j - 1 /\ j - 1 < k
    BY <1>2
  <2> QED BY <1>2, <1>4, <2>1 DEF NoneBetween
<1>5. ASSUME NEW k \in Nat, NoneBetween(0, k)', ~IsCap(cmd)
      PROVE  NoneBetween(0, k + 1)
  <2>1. NoneBetween(1, k + 1)
    BY <1>4, <1>5
  <2> QED BY <1>2, <1>5, <2>1 DEF NoneBetween
<1>6. ~IsCap(cmd) => Same(log', log)
  BY <1>3 DEF CapEffect
<1>7. IsCap(cmd) => /\ Ready(cmd) /\ cmd.conn # 0
                    /\ cmd.what = "begin" => cmd.nth = 0
                    /\ cmd.what = "data" => cmd.nth # 0
  <2>1. 1 \in DOMAIN chan /\ NoneBetween(0, 1)
    BY <1>2 DEF NoneBetween
  <2> QED BY <2>1 DEF Linked
<1>8. IsCap(cmd) => IF cmd.what = "end" THEN log'.cap.armed = None
                    ELSE Stored(cmd.conn, cmd.nth)'
  BY <1>3, <1>7, AfterCommand
<1>9. Linked'
  <2> SUFFICES ASSUME NEW k \in 1..(n - 1), IsCap(chan'[k])
               PROVE  /\ NoneBetween(0, k)' => Ready(chan[k])'
                      /\ \A i \in 1..(n - 1) : i < k /\ IsCap(chan'[i]) /\ NoneBetween(i, k)'
                           => Follows(chan'[i], chan'[k])
                      /\ chan'[k].conn # 0
                      /\ chan'[k].what = "begin" => chan'[k].nth = 0
                      /\ chan'[k].what = "data" => chan'[k].nth # 0
    BY <1>2 DEF Linked
  <2>1. k + 1 \in DOMAIN chan /\ chan'[k] = chan[k + 1] /\ IsCap(chan[k + 1])
    BY <1>2
  <2>2. \A i \in 1..(n - 1) : i < k /\ IsCap(chan'[i]) /\ NoneBetween(i, k)'
           => Follows(chan'[i], chan'[k])
    <3> SUFFICES ASSUME NEW i \in 1..(n - 1), i < k, IsCap(chan'[i]), NoneBetween(i, k)'
                 PROVE  Follows(chan'[i], chan'[k])
      OBVIOUS
    <3>1. i + 1 \in DOMAIN chan /\ chan'[i] = chan[i + 1] /\ i + 1 < k + 1
      BY <1>2
    <3>2. NoneBetween(i + 1, k + 1)
      BY <1>2, <1>4
    <3> QED BY <2>1, <3>1, <3>2 DEF Linked
  <2> PICK next : next = chan[k + 1]
    OBVIOUS
  <2>3. ASSUME NoneBetween(0, k)'
        PROVE  Ready(next)'
    <3>1. CASE ~IsCap(cmd)
      <4>1. NoneBetween(0, k + 1)
        BY <1>2, <1>5, <2>3, <3>1
      <4>2. Ready(next)
        BY <2>1, <4>1 DEF Linked
      <4> QED BY <1>6, <3>1, <4>2, ReadyStays
    <3>2. CASE IsCap(cmd)
      <4>1. NoneBetween(1, k + 1) /\ 1 \in DOMAIN chan /\ 1 < k + 1
        BY <1>2, <1>4, <2>3
      <4>2. Follows(cmd, next) /\ IsCap(next)
        BY <2>1, <3>2, <4>1 DEF Linked
      <4> QED BY <1>8, <3>2, <4>2 DEF Follows, Ready
    <3> QED BY <3>1, <3>2
  <2>4. NoneBetween(0, k)' => Ready(chan[k])'
    <3>1. chan'[k] = next
      BY <2>1
    <3> QED BY <2>3, <3>1
  <2> QED BY <2>1, <2>2, <2>4 DEF Linked
<1>10. Tip'
  <2>1. ASSUME \A i \in 1..(n - 1) : ~IsCap(chan'[i])
        PROVE  IF conn'.up THEN Stored(Len(conn.sent), Last(conn.sent))' ELSE log'.cap.armed = None
    <3>1. \A i \in 1..n : i # 1 => ~IsCap(chan[i])
      BY <1>2, <2>1
    <3>2. CASE ~IsCap(cmd)
      <4>1. IF conn.up THEN Stored(Len(conn.sent), Last(conn.sent)) ELSE log.cap.armed = None
        BY <1>2, <3>1, <3>2 DEF Tip
      <4> QED BY <1>0, <1>6, <3>2, <4>1, ReadyStays DEF Same
    <3>3. CASE IsCap(cmd)
      <4>1. NoneBetween(1, n + 1) /\ 1 \in DOMAIN chan
        BY <1>2, <3>1 DEF NoneBetween
      <4>2. IF conn.up THEN /\ cmd.what # "end" /\ cmd.conn = Len(conn.sent)
                            /\ cmd.nth = Last(conn.sent)
            ELSE cmd.what = "end"
        BY <3>3, <4>1 DEF Tip
      <4> QED BY <1>0, <1>8, <3>3, <4>2
    <3> QED BY <3>2, <3>3
  <2>2. ASSUME NEW i \in 1..(n - 1), IsCap(chan'[i]), NoneBetween(i, n)'
        PROVE  IF conn'.up THEN /\ chan'[i].what # "end" /\ chan'[i].conn = Len(conn'.sent)
                                /\ chan'[i].nth = Last(conn'.sent)
               ELSE chan'[i].what = "end"
    <3>1. i + 1 \in DOMAIN chan /\ chan'[i] = chan[i + 1] /\ NoneBetween(i + 1, n + 1)
      BY <1>2, <1>4, <2>2
    <3> QED BY <1>0, <2>2, <3>1 DEF Tip
  <2>3. Len(chan') + 1 = n
    BY <1>2
  <2> QED BY <1>2, <2>1, <2>2, <2>3 DEF Tip
<1>11. EndIsLast'
  BY <1>0, <1>2 DEF EndIsLast
<1>12. Receipted'
  <2> SUFFICES ASSUME NEW c \in DOMAIN conn.sent,
                      ~(c = Len(conn.sent) /\ conn.up),
                      ~Known(c)'
               PROVE  \E i \in 1..(n - 1) : chan'[i].what = "end" /\ chan'[i].conn = c
    BY <1>0, <1>2 DEF Receipted
  <2>1. ~Known(c)
    BY <1>0, <1>3, EffectGrows DEF Known
  <2>2. PICK i \in DOMAIN chan : chan[i].what = "end" /\ chan[i].conn = c
    BY <2>1 DEF Receipted
  <2>3. CASE i = 1
    <3>1. cmd.what = "end" /\ cmd.conn = c /\ cmd.nth = conn.sent[c]
      BY <2>2, <2>3 DEF EndIsLast
    <3>2. Known(c)'
      BY <1>0, <1>3, <1>7, <3>1, AfterEnd DEF Known, IsCap
    <3> QED BY <3>2
  <2>4. CASE i # 1
    BY <1>2, <2>2, <2>4
  <2> QED BY <2>3, <2>4
<1> QED BY <1>9, <1>10, <1>11, <1>12

\* A command that follows the last one, or the thread where none is under way.
LEMMA LinkAdded ==
  ASSUME Base, Linked, NEW cmd \in Cmds, Adds(<<cmd>>), log' = log,
         IsCap(cmd), cmd.conn # 0, cmd.what = "begin" => cmd.nth = 0,
         cmd.what = "data" => cmd.nth # 0,
         (\A i \in DOMAIN chan : ~IsCap(chan[i])) => Ready(cmd),
         \A i \in DOMAIN chan : IsCap(chan[i]) /\ NoneBetween(i, Len(chan) + 1)
                                  => Follows(chan[i], cmd)
  PROVE  /\ Linked'
         /\ \A i \in DOMAIN chan' : IsCap(chan'[i]) /\ NoneBetween(i, Len(chan) + 1)'
              => chan'[i] = cmd
<1>0. chan \in Seq(Cmds)
  BY DEF Base, LogTypes
<1> PICK n : n = Len(chan)
  OBVIOUS
<1>1. /\ n \in Nat /\ DOMAIN chan = 1..n /\ Len(chan') = n + 1 /\ DOMAIN chan' = 1..(n + 1)
      /\ \A i \in 1..n : i \in 1..(n + 1) /\ chan'[i] = chan[i]
      /\ chan'[n + 1] = cmd
  BY <1>0, GrowsByOne
<1>2. \A i, k : NoneBetween(i, k)' => NoneBetween(i, k)
  BY <1>1 DEF NoneBetween
<1>3. \A x : Ready(x)' <=> Ready(x)
  BY ReadyStays DEF Same
<1>4. Linked'
  <2> SUFFICES ASSUME NEW k \in 1..(n + 1), IsCap(chan'[k])
               PROVE  /\ NoneBetween(0, k)' => Ready(chan[k])'
                      /\ \A i \in 1..(n + 1) : i < k /\ IsCap(chan'[i]) /\ NoneBetween(i, k)'
                           => Follows(chan'[i], chan'[k])
                      /\ chan'[k].conn # 0
                      /\ chan'[k].what = "begin" => chan'[k].nth = 0
                      /\ chan'[k].what = "data" => chan'[k].nth # 0
    BY <1>1 DEF Linked
  <2>1. CASE k \in 1..n
    <3>1. chan'[k] = chan[k] /\ k \in DOMAIN chan /\ IsCap(chan[k])
      BY <1>1, <2>1
    <3>2. NoneBetween(0, k)' => Ready(chan[k])'
      <4> PICK x : x = chan[k]
        OBVIOUS
      <4>1. NoneBetween(0, k)' => Ready(x)'
        BY <1>2, <1>3, <3>1 DEF Linked
      <4> QED BY <3>1, <4>1
    <3>3. ASSUME NEW i \in 1..(n + 1), i < k, IsCap(chan'[i]), NoneBetween(i, k)'
          PROVE  Follows(chan'[i], chan'[k])
      <4>1. i \in DOMAIN chan /\ chan'[i] = chan[i]
        BY <1>1, <2>1, <3>3
      <4> QED BY <1>2, <3>1, <3>3, <4>1 DEF Linked
    <3> QED BY <3>1, <3>2, <3>3 DEF Linked
  <2>2. CASE k = n + 1
    <3>1. chan'[k] = cmd
      BY <1>1, <2>2
    <3>2. ASSUME NoneBetween(0, k)' PROVE Ready(cmd)'
      <4>1. NoneBetween(0, n + 1)
        BY <1>2, <2>2, <3>2
      <4>2. \A i \in DOMAIN chan : ~IsCap(chan[i])
        BY <1>1, <4>1 DEF NoneBetween
      <4> QED BY <1>3, <4>2
    <3>3. ASSUME NEW i \in 1..(n + 1), i < k, IsCap(chan'[i]), NoneBetween(i, k)'
          PROVE  Follows(chan'[i], chan'[k])
      <4>1. i \in DOMAIN chan /\ chan'[i] = chan[i]
        BY <1>1, <2>2, <3>3
      <4>2. NoneBetween(i, n + 1)
        BY <1>2, <2>2, <3>3
      <4> QED BY <3>1, <3>3, <4>1, <4>2
    <3>4. NoneBetween(0, k)' => Ready(chan[k])'
      BY <3>1, <3>2
    <3> QED BY <3>1, <3>3, <3>4
  <2> QED BY <1>1, <2>1, <2>2
<1>5. ASSUME NEW i \in DOMAIN chan', IsCap(chan'[i]), NoneBetween(i, Len(chan) + 1)'
      PROVE  chan'[i] = cmd
  <2>1. NoneBetween(i, n + 2)'
    <3>1. Len(chan') + 1 = n + 2
      BY <1>1
    <3> QED BY <1>5, <3>1
  <2>2. ~(i < n + 1)
    BY <1>1, <2>1 DEF NoneBetween
  <2>3. i = n + 1
    BY <1>1, <2>2
  <2> QED BY <1>1, <2>3
<1> QED BY <1>4, <1>5

\* The tip after it.
LEMMA TipAdded ==
  ASSUME Base, NEW cmd \in Cmds, IsCap(cmd), Adds(<<cmd>>),
         \A i \in DOMAIN chan' : IsCap(chan'[i]) /\ NoneBetween(i, Len(chan) + 1)'
              => chan'[i] = cmd,
         IF conn'.up THEN /\ cmd.what # "end" /\ cmd.conn = Len(conn'.sent)
                          /\ cmd.nth = Last(conn'.sent)
         ELSE cmd.what = "end"
  PROVE  Tip'
<1>1. Len(chan) + 1 \in DOMAIN chan' /\ chan'[Len(chan) + 1] = cmd
  BY GrowsByOne DEF Base, LogTypes
<1>2. ~ \A i \in DOMAIN chan' : ~IsCap(chan'[i])
  BY <1>1
<1> QED BY <1>2 DEF Tip

LEMMA ChainBegin ==
  ASSUME Base, Chain, BeginCapture
  PROVE  Chain'
<1> SUFFICES ASSUME Linked, Tip, EndIsLast, Receipted
             PROVE  Linked' /\ Tip' /\ EndIsLast' /\ Receipted'
  BY DEF Chain, BeginCapture, Sends
<1> PICK m : m = Len(conn.sent)
  OBVIOUS
<1> DEFINE cmd == [what |-> "begin", conn |-> m + 1, nth |-> 0]
<1>1. /\ ~conn.up /\ conn'.up /\ m \in Nat /\ Len(conn'.sent) = m + 1
      /\ conn'.sent[m + 1] = 0 /\ \A c \in 1..m : conn'.sent[c] = conn.sent[c]
      /\ Adds(<<cmd>>) /\ conn'.sent \in Seq(Nat)
  BY BeginIs DEF Base, ConnTypes
<1>2. DOMAIN conn.sent = 1..m /\ DOMAIN conn'.sent = 1..(m + 1) /\ chan \in Seq(Cmds)
      /\ log' = log
  BY <1>1 DEF Base, LogTypes, BeginCapture, Sends
<1>3. /\ cmd \in Cmds /\ IsCap(cmd) /\ cmd.what = "begin" /\ cmd.conn = m + 1 /\ cmd.nth = 0
      /\ cmd.conn # 0
  BY <1>1 DEF Cmds, CapCmds, IsCap
<1> HIDE DEF cmd
<1>4. (\A i \in DOMAIN chan : ~IsCap(chan[i])) => Ready(cmd)
  BY <1>1, <1>3 DEF Tip, Ready
<1>5. \A i \in DOMAIN chan : IsCap(chan[i]) /\ NoneBetween(i, Len(chan) + 1)
                               => Follows(chan[i], cmd)
  BY <1>1, <1>3 DEF Tip, Follows
<1>6. Linked' /\ \A i \in DOMAIN chan' : IsCap(chan'[i]) /\ NoneBetween(i, Len(chan) + 1)'
                                          => chan'[i] = cmd
  BY <1>1, <1>2, <1>3, <1>4, <1>5, LinkAdded
<1>7. Tip'
  BY <1>1, <1>3, <1>6, TipAdded DEF Last
<1> PICK n : n = Len(chan)
  OBVIOUS
<1>8. /\ n \in Nat /\ DOMAIN chan = 1..n /\ DOMAIN chan' = 1..(n + 1)
      /\ \A i \in 1..n : i \in 1..(n + 1) /\ chan'[i] = chan[i]
      /\ chan'[n + 1] = cmd
  BY <1>1, <1>2, <1>3, GrowsByOne
<1>9. EndIsLast'
  <2>1. \A i \in 1..(n + 1) : chan'[i].what = "end" => i \in 1..n /\ chan'[i] = chan[i]
    BY <1>3, <1>8
  <2>2. \A i \in 1..n : chan[i].what = "end" =>
          /\ chan[i].conn \in 1..m /\ chan[i].nth = conn.sent[chan[i].conn]
    BY <1>2, <1>8 DEF EndIsLast
  <2>3. ASSUME NEW i \in 1..(n + 1), chan'[i].what = "end"
        PROVE  /\ chan'[i].conn \in 1..(m + 1) /\ chan'[i].nth = conn'.sent[chan'[i].conn]
               /\ chan'[i].conn # m + 1
    <3>1. i \in 1..n /\ chan'[i] = chan[i]
      BY <2>1, <2>3
    <3> PICK c : c = chan[i].conn
      OBVIOUS
    <3>2. c \in 1..m /\ chan[i].nth = conn.sent[c] /\ conn'.sent[c] = conn.sent[c]
      BY <1>1, <2>2, <2>3, <3>1
    <3> QED BY <1>1, <2>2, <2>3, <3>1, <3>2
  <2> QED BY <1>1, <1>2, <1>8, <2>3 DEF EndIsLast
<1>10. Receipted'
  <2> SUFFICES ASSUME NEW c \in 1..(m + 1), ~(c = m + 1 /\ conn'.up)
               PROVE  \/ \E i \in 1..(n + 1) : chan'[i].what = "end" /\ chan'[i].conn = c
                      \/ Known(c)'
    BY <1>1, <1>2, <1>8 DEF Receipted
  <2>1. c \in 1..m /\ conn'.sent[c] = conn.sent[c] /\ ~(c = m /\ conn.up)
    BY <1>1
  <2>2. (\E i \in 1..n : chan[i].what = "end" /\ chan[i].conn = c) \/ Known(c)
    BY <1>2, <1>8, <2>1 DEF Receipted
  <2>3. Known(c) => Known(c)'
    BY <1>2, <2>1 DEF Known
  <2> QED BY <1>8, <2>2, <2>3
<1> QED BY <1>6, <1>7, <1>9, <1>10

LEMMA ChainBytes ==
  ASSUME Base, Chain, CaptureBytes
  PROVE  Chain'
<1> SUFFICES ASSUME Linked, Tip, EndIsLast, Receipted
             PROVE  Linked' /\ Tip' /\ EndIsLast' /\ Receipted'
  BY DEF Chain, CaptureBytes, Sends
<1> PICK m : m = Len(conn.sent)
  OBVIOUS
<1> PICK s : s = conn.sent[m]
  OBVIOUS
<1> DEFINE cmd == [what |-> "data", conn |-> m, nth |-> s + 1]
<1>1. /\ conn.up /\ conn'.up /\ m \in Nat \ {0} /\ Len(conn'.sent) = m /\ s \in Nat
      /\ conn'.sent[m] = s + 1 /\ \A c \in 1..m : c # m => conn'.sent[c] = conn.sent[c]
      /\ Adds(<<cmd>>) /\ conn'.sent \in Seq(Nat)
  BY BytesAre DEF Base, ConnTypes
<1>2. DOMAIN conn.sent = 1..m /\ DOMAIN conn'.sent = 1..m /\ chan \in Seq(Cmds)
      /\ log' = log
  BY <1>1 DEF Base, LogTypes, CaptureBytes, Sends
<1>3. /\ cmd \in Cmds /\ IsCap(cmd) /\ cmd.what = "data" /\ cmd.conn = m /\ cmd.nth = s + 1
      /\ cmd.nth # 0 /\ Before(cmd) = s
  BY <1>1 DEF Cmds, CapCmds, IsCap, Before
<1> HIDE DEF cmd
<1>4. (\A i \in DOMAIN chan : ~IsCap(chan[i])) => Ready(cmd)
  BY <1>1, <1>3 DEF Tip, Ready, Last
<1>5. \A i \in DOMAIN chan : IsCap(chan[i]) /\ NoneBetween(i, Len(chan) + 1)
                               => Follows(chan[i], cmd)
  BY <1>1, <1>3 DEF Tip, Follows, Last
<1>6. Linked' /\ \A i \in DOMAIN chan' : IsCap(chan'[i]) /\ NoneBetween(i, Len(chan) + 1)'
                                          => chan'[i] = cmd
  BY <1>1, <1>2, <1>3, <1>4, <1>5, LinkAdded
<1>7. Tip'
  BY <1>1, <1>3, <1>6, TipAdded DEF Last
<1> PICK n : n = Len(chan)
  OBVIOUS
<1>8. /\ n \in Nat /\ DOMAIN chan = 1..n /\ DOMAIN chan' = 1..(n + 1)
      /\ \A i \in 1..n : i \in 1..(n + 1) /\ chan'[i] = chan[i]
      /\ chan'[n + 1] = cmd
  BY <1>1, <1>2, <1>3, GrowsByOne
<1>9. EndIsLast'
  <2>1. \A i \in 1..(n + 1) : chan'[i].what = "end" => i \in 1..n /\ chan'[i] = chan[i]
    BY <1>3, <1>8
  <2>2. \A i \in 1..n : chan[i].what = "end" =>
          /\ chan[i].conn \in 1..m /\ chan[i].nth = conn.sent[chan[i].conn]
          /\ chan[i].conn # m
    BY <1>1, <1>2, <1>8 DEF EndIsLast
  <2>3. ASSUME NEW i \in 1..(n + 1), chan'[i].what = "end"
        PROVE  /\ chan'[i].conn \in 1..m /\ chan'[i].nth = conn'.sent[chan'[i].conn]
               /\ chan'[i].conn # m
    <3>1. i \in 1..n /\ chan'[i] = chan[i]
      BY <2>1, <2>3
    <3> PICK c : c = chan[i].conn
      OBVIOUS
    <3>2. c \in 1..m /\ chan[i].nth = conn.sent[c] /\ conn'.sent[c] = conn.sent[c]
      BY <1>1, <2>2, <2>3, <3>1
    <3> QED BY <1>1, <2>2, <2>3, <3>1, <3>2
  <2> QED BY <1>1, <1>2, <1>8, <2>3 DEF EndIsLast
<1>10. Receipted'
  <2> SUFFICES ASSUME NEW c \in 1..m, ~(c = m /\ conn'.up)
               PROVE  \/ \E i \in 1..(n + 1) : chan'[i].what = "end" /\ chan'[i].conn = c
                      \/ Known(c)'
    BY <1>1, <1>2, <1>8 DEF Receipted
  <2>1. c \in 1..m /\ conn'.sent[c] = conn.sent[c] /\ ~(c = m /\ conn.up)
    BY <1>1
  <2>2. (\E i \in 1..n : chan[i].what = "end" /\ chan[i].conn = c) \/ Known(c)
    BY <1>2, <1>8, <2>1 DEF Receipted
  <2>3. Known(c) => Known(c)'
    BY <1>2, <2>1 DEF Known
  <2> QED BY <1>8, <2>2, <2>3
<1> QED BY <1>6, <1>7, <1>9, <1>10

LEMMA ChainEnd ==
  ASSUME Base, Chain, EndCapture
  PROVE  Chain'
<1> SUFFICES ASSUME Linked, Tip, EndIsLast, Receipted
             PROVE  Linked' /\ Tip' /\ EndIsLast' /\ Receipted'
  BY DEF Chain, EndCapture, Sends
<1> PICK m : m = Len(conn.sent)
  OBVIOUS
<1> PICK s : s = conn.sent[m]
  OBVIOUS
<1> DEFINE cmd == [what |-> "end", conn |-> m, nth |-> s]
<1>1. /\ conn.up /\ ~conn'.up /\ m \in Nat \ {0} /\ conn'.sent = conn.sent /\ s \in Nat
      /\ Adds(<<cmd>>)
  BY EndIs DEF Base
<1>2. DOMAIN conn.sent = 1..m /\ chan \in Seq(Cmds) /\ log' = log
  BY <1>1 DEF Base, LogTypes, EndCapture, Sends
<1>3. /\ cmd \in Cmds /\ IsCap(cmd) /\ cmd.what = "end" /\ cmd.conn = m /\ cmd.nth = s
      /\ Before(cmd) = s
  BY <1>1 DEF Cmds, CapCmds, IsCap, Before
<1> HIDE DEF cmd
<1>4. (\A i \in DOMAIN chan : ~IsCap(chan[i])) => Ready(cmd)
  BY <1>1, <1>3 DEF Tip, Ready, Last
<1>5. \A i \in DOMAIN chan : IsCap(chan[i]) /\ NoneBetween(i, Len(chan) + 1)
                               => Follows(chan[i], cmd)
  BY <1>1, <1>3 DEF Tip, Follows, Last
<1>6. Linked' /\ \A i \in DOMAIN chan' : IsCap(chan'[i]) /\ NoneBetween(i, Len(chan) + 1)'
                                          => chan'[i] = cmd
  BY <1>1, <1>2, <1>3, <1>4, <1>5, LinkAdded
<1>7. Tip'
  BY <1>1, <1>3, <1>6, TipAdded DEF Last
<1> PICK n : n = Len(chan)
  OBVIOUS
<1>8. /\ n \in Nat /\ DOMAIN chan = 1..n /\ DOMAIN chan' = 1..(n + 1) /\ n + 1 \in 1..(n + 1)
      /\ \A i \in 1..n : i \in 1..(n + 1) /\ chan'[i] = chan[i]
      /\ chan'[n + 1] = cmd
  BY <1>1, <1>2, <1>3, GrowsByOne
<1>9. EndIsLast'
  <2>1. \A i \in 1..(n + 1) : i \in 1..n \/ chan'[i] = cmd
    BY <1>8
  <2> QED BY <1>1, <1>2, <1>3, <1>8, <2>1 DEF EndIsLast
<1>10. Receipted'
  BY <1>1, <1>2, <1>3, <1>8 DEF Receipted, Known
<1> QED BY <1>6, <1>7, <1>9, <1>10

-------------------------------------------------------------------------------
(* The captures: the files *)

LEMMA BlocksAre ==
  ASSUME NEW c \in Nat, NEW n \in Nat
  PROVE  /\ Blocks(c, n) \in Seq(BlockType) /\ Len(Blocks(c, n)) = n
         /\ Blocks(c, 0) = <<>>
         /\ Append(Blocks(c, n), [conn |-> c, nth |-> n + 1]) = Blocks(c, n + 1)
<1>1. \A k \in Nat : /\ Blocks(c, k) \in Seq(BlockType) /\ Len(Blocks(c, k)) = k
                     /\ \A i \in 1..k : Blocks(c, k)[i] = [conn |-> c, nth |-> i]
  <2> SUFFICES ASSUME NEW k \in Nat
               PROVE  /\ Blocks(c, k) \in Seq(BlockType) /\ Len(Blocks(c, k)) = k
                      /\ \A i \in 1..k : Blocks(c, k)[i] = [conn |-> c, nth |-> i]
    OBVIOUS
  <2>1. \A i \in 1..k : [conn |-> c, nth |-> i] \in BlockType
    BY DEF BlockType
  <2> QED BY <2>1, IsASeq DEF Blocks
<1>2. Blocks(c, 0) = <<>>
  BY <1>1, EmptySeq
<1> DEFINE b == [conn |-> c, nth |-> n + 1]
           a == Append(Blocks(c, n), b)
<1>3. b \in BlockType
  BY DEF BlockType
<1>4. /\ a \in Seq(BlockType) /\ Len(a) = n + 1 /\ a[n + 1] = b
      /\ \A i \in 1..n : a[i] = [conn |-> c, nth |-> i]
  BY <1>1, <1>3, AppendProperties
<1>5. n + 1 \in Nat /\ \A i \in 1..(n + 1) : i \in 1..n \/ i = n + 1
  OBVIOUS
<1>6. a = Blocks(c, n + 1)
  <2>1. /\ Blocks(c, n + 1) \in Seq(BlockType) /\ Len(Blocks(c, n + 1)) = n + 1
        /\ \A i \in 1..(n + 1) : Blocks(c, n + 1)[i] = [conn |-> c, nth |-> i]
    BY <1>1, <1>5
  <2> HIDE DEF a
  <2>2. \A i \in 1..(n + 1) : a[i] = Blocks(c, n + 1)[i]
    BY <1>4, <1>5, <2>1
  <2> QED BY <1>4, <2>1, <2>2, SeqEqual
<1> QED BY <1>1, <1>2, <1>6

\* What a file holds after a block, and after its receipt.
LEMMA FilesStored ==
  ASSUME Base, CapShape, FileIs, ReceiptsStand, NEW cmd \in Cmds, NEW name \in Nat,
         cmd.what = "data", Ready(cmd), cmd.nth # 0, cmd.conn # 0,
         \/ log.cap.open # None /\ name = log.cap.open
         \/ log.cap.open = None /\ ~log.cap.failed /\ name \notin DOMAIN log.disk,
         Appended(log', log, [conn |-> cmd.conn, nth |-> cmd.nth], name)
  PROVE  FileIs' /\ ReceiptsStand'
<1> DEFINE b == [conn |-> cmd.conn, nth |-> cmd.nth]
<1>1. cmd.conn \in Nat /\ cmd.nth \in Nat /\ log \in LogType
  BY DEF Cmds, SetCmds, CapCmds, Sinks, Base, LogTypes
<1>2. /\ log.cap.armed = cmd.conn
      /\ IF log.cap.open = None THEN cmd.nth - 1 = 0 ELSE log.cap.count = cmd.nth - 1
  BY DEF Ready, Stored, Before
<1>3. log.cap.count = cmd.nth - 1 /\ cmd.nth - 1 \in Nat /\ (cmd.nth - 1) + 1 = cmd.nth
  BY <1>1, <1>2 DEF CapShape
<1> HIDE DEF b
<1>4. Appended(log', log, b, name)
  BY DEF b
<1>5. \A r \in log.receipts : r.name # name
  BY DEF FileIs, ReceiptsStand
<1>6. (IF name \in DOMAIN log.disk THEN log.disk[name] ELSE <<>>) = Blocks(cmd.conn, cmd.nth - 1)
  <2>1. CASE log.cap.open # None /\ name = log.cap.open
    BY <1>2, <1>3, <2>1 DEF FileIs
  <2>2. CASE log.cap.open = None /\ name \notin DOMAIN log.disk
    BY <1>1, <1>2, <2>2, BlocksAre
  <2> QED BY <2>1, <2>2
<1>7. log'.disk[name] = Blocks(cmd.conn, cmd.nth)
  <2>1. log'.disk[name] = Append(Blocks(cmd.conn, cmd.nth - 1), b)
    BY <1>4, <1>6 DEF Appended
  <2>2. b = [conn |-> cmd.conn, nth |-> (cmd.nth - 1) + 1]
    BY <1>3 DEF b
  <2> QED BY <1>1, <1>3, <2>1, <2>2, BlocksAre
<1>8. FileIs'
  <2>1. log'.cap.open = name /\ log'.cap.armed = cmd.conn /\ log'.cap.count = cmd.nth
        /\ name \in DOMAIN log'.disk /\ log'.receipts = log.receipts
    BY <1>1, <1>2, <1>3, <1>4 DEF Appended
  <2> QED BY <1>5, <1>7, <2>1 DEF FileIs
<1>9. ReceiptsStand'
  BY <1>4, <1>5 DEF Appended, ReceiptsStand
<1> QED BY <1>8, <1>9

LEMMA FilesClosed ==
  ASSUME FileIs, ReceiptsStand, Closed(log', log)
  PROVE  FileIs' /\ ReceiptsStand'
<1>1. FileIs'
  BY DEF Closed, FileIs
<1>2. \A r \in Receipt(log.cap) :
        r.name \in DOMAIN log.disk /\ log.disk[r.name] = Blocks(r.conn, r.count)
  BY DEF Receipt, FileIs
<1>3. ReceiptsStand'
  BY <1>2 DEF Closed, ReceiptsStand
<1> QED BY <1>1, <1>3

LEMMA FilesSame ==
  ASSUME FileIs, ReceiptsStand, Same(log', log)
  PROVE  FileIs' /\ ReceiptsStand'
BY DEF Same, FileIs, ReceiptsStand

LEMMA FilesGivenUp ==
  ASSUME ReceiptsStand, GivenUp(log', log)
  PROVE  FileIs' /\ ReceiptsStand'
BY DEF GivenUp, FileIs, ReceiptsStand

LEMMA OrderTaken ==
  ASSUME chan \in Seq(Cmds), TakesOff, BeginsFirst
  PROVE  BeginsFirst' /\ (UnderWay("begin")' => UnderWay("begin"))
<1> PICK n : n = Len(chan)
  OBVIOUS
<1>1. /\ n \in Nat \ {0} /\ DOMAIN chan = 1..n /\ DOMAIN chan' = 1..(n - 1)
      /\ \A i \in 1..(n - 1) : i + 1 \in 1..n /\ chan'[i] = chan[i + 1]
  BY Shrinks
<1>2. BeginsFirst'
  <2> SUFFICES ASSUME NEW i \in 1..(n - 1), NEW j \in 1..(n - 1),
                      chan'[i].what = "begin", chan'[j].what = "data"
               PROVE  i < j
    BY <1>1 DEF BeginsFirst
  <2>1. i + 1 \in DOMAIN chan /\ j + 1 \in DOMAIN chan
        /\ chan[i + 1].what = "begin" /\ chan[j + 1].what = "data"
    BY <1>1
  <2>2. i + 1 < j + 1
    BY <2>1 DEF BeginsFirst
  <2> QED BY <1>1, <2>2
<1>3. UnderWay("begin")' => UnderWay("begin")
  BY <1>1 DEF UnderWay
<1> QED BY <1>2, <1>3

LEMMA FilesHandle ==
  ASSUME Base, CapShape, Linked, Files, Handle
  PROVE  Files'
<1>0. chan \in Seq(Cmds) /\ clock \in Nat \ {0} /\ clock' = clock
  BY DEF Base, LogTypes, Handle
<1>1. TakesOff /\ CapEffect(chan[1], log', log)
  BY HandleIs DEF Base
<1> PICK cmd \in Cmds : cmd = chan[1]
  BY <1>1 DEF TakesOff
<1> PICK n : n = Len(chan)
  OBVIOUS
<1>2. /\ n \in Nat \ {0} /\ DOMAIN chan = 1..n /\ DOMAIN chan' = 1..(n - 1)
      /\ \A i \in 1..(n - 1) : i + 1 \in 1..n /\ chan'[i] = chan[i + 1]
  BY <1>0, <1>1, Shrinks
<1>3. IsCap(cmd) => /\ Ready(cmd) /\ cmd.conn # 0
                    /\ cmd.what = "data" => cmd.nth # 0
  <2>1. 1 \in DOMAIN chan /\ NoneBetween(0, 1)
    BY <1>2 DEF NoneBetween
  <2> QED BY <2>1 DEF Linked
<1>4. BeginsFirst'
  BY <1>0, <1>1, OrderTaken DEF Files
<1>5. UnderWay("begin")' => UnderWay("begin")
  BY <1>0, <1>1, OrderTaken DEF Files
<1>6. \A m \in DOMAIN log.disk : m \in Nat
  BY DEF Base, LogTypes, LogType, Disks
\* Where no file is made, and none comes to be wanted but by a begin.
<1>7. ASSUME FileIs', ReceiptsStand', DOMAIN log'.disk = DOMAIN log.disk,
             log'.cap.armed # None /\ log'.cap.open = None /\ ~log'.cap.failed =>
               \/ cmd.what = "begin"
               \/ log.cap.armed # None /\ log.cap.open = None /\ ~log.cap.failed
      PROVE  Files'
  <2>1. cmd.what = "begin" => UnderWay("begin")
    BY <1>2 DEF UnderWay
  <2>2. NameFree'
    BY <1>0, <1>5, <1>7, <2>1 DEF Files, NameFree
  <2>3. NamesPast'
    BY <1>0, <1>7 DEF Files, NamesPast
  <2> QED BY <1>4, <1>7, <2>2, <2>3 DEF Files
<1>8. Same(log', log) => Files'
  BY <1>7, FilesSame DEF Same, Files
<1>9. CapEffect(cmd, log', log)
  BY <1>1
<1>10. CASE cmd.what = "begin"
  <2>1. Closed(log', log)
    BY <1>9, <1>10 DEF CapEffect
  <2> QED BY <1>7, <1>10, <2>1, FilesClosed DEF Closed, Files
<1>11. CASE cmd.what = "end"
  <2>1. Closed(log', log) /\ log'.cap.armed = None
    BY <1>9, <1>11 DEF CapEffect
  <2> QED BY <1>7, <1>11, <2>1, FilesClosed DEF Closed, Files
<1>12. CASE cmd.what = "data"
  <2> DEFINE b == [conn |-> cmd.conn, nth |-> cmd.nth]
  <2>1. Taken(log', log, b)
    BY <1>9, <1>12 DEF CapEffect
  <2>2. Ready(cmd) /\ cmd.conn # 0 /\ cmd.nth # 0
    BY <1>3, <1>12 DEF IsCap
  <2>3. FileIs /\ ReceiptsStand /\ NamesPast /\ NameFree /\ BeginsFirst
    BY DEF Files
  <2>4. \A name \in Nat :
          /\ \/ log.cap.open # None /\ name = log.cap.open
             \/ log.cap.open = None /\ ~log.cap.failed /\ name \notin DOMAIN log.disk
          /\ Appended(log', log, b, name)
          => FileIs' /\ ReceiptsStand'
    BY <1>12, <2>2, <2>3, FilesStored
  <2> HIDE DEF b
  <2>5. CASE log.cap.open # None
    <3>1. Appended(log', log, b, log.cap.open) /\ log.cap.open \in DOMAIN log.disk
      BY <2>1, <2>3, <2>5 DEF Taken, FileIs
    <3>2. FileIs' /\ ReceiptsStand'
      <4> PICK name \in Nat : name = log.cap.open
        BY <1>6, <3>1
      <4>1. Appended(log', log, b, name)
        BY <3>1
      <4>2. log.cap.open # None /\ name = log.cap.open
        BY <2>5
      <4> QED BY <2>4, <4>1, <4>2, Zenon
    <3>3. DOMAIN log'.disk = DOMAIN log.disk /\ log'.cap.open # None
      BY <2>5, <3>1 DEF Appended
    <3> QED BY <1>7, <3>2, <3>3
  <2>6. CASE log.cap.open = None /\ (log.cap.armed = None \/ log.cap.failed)
    BY <1>8, <2>1, <2>6 DEF Taken
  <2>7. CASE log.cap.open = None /\ ~(log.cap.armed = None \/ log.cap.failed)
    <3>1. clock \notin DOMAIN log.disk
      BY <2>3, <2>7 DEF NameFree
    <3>2. Appended(log', log, b, clock) \/ GivenUp(log', log)
      BY <2>1, <2>7, <3>1 DEF Taken
    <3>3. CASE GivenUp(log', log)
      BY <1>7, <2>3, <3>3, FilesGivenUp DEF GivenUp
    <3>4. CASE Appended(log', log, b, clock)
      <4>1. FileIs' /\ ReceiptsStand'
        BY <1>0, <2>4, <2>7, <3>1, <3>4
      <4>2. NamesPast'
        BY <1>0, <2>3, <3>4 DEF Appended, NamesPast
      <4>3. \A i \in 1..n : chan[i].what # "begin"
        <5>1. \A i \in 1..n : chan[i].what = "begin" => i < 1
          BY <1>2, <1>12, <2>3 DEF BeginsFirst
        <5> QED BY <1>2, <5>1
      <4>4. ~UnderWay("begin")'
        BY <1>2, <1>5, <4>3 DEF UnderWay
      <4>5. log'.cap.open # None
        BY <1>0, <3>4 DEF Appended, None
      <4> QED BY <1>4, <4>1, <4>2, <4>4, <4>5 DEF Files, NameFree
    <3> QED BY <3>2, <3>3, <3>4
  <2> QED BY <2>5, <2>6, <2>7
<1> QED BY <1>8, <1>9, <1>10, <1>11, <1>12 DEF CapEffect, IsCap

LEMMA FilesQuit ==
  ASSUME Base, Files, Quit
  PROVE  Files'
<1>0. chan \in Seq(Cmds) /\ clock' = clock
  BY DEF Base, LogTypes, Quit
<1>1. TakesOff /\ Closed(log', log) /\ log'.cap.armed = None
  BY QuitIs DEF Base
<1>2. BeginsFirst' /\ (UnderWay("begin")' => UnderWay("begin"))
  BY <1>0, <1>1, OrderTaken DEF Files
<1>3. FileIs' /\ ReceiptsStand'
  BY <1>1, FilesClosed DEF Files
<1>4. NamesPast' /\ NameFree'
  BY <1>0, <1>1, <1>2 DEF Closed, Files, NamesPast, NameFree
<1> QED BY <1>2, <1>3, <1>4 DEF Files

LEMMA FilesIdle ==
  ASSUME Base, Files, Idle
  PROVE  Files'
<1>0. clock \in Nat /\ \A m \in DOMAIN log.disk : m \in Nat
  BY DEF Base, LogTypes, LogType, Disks
<1>1. chan' = chan /\ Same(log', log) /\ (clock' = clock \/ clock' = clock + 1)
  BY DEF Idle
<1>2. FileIs' /\ ReceiptsStand' /\ BeginsFirst'
  BY <1>1, FilesSame DEF Files, BeginsFirst
<1>3. NamesPast'
  BY <1>0, <1>1 DEF Same, Files, NamesPast
<1>4. NameFree'
  <2>1. CASE clock' = clock
    BY <1>1, <2>1 DEF Same, Files, NameFree, UnderWay
  <2>2. CASE clock' = clock + 1
    BY <1>0, <1>1, <2>2 DEF Same, Files, NamesPast, NameFree
  <2> QED BY <1>1, <2>1, <2>2
<1> QED BY <1>2, <1>3, <1>4 DEF Files

LEMMA FilesSent ==
  ASSUME Files, log' = log, clock' = clock, BeginsFirst',
         UnderWay("begin")' => clock \notin DOMAIN log.disk
  PROVE  Files'
<1>1. FileIs' /\ ReceiptsStand'
  BY FilesSame DEF Files, Same
<1>2. NamesPast' /\ NameFree'
  BY DEF Files, NamesPast, NameFree
<1> QED BY <1>1, <1>2 DEF Files

LEMMA FilesChatter ==
  ASSUME Base, Files, Chatter
  PROVE  Files'
<1>0. chan \in Seq(Cmds)
  BY DEF Base, LogTypes
<1>1. PICK cmds \in Seq(Cmds) :
        /\ Adds(cmds) /\ \A k \in 1..Len(cmds) : ~IsCap(cmds[k])
        /\ log' = log /\ clock' = clock
  BY DEF Chatter
<1>2. \A i \in DOMAIN chan' : IsCap(chan'[i]) => i \in DOMAIN chan /\ chan'[i] = chan[i]
  BY <1>0, <1>1, Grows
<1>3. BeginsFirst'
  BY <1>2 DEF Files, BeginsFirst, IsCap
<1>4. UnderWay("begin")' => clock \notin DOMAIN log.disk
  BY <1>2 DEF UnderWay, IsCap, Files, NameFree
<1> QED BY <1>1, <1>3, <1>4, FilesSent

LEMMA FilesWorker ==
  ASSUME Base, Files, FirstBytesApart, BeginCapture \/ CaptureBytes \/ EndCapture
  PROVE  Files'
<1>0. chan \in Seq(Cmds) /\ log' = log /\ clock' = clock /\ Len(conn.sent) \in Nat
  BY DEF Base, LogTypes, BeginCapture, CaptureBytes, EndCapture, Sends
<1> PICK n : n = Len(chan)
  OBVIOUS
<1>1. ASSUME NEW cmd \in Cmds, Adds(<<cmd>>)
      PROVE  /\ n \in Nat /\ DOMAIN chan = 1..n /\ DOMAIN chan' = 1..(n + 1)
             /\ \A i \in 1..n : chan'[i] = chan[i]
             /\ chan'[n + 1] = cmd /\ \A i \in 1..(n + 1) : i \notin 1..n => i = n + 1
  BY <1>0, <1>1, GrowsByOne
<1>2. \A w \in {"begin", "data", "end"}, c, k \in Nat :
         [what |-> w, conn |-> c, nth |-> k] \in Cmds
  BY DEF Cmds, CapCmds
<1>3. CASE BeginCapture
  <2> PICK cmd \in Cmds : cmd.what = "begin" /\ Adds(<<cmd>>)
    BY <1>0, <1>2, <1>3, BeginIs DEF Base
  <2>1. clock \notin DOMAIN log.disk /\ \A i \in DOMAIN chan : chan[i].what # "data"
    BY <1>3 DEF BeginCapture
  <2>2. \A j \in DOMAIN chan' : chan'[j].what # "data"
    BY <1>1, <2>1
  <2>3. BeginsFirst'
    BY <2>2 DEF BeginsFirst
  <2> QED BY <1>0, <2>1, <2>3, FilesSent
<1>4. CASE CaptureBytes \/ EndCapture
  <2>1. PICK cmd \in Cmds : cmd.what \in {"data", "end"} /\ Adds(<<cmd>>)
    <3>1. CASE CaptureBytes
      <4> DEFINE c == [what |-> "data", conn |-> Len(conn.sent),
                       nth |-> conn.sent[Len(conn.sent)] + 1]
      <4>1. Adds(<<c>>) /\ conn.sent[Len(conn.sent)] + 1 \in Nat
        BY <3>1, BytesAre DEF Base
      <4>2. c \in Cmds /\ c.what = "data"
        BY <1>0, <1>2, <4>1
      <4> HIDE DEF c
      <4> QED BY <4>1, <4>2
    <3>2. CASE EndCapture
      <4> DEFINE c == [what |-> "end", conn |-> Len(conn.sent),
                       nth |-> conn.sent[Len(conn.sent)]]
      <4>1. Adds(<<c>>) /\ conn.sent[Len(conn.sent)] \in Nat
        BY <3>2, EndIs DEF Base
      <4>2. c \in Cmds /\ c.what = "end"
        BY <1>0, <1>2, <4>1
      <4> HIDE DEF c
      <4> QED BY <4>1, <4>2
    <3> QED BY <1>4, <3>1, <3>2
  <2>2. /\ n \in Nat /\ DOMAIN chan = 1..n /\ DOMAIN chan' = 1..(n + 1)
        /\ \A i \in 1..n : chan'[i] = chan[i]
        /\ chan'[n + 1] = cmd /\ \A i \in 1..(n + 1) : i \notin 1..n => i = n + 1
    BY <1>1, <2>1
  <2>3. \A i \in DOMAIN chan' : chan'[i].what = "begin" => i \in 1..n /\ chan[i].what = "begin"
    BY <2>1, <2>2
  <2>4. BeginsFirst'
    <3> SUFFICES ASSUME NEW i \in 1..(n + 1), NEW j \in 1..(n + 1),
                        chan'[i].what = "begin", chan'[j].what = "data"
                 PROVE  i < j
      BY <2>2 DEF BeginsFirst
    <3>1. CASE j \in 1..n
      BY <2>2, <2>3, <3>1 DEF Files, BeginsFirst
    <3>2. CASE j = n + 1
      BY <2>2, <2>3, <3>2
    <3> QED BY <2>2, <3>1, <3>2
  <2>5. UnderWay("begin")' => clock \notin DOMAIN log.disk
    BY <2>2, <2>3 DEF UnderWay, Files, NameFree
  <2> QED BY <1>0, <2>4, <2>5, FilesSent
<1> QED BY <1>3, <1>4

-------------------------------------------------------------------------------
CaptureInv == Base /\ CapShape /\ Chain /\ (FirstBytesApart => Files)

LEMMA CapturesStart == LoggerInit => CaptureInv
<1> SUFFICES ASSUME LoggerInit PROVE CaptureInv
  OBVIOUS
<1>1. /\ chan = <<>> /\ DOMAIN chan = {} /\ conn.sent = <<>> /\ ~conn.up
      /\ DOMAIN conn.sent = {}
  BY DEF LoggerInit
<1>2. log.cap = NewCapture /\ log.disk = <<>> /\ log.receipts = {} /\ DOMAIN log.disk = {}
  BY DEF LoggerInit, NewLog
<1>3. log.cap.armed = None /\ log.cap.open = None /\ log.cap.count = 0
  BY <1>2 DEF NewCapture
<1>4. CapShape
  BY <1>3 DEF CapShape
<1>5. Chain
  BY <1>1, <1>3 DEF Chain, Linked, Tip, EndIsLast, Receipted
<1>6. Files
  BY <1>1, <1>2, <1>3 DEF Files, FileIs, ReceiptsStand, NamesPast, NameFree, BeginsFirst, UnderWay
<1> QED BY <1>4, <1>5, <1>6, BaseStarts DEF CaptureInv

LEMMA CapturesStep == CaptureInv /\ [LoggerNext]_loggerVars => CaptureInv'
<1> SUFFICES ASSUME CaptureInv, [LoggerNext]_loggerVars PROVE CaptureInv'
  OBVIOUS
<1>0. Base /\ CapShape /\ Chain /\ (FirstBytesApart => Files) /\ Base'
  BY BaseSteps DEF CaptureInv
<1>1. Same(log', log) => CapShape'
  BY <1>0 DEF Same, CapShape
<1>2. CASE Handle
  <2>1. Linked
    BY <1>0, <1>2 DEF Chain, Handle
  <2> QED BY <1>0, <1>2, <2>1, ShapeStep, ChainHandle, FilesHandle DEF CaptureInv
<1>3. CASE Quit
  <2>1. Chain' /\ Closed(log', log) /\ log'.cap.armed = None
    BY <1>0, <1>3, QuitIs DEF Chain, Quit, Base
  <2>2. CapShape'
    BY <2>1 DEF Closed, CapShape
  <2> QED BY <1>0, <1>3, <2>1, <2>2, FilesQuit DEF CaptureInv
<1>4. CASE Idle
  BY <1>0, <1>1, <1>4, ChainIdle, FilesIdle DEF CaptureInv, Idle
<1>5. CASE Chatter
  <2>1. log' = log
    BY <1>5 DEF Chatter
  <2> QED BY <1>0, <1>1, <1>5, <2>1, ChainChatter, FilesChatter DEF CaptureInv, Same
<1>6. CASE BeginCapture \/ CaptureBytes \/ EndCapture
  <2>1. log' = log
    BY <1>6 DEF BeginCapture, CaptureBytes, EndCapture, Sends
  <2> QED BY <1>0, <1>1, <1>6, <2>1, ChainBegin, ChainBytes, ChainEnd, FilesWorker
          DEF CaptureInv, Same
<1> QED BY <1>0, <1>2, <1>3, <1>4, <1>5, <1>6, StepKinds

\* Whatever the channel still holds, a capture file with a receipt holds its
\* connection's blocks, all, in order, and no other's; and once the thread has
\* caught up each connection that ended has its receipt for all it sent, or the
\* user knows that its file could not be made.  Two captures do not begin within
\* one second: a reconnect waits longer.
THEOREM CapturesHold == FirstBytesApart /\ LoggerSpec => []CapturesStand
<1> DEFINE Inv == FirstBytesApart /\ CaptureInv
<1>1. FirstBytesApart /\ LoggerInit => Inv
  BY CapturesStart
<1>2. Inv /\ [LoggerNext]_loggerVars => Inv'
  BY CapturesStep
<1>3. Inv => CapturesStand
  <2> SUFFICES ASSUME FirstBytesApart, CaptureInv PROVE CapturesStand
    OBVIOUS
  <2>1. \A r \in log.receipts : log.disk[r.name] = Blocks(r.conn, r.count)
    BY DEF CaptureInv, Files, ReceiptsStand
  <2>2. ASSUME running, chan = <<>>, NEW c \in DOMAIN conn.sent
        PROVE  (c = Len(conn.sent) /\ conn.up) \/ Known(c)
    <3>1. DOMAIN chan = {}
      BY <2>2
    <3> QED BY <2>2, <3>1 DEF CaptureInv, Chain, Receipted
  <2> QED BY <2>1, <2>2 DEF CapturesStand, Known
<1> HIDE DEF Inv
<1> QED BY <1>1, <1>2, <1>3, PTL DEF LoggerSpec

-------------------------------------------------------------------------------
(* settings.toml *)

\* A set of numbers has a least one.
LEMMA LeastNumber ==
  ASSUME NEW T \in SUBSET Nat, T # {}
  PROVE  \E m \in T : \A k \in T : m <= k
<1>1. PICK m \in T : \A k \in T : ~(<<k, m>> \in OpToRel(<, Nat))
  BY NatLessThanWellFounded, WFMin, Zenon
<1>2. \A k \in T : ~(k < m)
  BY <1>1, Zenon DEF OpToRel
<1> QED BY <1>2

\* Something with the fields of the settings and a list of profiles; and one
\* whose active profile is in its list.
IsList(p) == p \in Seq(ToSet(p))
IsSettings(s) == /\ s = [f \in DOMAIN Defaults |-> s[f]]
                 /\ IsList(s.profiles)
Usable(s) == IsSettings(s) /\ s.active \in ToSet(s.profiles)

\* settings.toml is settings, or the last text the program cannot read.
FileOK == \/ file = <<>>
          \/ file = Text(file[1].s) /\ IsSettings(file[1].s)
          \/ file = Unread(broken) /\ broken > 0

\* The last unreadable text is told of or in the copy, once a run has begun.
InCopy(n) == n \in told \/ (bad # <<>> /\ bad[1].n = n)
LastKept == /\ owed \subseteq 1 .. broken
            /\ broken \in owed => InCopy(broken) \/ (app = <<>> /\ file = Unread(broken))

\* A run has settings it can work on, knows what it saved and was told of a
\* crash.
RunOK == /\ app # <<>> =>
              /\ Usable(app[1].s) /\ IsSettings(app[1].last_saved)
              /\ app[1].saves # 0 => file = Text(app[1].last_saved)
              /\ reported => app[1].notice
         /\ app = <<>> /\ reported => marker
         /\ saving # <<>> => app # <<>>
\* ... and is a record.
RunType == app # <<>> => DOMAIN app[1] = {"s", "last_saved", "log", "notice", "saves"}

StoreInv == /\ broken \in Nat /\ FileIsWhole
            /\ FileOK /\ LastKept /\ RunOK /\ RunType

\* The fields the proofs speak of.
LEMMA Fields ==
  {"profiles", "active", "host", "tab", "version", "data_bits", "stop_bits", "rate"} \subseteq DOMAIN Defaults
BY DEF Defaults

\* A list of one name is a list, and has it.
LEMMA OneName ==
  ASSUME NEW n
  PROVE  IsList(<<n>>) /\ <<n>> # <<>> /\ n \in ToSet(<<n>>)
<1>1. 1 \in DOMAIN <<n>> /\ <<n>>[1] = n
  OBVIOUS
<1>2. n \in ToSet(<<n>>)
  BY <1>1, Zenon DEF ToSet
<1>3. ASSUME NEW S, n \in S PROVE <<n>> \in Seq(S) /\ <<n>> # <<>>
  BY <1>3
<1> QED BY <1>2, <1>3, Zenon DEF IsList

\* Where there is no file the defaults can be worked on.
LEMMA DefaultsUsable == Usable(Defaults)
<1>1. Defaults = [f \in DOMAIN Defaults |-> Defaults[f]]
  BY DEF Defaults
<1>2. Defaults.profiles = <<"Default">> /\ Defaults.active = "Default"
  BY DEF Defaults
<1>3. IsList(<<"Default">>) /\ "Default" \in ToSet(<<"Default">>)
  BY OneName, Zenon
<1> QED BY <1>1, <1>2, <1>3 DEF Usable, IsSettings

\* What normalize leaves can be worked on.
LEMMA NormalizeUsable ==
  ASSUME NEW s, IsSettings(s)
  PROVE  Usable(Normalize(s))
<1> DEFINE t == Normalize(s)
           profiles == IF s.profiles = <<>> THEN <<"Default">> ELSE s.profiles
<1>1. t = [f \in DOMAIN Defaults |-> t[f]]
  BY DEF IsSettings, Normalize
<1>2. t.profiles = profiles /\ t.active = ActiveOf(s, profiles)
  BY Fields DEF IsSettings, Normalize
<1>3. IsList(profiles) /\ profiles # <<>>
  <2>1. IsList(<<"Default">>) /\ <<"Default">> # <<>>
    BY OneName, Zenon
  <2>2. IsList(s.profiles)
    BY DEF IsSettings
  <2> QED BY <2>1, <2>2
<1> HIDE DEF profiles
<1>4. profiles[1] \in ToSet(profiles)
  <2>1. 1 \in DOMAIN profiles
    BY <1>3 DEF IsList
  <2> QED BY <2>1 DEF ToSet
<1>5. ActiveOf(s, profiles) \in ToSet(profiles)
  BY <1>4 DEF ActiveOf
<1> QED BY <1>1, <1>2, <1>3, <1>5 DEF Usable, IsSettings

\* No text is without a content, nor both read and not read.
LEMMA TextsApart ==
  ASSUME NEW s, NEW n
  PROVE  /\ Text(s) # <<>> /\ Unread(n) # <<>>
         /\ Text(s)[1].readable /\ ~Unread(n)[1].readable
         /\ Text(s)[1].s = s /\ Text(s)[1].n = 0 /\ Unread(n)[1].n = n
BY DEF Text, Unread

\* A change of a field leaves settings behind; one of the fields the user
\* edits here, settings to work on.
LEMMA EditUsable ==
  ASSUME NEW s, Usable(s), NEW f \in {"host", "tab"}, NEW v
  PROVE  Usable([s EXCEPT ![f] = v])
<1> DEFINE t == [s EXCEPT ![f] = v]
<1>1. t = [g \in DOMAIN Defaults |-> t[g]]
  BY DEF Usable, IsSettings
<1>2. t.profiles = s.profiles /\ t.active = s.active
  BY Fields DEF Usable, IsSettings
<1> QED BY <1>1, <1>2 DEF Usable, IsSettings
-------------------------------------------------------------------------------
(* The import *)

\* What a line of either file may set: a field that is not the list of
\* profiles, to a value that normalize lets stand.
Legal(f, x) == /\ f \in DOMAIN Defaults \ {"profiles", "active", "version"}
               /\ f = "data_bits" => x \in {"7", "8"}
               /\ f = "stop_bits" => x \in {"1", "2"}
               /\ f = "rate" => x \in {"1", "5", "10"}
IsLegal(set) == set = Wrong \/ \E f, x : set = Given(f, x) /\ Legal(f, x)

\* These fields take any value.
LEMMA FreeFields ==
  ASSUME NEW x,
         NEW f \in {"host", "port", "username", "password", "mountpoint", "serial_port", "baud",
                    "center", "right", "audio", "event_log", "nmea_log", "protocol", "gga_source",
                    "manual_lat", "manual_lon", "autoconfig", "format", "updates", "last_check",
                    "serial_up", "ntrip_up"}
  PROVE  Legal(f, x)
BY DEF Legal, Defaults

\* A value is taken only when it is legal.
LEMMA WhenLegal ==
  ASSUME NEW test, NEW f, NEW x, test => Legal(f, x)
  PROVE  IsLegal(When(test, f, x))
<1>1. CASE test
  BY <1>1, Zenon DEF IsLegal, When
<1>2. CASE ~test
  BY <1>2, Zenon DEF IsLegal, When
<1> QED BY <1>1, <1>2

\* What a line of Settings.txt sets stands.
LEMMA SettingLegal ==
  ASSUME NEW k \in SettingsKeys, NEW v
  PROVE  IsLegal(Setting(k, v))
<1>0. \A f, x : Legal(f, x) => IsLegal(Given(f, x))
  BY Zenon DEF IsLegal
<1>1. CASE k = "serial port number"
  <2>1. Setting(k, v) = When(IsNumber(v), "serial_port", "COM" \o v)
    BY <1>1 DEF Setting
  <2> QED BY <2>1, FreeFields, WhenLegal
<1>2. CASE k = "serial port speed"
  <2>1. Setting(k, v) = When(IsNumber(v), "baud", v)
    BY <1>2 DEF Setting
  <2> QED BY <2>1, FreeFields, WhenLegal
<1>3. CASE k = "serial port data bits"
  <2>1. Setting(k, v) = When(v \in {"7", "8"}, "data_bits", v)
    BY <1>3 DEF Setting
  <2>2. v \in {"7", "8"} => Legal("data_bits", v)
    BY DEF Legal, Defaults
  <2> QED BY <2>1, <2>2, WhenLegal, Zenon
<1>4. CASE k = "serial port stop bits"
  <2>1. Setting(k, v) = When(v \in {"0", "1", "2"}, "stop_bits", IF v = "0" THEN "1" ELSE v)
    BY <1>4 DEF Setting
  <2>2. v \in {"0", "1", "2"} => Legal("stop_bits", IF v = "0" THEN "1" ELSE v)
    BY DEF Legal, Defaults
  <2> QED BY <2>1, <2>2, WhenLegal, Zenon
<1>5. CASE k = "display center"
  <2>1. Setting(k, v) = When(v = "speed", "center", v)
    BY <1>5 DEF Setting
  <2> QED BY <2>1, FreeFields, WhenLegal
<1>6. CASE k = "display right"
  <2>1. Setting(k, v) = When(v = "speed", "right", v)
    BY <1>6 DEF Setting
  <2> QED BY <2>1, FreeFields, WhenLegal
<1>7. CASE k = "audio alert file"
  <2>1. Setting(k, v) = Given("audio", v)
    BY <1>7 DEF Setting
  <2> QED BY <1>0, <2>1, FreeFields
<1>8. CASE k = "write events to file"
  <2>1. Setting(k, v) = Given("event_log", Bool(v))
    BY <1>8 DEF Setting
  <2> QED BY <1>0, <2>1, FreeFields
<1>9. CASE k = "write nmea to file"
  <2>1. Setting(k, v) = Given("nmea_log", Bool(v))
    BY <1>9 DEF Setting
  <2> QED BY <1>0, <2>1, FreeFields
<1>10. CASE k = "protocol"
  <2>1. Setting(k, v) = Given("protocol", IF v = "rawtcpip" THEN "tcp" ELSE "ntrip")
    BY <1>10 DEF Setting
  <2> QED BY <1>0, <2>1, FreeFields
<1>11. CASE k = "ntrip use manual gga"
  <2>1. Setting(k, v) = Given("gga_source", IF Bool(v) THEN "manual" ELSE "receiver")
    BY <1>11 DEF Setting
  <2> QED BY <1>0, <2>1, FreeFields
<1>12. CASE k = "ntrip manual latitude"
  <2>1. Setting(k, v) = When(IsNumber(v), "manual_lat", v)
    BY <1>12 DEF Setting
  <2> QED BY <2>1, FreeFields, WhenLegal
<1>13. CASE k = "ntrip manual longitude"
  <2>1. Setting(k, v) = When(IsNumber(v), "manual_lon", v)
    BY <1>13 DEF Setting
  <2> QED BY <2>1, FreeFields, WhenLegal
<1>14. CASE k = "receiver type"
  <2>1. Setting(k, v) = Given("autoconfig", v = "novatel")
    BY <1>14 DEF Setting
  <2> QED BY <1>0, <2>1, FreeFields
<1>15. CASE k = "receiver correction format"
  <2>1. Setting(k, v) = When(v = "rtcm", "format", v)
    BY <1>15 DEF Setting
  <2> QED BY <2>1, FreeFields, WhenLegal
<1>16. CASE k = "receiver message rate"
  <2>1. Setting(k, v) = When(v \in {"1", "5", "10"}, "rate", v)
    BY <1>16 DEF Setting
  <2>2. v \in {"1", "5", "10"} => Legal("rate", v)
    BY DEF Legal, Defaults
  <2> QED BY <2>1, <2>2, WhenLegal, Zenon
<1>17. CASE k = "check for updates"
  <2>1. Setting(k, v) = Given("updates", IF Bool(v) THEN "startup" ELSE "off")
    BY <1>17 DEF Setting
  <2> QED BY <1>0, <2>1, FreeFields
<1>18. CASE k = "check for updates interval"
  <2>1. Setting(k, v) = Given("updates", IF v = "weekly" THEN "weekly" ELSE "off")
    BY <1>18 DEF Setting
  <2> QED BY <1>0, <2>1, FreeFields
<1>19. CASE k = "last checked for updates"
  <2>1. Setting(k, v) = Given("last_check", v)
    BY <1>19 DEF Setting
  <2> QED BY <1>0, <2>1, FreeFields
<1>20. CASE k = "serial should be connected"
  <2>1. Setting(k, v) = Given("serial_up", Bool(v))
    BY <1>20 DEF Setting
  <2> QED BY <1>0, <2>1, FreeFields
<1>21. CASE k = "ntrip should be connected"
  <2>1. Setting(k, v) = Given("ntrip_up", Bool(v))
    BY <1>21 DEF Setting
  <2> QED BY <1>0, <2>1, FreeFields
<1> QED BY <1>1, <1>2, <1>3, <1>4, <1>5, <1>6, <1>7, <1>8, <1>9, <1>10, <1>11, <1>12, <1>13, <1>14, <1>15, <1>16, <1>17, <1>18, <1>19, <1>20, <1>21 DEF SettingsKeys

\* What becomes of a line: nothing if it has no key, a line of the log that
\* says why not, or a value in the settings, logged or not.
TakenUp(l, acc, nxt) ==
  \E f, x : /\ Means(l) = Given(f, x) /\ Legal(f, x)
            /\ nxt.s = [acc.s EXCEPT ![f] = x]
            /\ \/ nxt.log = acc.log
               \/ \E m : /\ nxt.log = Append(acc.log, <<"imported", m>>)
                         /\ m.key = "ntrip password" => m.value = "****"
RefusedNow(l, acc, nxt) ==
  \E why \in {"unknown", "invalid", "automatic"} :
    nxt.s = acc.s /\ nxt.log = Append(acc.log, <<why, l>>)
Outcome(l, acc, nxt) == /\ DOMAIN nxt = {"s", "log"}
                        /\ \/ ~IsPair(l) /\ nxt = acc
                           \/ RefusedNow(l, acc, nxt)
                           \/ TakenUp(l, acc, nxt)

\* A line that is refused is logged with its reason, and sets nothing.
LEMMA LogIs ==
  ASSUME NEW acc, DOMAIN acc = {"s", "log"}, NEW l,
         NEW why \in {"unknown", "invalid", "automatic"}
  PROVE  Outcome(l, acc, [acc EXCEPT !.log = Append(@, <<why, l>>)])
<1> DEFINE nxt == [acc EXCEPT !.log = Append(@, <<why, l>>)]
<1>1. DOMAIN nxt = {"s", "log"} /\ nxt.s = acc.s /\ nxt.log = Append(acc.log, <<why, l>>)
  OBVIOUS
<1> HIDE DEF nxt
<1> QED BY <1>1 DEF Outcome, RefusedNow

\* A line of ntripconfig.txt is refused in the log, or sets its field.
LEMMA ConfigLine ==
  ASSUME NEW acc, DOMAIN acc = {"s", "log"}, NEW l \in [key : STRING, value : STRING]
  PROVE  Outcome(l, acc, import_ntripconfig_key(l, acc))
<1> DEFINE nxt == import_ntripconfig_key(l, acc)
<1> SUFFICES Outcome(l, acc, nxt)
  OBVIOUS
<1> HIDE DEF nxt
<1>1. CASE l.key \notin DOMAIN ConfigKeys
  <2>1. nxt = [acc EXCEPT !.log = Append(@, <<"unknown", l>>)]
    BY <1>1, Zenon DEF import_ntripconfig_key, nxt
  <2> QED BY <2>1, LogIs
<1>2. CASE l.key \in DOMAIN ConfigKeys /\ l.key = "ntrip caster port" /\ ~IsNumber(l.value)
  <2>1. nxt = [acc EXCEPT !.log = Append(@, <<"invalid", l>>)]
    BY <1>2, Zenon DEF import_ntripconfig_key, nxt
  <2> QED BY <2>1, LogIs
<1>3. CASE l.key \in DOMAIN ConfigKeys /\ ~(l.key = "ntrip caster port" /\ ~IsNumber(l.value))
  <2> DEFINE m == [l EXCEPT !.value = LoggedValue(l)]
  <2>1. nxt = [s |-> [acc.s EXCEPT ![ConfigKeys[l.key]] = l.value],
               log |-> Append(acc.log, <<"imported", m>>)]
    BY <1>3, Zenon DEF import_ntripconfig_key, nxt
  <2>2. m.key = "ntrip password" => m.value = "****"
    BY DEF LoggedValue
  <2>3. Means(l) = Given(ConfigKeys[l.key], l.value)
    BY <1>3 DEF Means
  <2>4. Legal(ConfigKeys[l.key], l.value)
    BY <1>3, FreeFields DEF ConfigKeys
  <2> HIDE DEF m
  <2>5. /\ DOMAIN nxt = {"s", "log"} /\ nxt.s = [acc.s EXCEPT ![ConfigKeys[l.key]] = l.value]
        /\ nxt.log = Append(acc.log, <<"imported", m>>)
    BY <2>1
  <2> HIDE <2>1
  <2>6. TakenUp(l, acc, nxt)
    BY <2>2, <2>3, <2>4, <2>5, Zenon DEF TakenUp
  <2> QED BY <2>5, <2>6, Zenon DEF Outcome
<1> QED BY <1>1, <1>2, <1>3

\* And so is, or does, a line of Settings.txt.
LEMMA SettingsLine ==
  ASSUME NEW acc, DOMAIN acc = {"s", "log"}, NEW l \in [key : STRING, value : STRING]
  PROVE  Outcome(l, acc, import_settings_key(l, acc))
<1> DEFINE nxt == import_settings_key(l, acc)
           set == Setting(l.key, l.value)
<1> SUFFICES Outcome(l, acc, nxt)
  OBVIOUS
<1> HIDE DEF nxt
<1>1. CASE l.key = "ntrip only send gga once"
  <2>1. nxt = [acc EXCEPT !.log = Append(@, <<"automatic", l>>)]
    BY <1>1, Zenon DEF import_settings_key, nxt
  <2> QED BY <2>1, LogIs
<1>2. CASE l.key # "ntrip only send gga once" /\ l.key \notin SettingsKeys
  <2>1. nxt = [acc EXCEPT !.log = Append(@, <<"unknown", l>>)]
    BY <1>2, Zenon DEF import_settings_key, nxt
  <2> QED BY <2>1, LogIs
<1>3. CASE l.key # "ntrip only send gga once" /\ l.key \in SettingsKeys /\ set = Wrong
  <2>1. nxt = [acc EXCEPT !.log = Append(@, <<"invalid", l>>)]
    BY <1>3, Zenon DEF import_settings_key, nxt
  <2> QED BY <2>1, LogIs
<1>4. CASE l.key # "ntrip only send gga once" /\ l.key \in SettingsKeys /\ set # Wrong
  <2>1. nxt = [s |-> [acc.s EXCEPT ![set[1]] = set[2]],
               log |-> IF l.key = "last checked for updates" THEN acc.log
                       ELSE Append(acc.log, <<"imported", l>>)]
    BY <1>4, Zenon DEF import_settings_key, nxt
  <2>2. l.key # "ntrip password" /\ l.key \notin DOMAIN ConfigKeys
    BY <1>4 DEF SettingsKeys, ConfigKeys
  <2>3. Means(l) = set
    BY <1>4, <2>2 DEF Means
  <2>4. PICK f, x : set = Given(f, x) /\ Legal(f, x)
    BY <1>4, SettingLegal, Zenon DEF IsLegal
  <2>5. set[1] = f /\ set[2] = x
    BY <2>4 DEF Given
  <2> HIDE DEF set
  <2>6. /\ DOMAIN nxt = {"s", "log"} /\ nxt.s = [acc.s EXCEPT ![f] = x]
        /\ nxt.log = acc.log \/ nxt.log = Append(acc.log, <<"imported", l>>)
    BY <2>1, <2>5
  <2> HIDE <2>1
  <2>7. TakenUp(l, acc, nxt)
    BY <2>2, <2>3, <2>4, <2>6, Zenon DEF TakenUp
  <2> QED BY <2>6, <2>7, Zenon DEF Outcome
<1> QED BY <1>1, <1>2, <1>3, <1>4

\* The lines are numbered, and each is a key and a value.
LEMMA LinesAre ==
  /\ Len(Lines) \in Nat /\ DOMAIN Lines = 1 .. Len(Lines)
  /\ \A n \in DOMAIN Lines : Lines[n] \in [key : STRING, value : STRING]
<1>1. Lines \in Seq([key : STRING, value : STRING])
  BY LegacyAssumption, ConcatProperties DEF Lines
<1>2. Len(Lines) \in Nat /\ DOMAIN Lines = 1 .. Len(Lines)
  BY <1>1, LenProperties
<1> QED BY <1>1, <1>2, ElementOfSeq

\* A line of either file is skipped, refused or set.
LEMMA LineOutcome ==
  ASSUME NEW acc, DOMAIN acc = {"s", "log"}, NEW n \in DOMAIN Lines
  PROVE  Outcome(Lines[n], acc, ImportLine(n, acc))
<1>1. Lines[n] \in [key : STRING, value : STRING]
  BY LinesAre
<1>2. CASE ~IsPair(Lines[n])
  BY <1>2, Zenon DEF Outcome, ImportLine
<1>3. CASE IsPair(Lines[n]) /\ n <= Len(Legacy.ntripconfig)
  BY <1>1, <1>3, ConfigLine, Zenon DEF ImportLine
<1>4. CASE IsPair(Lines[n]) /\ ~(n <= Len(Legacy.ntripconfig))
  BY <1>1, <1>4, SettingsLine, Zenon DEF ImportLine
<1> QED BY <1>2, <1>3, <1>4

\* A list grows at its end.
LEMMA ListGrows ==
  ASSUME NEW p, IsList(p), NEW x
  PROVE  /\ IsList(Append(p, x)) /\ Len(p) \in Nat /\ DOMAIN p = 1 .. Len(p)
         /\ DOMAIN Append(p, x) = 1 .. Len(p) + 1
         /\ Append(p, x)[Len(p) + 1] = x /\ \A k \in DOMAIN p : Append(p, x)[k] = p[k]
<1> DEFINE S == ToSet(p) \cup {x}
           q == Append(p, x)
<1>1. p \in Seq(S) /\ Len(p) \in Nat /\ DOMAIN p = 1 .. Len(p)
  BY DEF IsList
<1>2. /\ q \in Seq(S) /\ DOMAIN q = 1 .. Len(p) + 1
      /\ q[Len(p) + 1] = x /\ \A k \in DOMAIN p : q[k] = p[k]
  BY <1>1
<1> HIDE DEF q
<1>3. q \in Seq(ToSet(q))
  <2>1. Len(q) \in Nat /\ q = [k \in 1 .. Len(q) |-> q[k]] /\ DOMAIN q = 1 .. Len(q)
    BY <1>2
  <2>2. \A k \in 1 .. Len(q) : q[k] \in ToSet(q)
    BY <2>1 DEF ToSet
  <2> QED BY <2>1, <2>2, IsASeq
<1> QED BY <1>1, <1>2, <1>3, Zenon DEF IsList, q

\* What the first n lines have made: settings that normalize lets stand; every
\* one of them refused in the log or the last to set its field; no password.
Plain(s) == /\ IsSettings(s) /\ s.profiles = <<"Imported">> /\ s.active = "Imported"
            /\ s.version = "1" /\ s.data_bits \in {"7", "8"} /\ s.stop_bits \in {"1", "2"}
            /\ s.rate \in {"1", "5", "10"}
SetBy(i, m, k) == /\ Means(Lines[k]) # Wrong /\ Means(Lines[m]) # Wrong
                  /\ Means(Lines[k])[1] = Means(Lines[m])[1]
                  /\ i.s[Means(Lines[k])[1]] = Means(Lines[k])[2]
Accounted(i, m, n) == IsPair(Lines[m]) => Refused(i, Lines[m]) \/ \E k \in m .. n : SetBy(i, m, k)
Masked(line) == line[1] = "imported" /\ line[2].key = "ntrip password" => line[2].value = "****"
Whole(acc, n) == /\ DOMAIN acc = {"s", "log"} /\ Plain(acc.s) /\ IsList(acc.log)
                 /\ \A m \in 1 .. n : Accounted(acc, m, n)
                 /\ \A k \in DOMAIN acc.log : Masked(acc.log[k])

\* What a longer log holds.
LEMMA LogGrows ==
  ASSUME NEW acc, NEW nxt, IsList(acc.log), NEW e, nxt.log = Append(acc.log, e)
  PROVE  /\ IsList(nxt.log)
         /\ \A l : Refused(acc, l) => Refused(nxt, l)
         /\ (\A k \in DOMAIN acc.log : Masked(acc.log[k])) /\ Masked(e) =>
               \A k \in DOMAIN nxt.log : Masked(nxt.log[k])
         /\ \E k \in DOMAIN nxt.log : nxt.log[k] = e
<1> DEFINE p == acc.log
           q == nxt.log
<1>1. /\ IsList(q) /\ Len(p) \in Nat /\ DOMAIN p = 1 .. Len(p) /\ DOMAIN q = 1 .. Len(p) + 1
      /\ q[Len(p) + 1] = e /\ \A k \in DOMAIN p : q[k] = p[k]
  BY ListGrows
<1> HIDE DEF p, q
<1>2. DOMAIN p \subseteq DOMAIN q /\ Len(p) + 1 \in DOMAIN q
  BY <1>1
<1>3. \A l : Refused(acc, l) => Refused(nxt, l)
  BY <1>1, <1>2, Zenon DEF Refused, p, q
<1>4. ASSUME \A k \in DOMAIN p : Masked(p[k]), Masked(e), NEW k \in DOMAIN q PROVE Masked(q[k])
  <2>1. k \in DOMAIN p \/ k = Len(p) + 1
    BY <1>1
  <2> QED BY <1>1, <1>4, <2>1, Zenon
<1> QED BY <1>1, <1>2, <1>3, <1>4, Zenon DEF p, q

\* A field that is set is never the sign for none.
LEMMA GivenIs ==
  ASSUME NEW f, NEW x
  PROVE  Given(f, x) # Wrong /\ Given(f, x)[1] = f /\ Given(f, x)[2] = x
BY DEF Given, Wrong

\* What a line sets is a field of the settings.
LEMMA SetsField ==
  ASSUME NEW l, Means(l) # Wrong
  PROVE  Means(l)[1] \in DOMAIN Defaults
<1>1. CASE l.key \in DOMAIN ConfigKeys
  <2>1. Means(l)[1] = ConfigKeys[l.key]
    BY <1>1 DEF Means, Given
  <2> QED BY <1>1, <2>1 DEF ConfigKeys, Defaults
<1>2. CASE l.key \notin DOMAIN ConfigKeys
  <2>1. Means(l) = Setting(l.key, l.value) /\ l.key \in SettingsKeys
    BY <1>2 DEF Means
  <2>2. PICK f, x : Means(l) = Given(f, x) /\ Legal(f, x)
    BY <2>1, SettingLegal, Zenon DEF IsLegal
  <2> QED BY <2>2 DEF Given, Legal
<1> QED BY <1>1, <1>2

\* One line more: those before it are still accounted for, by it if it sets
\* their field again, and it is itself.
LEMMA WholeStep ==
  ASSUME NEW n \in Nat, n + 1 \in DOMAIN Lines, NEW acc, Whole(acc, n), NEW nxt,
         Outcome(Lines[n + 1], acc, nxt)
  PROVE  Whole(nxt, n + 1)
<1> DEFINE l == Lines[n + 1]
<1>0. /\ DOMAIN acc = {"s", "log"} /\ Plain(acc.s) /\ IsList(acc.log) /\ DOMAIN nxt = {"s", "log"}
      /\ \A m \in 1 .. n : Accounted(acc, m, n)
      /\ \A k \in DOMAIN acc.log : Masked(acc.log[k])
  BY Zenon DEF Whole, Outcome
<1>1. ASSUME Plain(nxt.s) /\ IsList(nxt.log),
             \A k \in DOMAIN nxt.log : Masked(nxt.log[k]),
             \A m \in 1 .. n : Accounted(nxt, m, n + 1),
             Accounted(nxt, n + 1, n + 1)
      PROVE  Whole(nxt, n + 1)
  <2>1. \A m \in 1 .. n + 1 : m \in 1 .. n \/ m = n + 1
    OBVIOUS
  <2> QED BY <1>0, <1>1, <2>1, Zenon DEF Whole
<1>2. ASSUME NEW m \in 1 .. n, \E k \in m .. n : SetBy(nxt, m, k)
      PROVE  \E k \in m .. n + 1 : SetBy(nxt, m, k)
  <2>1. m .. n \subseteq m .. n + 1
    OBVIOUS
  <2> QED BY <1>2, <2>1, Zenon
<1>3. n + 1 \in (n + 1) .. (n + 1) /\ \A m \in 1 .. n : n + 1 \in m .. n + 1
  OBVIOUS
<1> HIDE DEF l
<1>4. CASE ~IsPair(l) /\ nxt = acc
  <2>1. Accounted(nxt, n + 1, n + 1)
    BY <1>4, Zenon DEF Accounted, l
  <2>2. ASSUME NEW m \in 1 .. n PROVE Accounted(nxt, m, n + 1)
    BY <1>0, <1>2, <1>4, Zenon DEF Accounted
  <2> QED BY <1>0, <1>1, <1>4, <2>1, <2>2, Zenon
<1>5. CASE RefusedNow(l, acc, nxt)
  <2>1. PICK why \in {"unknown", "invalid", "automatic"} :
          nxt.s = acc.s /\ nxt.log = Append(acc.log, <<why, l>>)
    BY <1>5, Zenon DEF RefusedNow
  <2>2. Masked(<<why, l>>)
    BY DEF Masked
  <2>3. /\ IsList(nxt.log) /\ \A k \in DOMAIN nxt.log : Masked(nxt.log[k])
        /\ \A x : Refused(acc, x) => Refused(nxt, x)
        /\ \E k \in DOMAIN nxt.log : nxt.log[k] = <<why, l>>
    <3> DEFINE e == <<why, l>>
    <3>1. nxt.log = Append(acc.log, e) /\ Masked(e)
      BY <2>1, <2>2
    <3> HIDE DEF e
    <3>2. /\ IsList(nxt.log) /\ \A k \in DOMAIN nxt.log : Masked(nxt.log[k])
          /\ \A x : Refused(acc, x) => Refused(nxt, x)
          /\ \E k \in DOMAIN nxt.log : nxt.log[k] = e
      BY <1>0, <3>1, LogGrows
    <3> QED BY <3>2, Zenon DEF e
  <2>4. Accounted(nxt, n + 1, n + 1)
    BY <2>3, Zenon DEF Accounted, Refused, l
  <2>5. ASSUME NEW m \in 1 .. n PROVE Accounted(nxt, m, n + 1)
    <3>1. Accounted(acc, m, n)
      BY <1>0
    <3>2. \A k : SetBy(acc, m, k) => SetBy(nxt, m, k)
      BY <2>1, Zenon DEF SetBy
    <3> QED BY <1>2, <2>3, <3>1, <3>2, Zenon DEF Accounted
  <2> QED BY <1>0, <1>1, <2>1, <2>3, <2>4, <2>5, Zenon
<1>6. CASE TakenUp(l, acc, nxt)
  <2>1. PICK f, x : /\ Means(l) = Given(f, x) /\ Legal(f, x)
                    /\ nxt.s = [acc.s EXCEPT ![f] = x]
                    /\ \/ nxt.log = acc.log
                       \/ \E m : /\ nxt.log = Append(acc.log, <<"imported", m>>)
                                 /\ m.key = "ntrip password" => m.value = "****"
    BY <1>6, Zenon DEF TakenUp
  <2>2. /\ IsList(nxt.log) /\ \A k \in DOMAIN nxt.log : Masked(nxt.log[k])
        /\ \A y : Refused(acc, y) => Refused(nxt, y)
    <3>1. CASE nxt.log = acc.log
      BY <1>0, <3>1, Zenon DEF Refused
    <3>2. ASSUME NEW m, nxt.log = Append(acc.log, <<"imported", m>>),
                 m.key = "ntrip password" => m.value = "****"
          PROVE  /\ IsList(nxt.log) /\ \A k \in DOMAIN nxt.log : Masked(nxt.log[k])
                 /\ \A y : Refused(acc, y) => Refused(nxt, y)
      <4>1. Masked(<<"imported", m>>)
        BY <3>2 DEF Masked
      <4> QED BY <1>0, <3>2, <4>1, LogGrows, Zenon
    <3> QED BY <2>1, <3>1, <3>2, Zenon
  <2>3. Means(l) # Wrong /\ Means(l)[1] = f /\ Means(l)[2] = x
    <3>1. Means(l) = Given(f, x)
      BY <2>1
    <3> QED BY <3>1, GivenIs
  <2>4. /\ f \in DOMAIN acc.s /\ DOMAIN acc.s = DOMAIN Defaults
        /\ nxt.s[f] = x /\ \A g \in DOMAIN acc.s : g # f => nxt.s[g] = acc.s[g]
        /\ nxt.s = [g \in DOMAIN Defaults |-> nxt.s[g]]
    BY <1>0, <2>1 DEF Plain, IsSettings, Legal
  <2>5. Plain(nxt.s)
    BY <1>0, <2>1, <2>4, Fields DEF Plain, IsSettings, Legal
  <2>6. Accounted(nxt, n + 1, n + 1)
    BY <1>3, <2>3, <2>4, Zenon DEF Accounted, SetBy, l
  <2>7. ASSUME NEW m \in 1 .. n PROVE Accounted(nxt, m, n + 1)
    <3>1. Accounted(acc, m, n)
      BY <1>0
    <3>2. ASSUME NEW k \in m .. n, SetBy(acc, m, k) PROVE \E j \in m .. n + 1 : SetBy(nxt, m, j)
      <4>1. CASE Means(Lines[k])[1] = f
        <5>1. SetBy(nxt, m, n + 1)
          BY <2>3, <2>4, <3>2, <4>1, Zenon DEF SetBy, l
        <5> QED BY <1>3, <5>1, Zenon
      <4>2. CASE Means(Lines[k])[1] # f
        <5>1. Means(Lines[k])[1] \in DOMAIN acc.s
          BY <3>2, <2>4, SetsField DEF SetBy
        <5>2. SetBy(nxt, m, k)
          BY <2>4, <3>2, <4>2, <5>1, Zenon DEF SetBy
        <5> QED BY <1>2, <3>2, <5>2, Zenon
      <4> QED BY <4>1, <4>2
    <3> QED BY <2>2, <3>1, <3>2, Zenon DEF Accounted
  <2> QED BY <1>1, <2>2, <2>5, <2>6, <2>7, Zenon
<1> QED BY <1>4, <1>5, <1>6, Zenon DEF Outcome, l

\* The lines one by one, from defaults to the last.
AtFirst == [s |-> [Defaults EXCEPT !.profiles = <<"Imported">>, !.active = "Imported"],
           log |-> <<>>]
Imports(f, n) == /\ f = [k \in 0 .. n |-> f[k]]
                 /\ f[0] = AtFirst
                 /\ \A k \in 1 .. n : f[k] = ImportLine(k, f[k - 1])

\* The import of n lines goes on to the next one, ...
LEMMA ImportsOn ==
  ASSUME NEW n \in Nat, NEW f, Imports(f, n)
  PROVE  \E g : Imports(g, n + 1)
<1> DEFINE g == [k \in 0 .. n + 1 |-> IF k = n + 1 THEN ImportLine(n + 1, f[n]) ELSE f[k]]
<1>1. \A k \in 0 .. n : g[k] = f[k]
  OBVIOUS
<1>2. g[n + 1] = ImportLine(n + 1, f[n])
  OBVIOUS
<1>3. g = [k \in 0 .. n + 1 |-> g[k]]
  OBVIOUS
<1> HIDE DEF g
<1>4. ASSUME NEW k \in 1 .. n + 1 PROVE g[k] = ImportLine(k, g[k - 1])
  <2>1. CASE k \in 1 .. n
    <3>1. g[k] = f[k] /\ g[k - 1] = f[k - 1]
      BY <1>1, <2>1
    <3> QED BY <2>1, <3>1 DEF Imports
  <2>2. CASE k = n + 1
    <3>1. g[k - 1] = f[n]
      BY <1>1, <2>2
    <3> QED BY <1>2, <2>2, <3>1
  <2> QED BY <2>1, <2>2
<1>5. g[0] = AtFirst
  BY <1>1 DEF Imports
<1> QED BY <1>3, <1>4, <1>5 DEF Imports

\* ... so there is one of any number of lines, ...
LEMMA ImportsExist ==
  ASSUME NEW n \in Nat
  PROVE  \E f : Imports(f, n)
<1> DEFINE T == {m \in Nat : ~\E f : Imports(f, m)}
<1>1. 0 \notin T
  <2> DEFINE f == [k \in 0 .. 0 |-> AtFirst]
  <2>1. f = [k \in 0 .. 0 |-> f[k]] /\ f[0] = AtFirst
    OBVIOUS
  <2> HIDE DEF f
  <2>2. Imports(f, 0)
    BY <2>1 DEF Imports
  <2> QED BY <2>2
<1>2. T = {}
  <2> SUFFICES ASSUME T # {} PROVE FALSE
    OBVIOUS
  <2>1. PICK m \in T : \A k \in T : m <= k
    BY LeastNumber
  <2>2. m \in Nat /\ m # 0
    BY <1>1
  <2>3. m - 1 \in Nat /\ m - 1 \notin T /\ (m - 1) + 1 = m
    BY <2>1, <2>2
  <2>4. \E f : Imports(f, m - 1)
    BY <2>3
  <2>5. \E f : Imports(f, m)
    BY <2>3, <2>4, ImportsOn
  <2> QED BY <2>1, <2>5
<1> QED BY <1>2

\* ... and ImportLegacy is it, normalized.
LEMMA ImportIs ==
  \E f : Imports(f, Len(Lines)) /\ ImportLegacy = [f[Len(Lines)] EXCEPT !.s = Normalize(@)]
<1> DEFINE N == Len(Lines)
           F(g) == [n \in 0 .. N |-> IF n = 0 THEN AtFirst ELSE ImportLine(n, g[n - 1])]
           f == CHOOSE g : g = F(g)
<1>0. N \in Nat
  BY LinesAre
<1>1. ImportLegacy = [f[N] EXCEPT !.s = Normalize(@)]
  BY DEF ImportLegacy, AtFirst
<1>2. PICK g : Imports(g, N)
  BY <1>0, ImportsExist
<1> HIDE DEF N
<1>3. g = F(g)
  <2>1. g = [k \in 0 .. N |-> g[k]] /\ g[0] = AtFirst /\ \A k \in 1 .. N : g[k] = ImportLine(k, g[k - 1])
    BY <1>2 DEF Imports
  <2>2. ASSUME NEW k \in 0 .. N
        PROVE  g[k] = IF k = 0 THEN AtFirst ELSE ImportLine(k, g[k - 1])
    <3>1. CASE k = 0
      BY <2>1, <3>1
    <3>2. CASE k # 0
      <4>1. k \in 1 .. N
        BY <1>0, <3>2
      <4> QED BY <2>1, <3>2, <4>1
    <3> QED BY <3>1, <3>2
  <2> QED BY <2>1, <2>2
<1>4. f = F(f)
  <2> HIDE DEF F
  <2>1. \E h : h = F(h)
    BY <1>3
  <2> QED BY <2>1
<1> HIDE DEF f
<1>5. Imports(f, N)
  <2>1. \A k \in 0 .. N : f[k] = IF k = 0 THEN AtFirst ELSE ImportLine(k, f[k - 1])
    BY <1>4
  <2>2. f = [k \in 0 .. N |-> f[k]]
    BY <1>4
  <2>3. f[0] = AtFirst
    BY <1>0, <2>1
  <2>4. \A k \in 1 .. N : f[k] = ImportLine(k, f[k - 1])
    BY <1>0, <2>1
  <2> QED BY <2>2, <2>3, <2>4 DEF Imports
<1> QED BY <1>1, <1>5 DEF N

\* The list of profiles and the active one are replaced together.
LEMMA Renamed ==
  ASSUME NEW d, {"profiles", "active"} \subseteq DOMAIN d, NEW p, NEW a, NEW s,
         s = [d EXCEPT !.profiles = p, !.active = a]
  PROVE  /\ s = [g \in DOMAIN d |-> s[g]] /\ s.profiles = p /\ s.active = a
         /\ \A g \in DOMAIN d \ {"profiles", "active"} : s[g] = d[g]
OBVIOUS

\* A first line that is not accounted for would follow one that is.
LEMMA AllImported ==
  ASSUME NEW f, Imports(f, Len(Lines))
  PROVE  Whole(f[Len(Lines)], Len(Lines))
<1> DEFINE N == Len(Lines)
           T == {m \in Nat : m <= N /\ ~Whole(f[m], m)}
<1>0. N \in Nat /\ DOMAIN Lines = 1 .. N
  BY LinesAre
<1>1. Whole(f[0], 0)
  <2>1. f[0] = AtFirst
    BY DEF Imports
  <2>2. /\ DOMAIN AtFirst = {"s", "log"} /\ AtFirst.log = <<>>
        /\ AtFirst.s = [Defaults EXCEPT !.profiles = <<"Imported">>, !.active = "Imported"]
    BY DEF AtFirst
  <2>3. Plain(AtFirst.s)
    <3>1. /\ Defaults = [g \in DOMAIN Defaults |-> Defaults[g]]
          /\ Defaults.version = "1" /\ Defaults.data_bits = "8" /\ Defaults.stop_bits = "1"
          /\ Defaults.rate = "5"
      BY DEF Defaults
    <3>2. IsList(<<"Imported">>)
      BY OneName, Zenon
    <3> DEFINE s == AtFirst.s
    <3>3. /\ s = [g \in DOMAIN Defaults |-> s[g]]
          /\ s.profiles = <<"Imported">> /\ s.active = "Imported"
          /\ \A g \in DOMAIN Defaults \ {"profiles", "active"} : s[g] = Defaults[g]
      BY <2>2, Fields, Renamed
    <3>4. /\ s.version = Defaults.version /\ s.data_bits = Defaults.data_bits
          /\ s.stop_bits = Defaults.stop_bits /\ s.rate = Defaults.rate
      BY <3>3, Fields
    <3> HIDE DEF s
    <3>5. IsSettings(s)
      BY <3>2, <3>3, Zenon DEF IsSettings
    <3> QED BY <3>1, <3>3, <3>4, <3>5 DEF Plain, s
  <2>4. IsList(<<>>) /\ DOMAIN <<>> = {}
    BY DEF IsList
  <2> QED BY <2>1, <2>2, <2>3, <2>4 DEF Whole
<1>2. T = {}
  <2> SUFFICES ASSUME T # {} PROVE FALSE
    OBVIOUS
  <2>1. PICK m \in T : \A k \in T : m <= k
    BY LeastNumber
  <2>2. m \in Nat /\ m # 0 /\ m <= N /\ ~Whole(f[m], m)
    BY <1>1
  <2> DEFINE j == m - 1
  <2>3. j \in Nat /\ j + 1 = m /\ j <= N /\ j \notin T /\ m \in 1 .. N
    BY <1>0, <2>1, <2>2
  <2>4. Whole(f[j], j)
    BY <2>3
  <2>5. f[m] = ImportLine(m, f[j])
    BY <2>3 DEF Imports
  <2>6. Outcome(Lines[m], f[j], f[m])
    BY <1>0, <2>3, <2>4, <2>5, LineOutcome DEF Whole
  <2> HIDE DEF j, N, T
  <2>7. Whole(f[m], m)
    BY <1>0, <2>3, <2>4, <2>6, WholeStep
  <2> QED BY <2>2, <2>7
<1>3. N \notin T
  BY <1>2
<1> QED BY <1>0, <1>3

\* normalize lets the import's settings stand.
LEMMA PlainStands ==
  ASSUME NEW s, Plain(s)
  PROVE  Usable(Normalize(s)) /\ \A f \in DOMAIN Defaults : Normalize(s)[f] = s[f]
<1>1. s = [f \in DOMAIN Defaults |-> s[f]] /\ IsSettings(s)
  BY DEF Plain, IsSettings
<1>2. <<"Imported">> # <<>> /\ "Imported" \in ToSet(<<"Imported">>)
  BY OneName, Zenon
<1>3. ActiveOf(s, <<"Imported">>) = "Imported"
  BY <1>2 DEF ActiveOf, Plain
<1>4. \A f \in DOMAIN Defaults : Normalize(s)[f] = s[f]
  BY <1>1, <1>2, <1>3 DEF Normalize, Plain
<1> QED BY <1>1, <1>4, NormalizeUsable

\* The import of any files accounts for each line, and normalize changes nothing
\* of what a line set.
LEMMA ImportHolds == Usable(ImportLegacy.s) /\ ImportIsWhole
<1>1. PICK f : Imports(f, Len(Lines)) /\ ImportLegacy = [f[Len(Lines)] EXCEPT !.s = Normalize(@)]
  BY ImportIs
<1> DEFINE acc == f[Len(Lines)]
           i == ImportLegacy
           N == Len(Lines)
<1>2. Whole(acc, N)
  BY <1>1, AllImported
<1> HIDE DEF acc, i, N
<1>3. i.s = Normalize(acc.s) /\ i.log = acc.log
  BY <1>1, <1>2 DEF Whole, acc, i
<1>4. Usable(i.s) /\ \A g \in DOMAIN Defaults : i.s[g] = acc.s[g]
  BY <1>2, <1>3, PlainStands DEF Whole
<1>5. ASSUME NEW n \in DOMAIN Lines, IsPair(Lines[n])
      PROVE  Refused(i, Lines[n]) \/ Stands(i, n)
  <2>1. n \in 1 .. N
    BY LinesAre DEF N
  <2>2. Refused(acc, Lines[n]) \/ \E k \in n .. N : SetBy(acc, n, k)
    BY <1>2, <1>5, <2>1, Zenon DEF Whole, Accounted
  <2>3. Refused(acc, Lines[n]) => Refused(i, Lines[n])
    BY <1>3, Zenon DEF Refused
  <2>4. ASSUME NEW k \in n .. N, SetBy(acc, n, k) PROVE Stands(i, n)
    <3>1. Means(Lines[k])[1] \in DOMAIN Defaults
      BY <2>4, SetsField DEF SetBy
    <3> QED BY <1>4, <2>4, <3>1, Zenon DEF SetBy, Stands, N
  <2> QED BY <2>2, <2>3, <2>4, Zenon
<1>6. ASSUME NEW k \in DOMAIN i.log PROVE Masked(i.log[k])
  BY <1>2, <1>3 DEF Whole
<1> QED BY <1>4, <1>5, <1>6 DEF ImportIsWhole, Masked, i

-------------------------------------------------------------------------------
(* The steps *)

\* Without a file nothing is owed.
LEMMA StoreInit == SettingsInit => StoreInv
<1> SUFFICES ASSUME SettingsInit PROVE StoreInv
  OBVIOUS
<1> USE DEF SettingsInit
<1>1. broken \in Nat /\ FileIsWhole /\ FileOK
  BY DEF FileIsWhole, FileOK
<1>2. LastKept /\ RunOK /\ RunType
  BY DEF LastKept, RunOK, RunType
<1> QED BY <1>1, <1>2 DEF StoreInv

\* A run begins with its settings, and says whether there was a crash.
LEMMA StartIs ==
  ASSUME NEW s, NEW lines, Start(s, lines), Usable(s)
  PROVE  /\ app' # <<>> /\ RunType'
         /\ Usable(app'[1].s) /\ IsSettings(app'[1].last_saved)
         /\ app'[1].saves = 0 /\ app'[1].notice = marker
<1>1. /\ app' # <<>> /\ app'[1].s = s /\ app'[1].last_saved = s
      /\ app'[1].saves = 0 /\ app'[1].notice = marker
  BY DEF Start
<1>2. RunType'
  BY DEF Start, RunType
<1> QED BY <1>1, <1>2 DEF Usable

\* So a start keeps the invariant where the file is kept or made of settings,
\* and the last unreadable text is told of or copied.
LEMMA StartKeeps ==
  ASSUME StoreInv, Boot, NEW s, NEW lines, Start(s, lines), Usable(s),
         file' = intended', FileOK', broken \in owed => InCopy(broken)'
  PROVE  StoreInv'
<1>1. /\ app' # <<>> /\ RunType'
      /\ Usable(app'[1].s) /\ IsSettings(app'[1].last_saved)
      /\ app'[1].saves = 0 /\ app'[1].notice = marker
  BY StartIs
<1>2. app = <<>> /\ UNCHANGED <<saving, broken, owed, reported>>
  BY DEF Boot
<1>3. RunOK'
  BY <1>1, <1>2 DEF StoreInv, RunOK
<1>4. LastKept'
  BY <1>2 DEF StoreInv, LastKept
<1>5. broken' \in Nat /\ FileIsWhole'
  BY <1>2 DEF StoreInv, FileIsWhole
<1> QED BY <1>1, <1>3, <1>4, <1>5 DEF StoreInv

\* A file that is read needs no copy.
LEMMA LoadFileKeeps == ASSUME StoreInv, Boot, LoadFile PROVE StoreInv'
<1>1. file # <<>> /\ file[1].readable /\ UNCHANGED <<file, bad, intended, told, broken>>
  BY DEF LoadFile, Boot
<1>2. IsSettings(file[1].s) /\ file # Unread(broken)
  BY <1>1, TextsApart DEF StoreInv, FileOK
<1>3. Usable(Normalize(file[1].s))
  BY <1>2, NormalizeUsable
<1>4. file' = intended' /\ FileOK'
  BY <1>1 DEF StoreInv, FileIsWhole, FileOK
<1>5. broken \in owed => InCopy(broken)'
  BY <1>1, <1>2 DEF StoreInv, LastKept, InCopy
<1>6. Start(Normalize(file[1].s), <<>>)
  BY DEF LoadFile
<1> QED BY <1>3, <1>4, <1>5, <1>6, StartKeeps

\* The unreadable text is in the copy, or told of, before the run can save.
LEMMA LoadUnreadableKeeps == ASSUME StoreInv, Boot, LoadUnreadable PROVE StoreInv'
<1>1. PICK copied \in BOOLEAN :
        /\ file # <<>> /\ ~file[1].readable
        /\ bad' = Preserved(copied)
        /\ told' = IF copied THEN told ELSE told \cup {file[1].n}
        /\ Start(Defaults, <<"unreadable", copied>>)
        /\ UNCHANGED <<file, intended>>
  BY DEF LoadUnreadable
<1>2. UNCHANGED broken
  BY DEF Boot
<1>3. file = Unread(broken)
  BY <1>1, TextsApart DEF StoreInv, FileOK
<1>4. file[1].n = broken
  BY <1>3, TextsApart
<1>5. file' = intended' /\ FileOK'
  BY <1>1, <1>2 DEF StoreInv, FileIsWhole, FileOK
<1>6. InCopy(broken)'
  BY <1>1, <1>2, <1>4 DEF InCopy, Preserved
<1> QED BY <1>1, <1>5, <1>6, <1>2, DefaultsUsable, StartKeeps DEF InCopy

\* Neither file nor original: nothing to lose.
LEMMA LoadNothingKeeps == ASSUME StoreInv, Boot, LoadNothing PROVE StoreInv'
<1>1. file = <<>> /\ Start(Defaults, <<>>) /\ UNCHANGED <<file, bad, intended, told, broken>>
  BY DEF LoadNothing, Boot
<1>2. file' = intended' /\ FileOK'
  BY <1>1 DEF StoreInv, FileIsWhole, FileOK
<1>3. broken \in owed => InCopy(broken)'
  BY <1>1, TextsApart DEF StoreInv, LastKept, InCopy
<1> QED BY <1>1, <1>2, <1>3, DefaultsUsable, StartKeeps

\* An import is what it leaves in the file, saved or not.
LEMMA ImportKeeps == ASSUME StoreInv, Boot, Import PROVE StoreInv'
<1>1. PICK saved \in BOOLEAN :
        /\ file = <<>> /\ HasLegacy
        /\ file' = (IF saved THEN Text(ImportLegacy.s) ELSE file) /\ intended' = file'
        /\ Start(ImportLegacy.s, ImportLegacy.log)
        /\ UNCHANGED <<bad, told>>
  BY DEF Import
<1>2. Usable(ImportLegacy.s)
  BY ImportHolds
<1>3. UNCHANGED broken
  BY DEF Boot
<1>4. file' = <<>> \/ file' = Text(ImportLegacy.s)
  BY <1>1
<1>5. FileOK'
  BY <1>2, <1>4, TextsApart DEF FileOK, Usable
<1>6. broken \in owed => InCopy(broken)'
  BY <1>1, <1>3, TextsApart DEF StoreInv, LastKept, InCopy
<1> QED BY <1>1, <1>2, <1>5, <1>6, StartKeeps

\* The run stands as it is, or is over; the file and what became of the last
\* unreadable text stay.
LEMMA EndKeeps ==
  ASSUME StoreInv, UNCHANGED <<file, bad, intended, broken, owed, told>>,
         \/ app' = app /\ (reported' => reported) /\ (saving' # <<>> => app # <<>>)
         \/ app' = <<>> /\ saving' = <<>> /\ (reported' => marker'),
         app # <<>>
  PROVE  StoreInv'
<1>1. broken' \in Nat /\ FileIsWhole' /\ FileOK'
  BY DEF StoreInv, FileIsWhole, FileOK
<1>2. InCopy(broken)' <=> InCopy(broken)
  BY DEF InCopy
<1>3. LastKept'
  BY <1>2 DEF StoreInv, LastKept
<1>4. RunType'
  BY DEF StoreInv, RunType
<1>5. RunOK'
  BY DEF StoreInv, RunOK
<1> QED BY <1>1, <1>3, <1>4, <1>5 DEF StoreInv

\* Until the rename the file is what it was.
LEMMA SaveWriteKeeps == ASSUME StoreInv, SaveWrite PROVE StoreInv'
<1>1. PICK exits \in BOOLEAN, written \in BOOLEAN :
        /\ app # <<>> /\ saving = <<>>
        /\ saving' = (IF written THEN <<exits>> ELSE <<>>)
        /\ file' = (IF written THEN WhileWriting ELSE file)
        /\ app' = (IF exits /\ ~written THEN <<>> ELSE app)
        /\ reported' = (reported /\ app' # <<>>)
        /\ UNCHANGED <<bad, marker, runs, edits, intended, broken, owed, told>>
  BY DEF SaveWrite, AtRest
<1>2. file' = file
  BY <1>1 DEF WhileWriting
<1>3. CASE exits /\ ~written
  <2>1. app' = <<>> /\ saving' = <<>> /\ ~reported'
    BY <1>1, <1>3
  <2> QED BY <1>1, <1>2, <2>1, EndKeeps
<1>4. CASE ~(exits /\ ~written)
  <2>1. app' = app /\ (reported' => reported)
    BY <1>1, <1>4
  <2> QED BY <1>1, <1>2, <2>1, EndKeeps
<1> QED BY <1>3, <1>4

\* The rename makes the file what the run holds, and only then says so.
LEMMA SaveRenameKeeps == ASSUME StoreInv, SaveRename PROVE StoreInv'
<1>1. PICK renamed \in BOOLEAN :
        /\ saving # <<>> /\ saving' = <<>>
        /\ file' = (IF renamed THEN Text(app[1].s) ELSE file)
        /\ intended' = (IF renamed THEN file' ELSE intended)
        /\ app' = IF saving[1] THEN <<>>
                  ELSE IF SavedNow(renamed)
                  THEN <<[app[1] EXCEPT !.last_saved = app[1].s, !.saves = 1]>>
                  ELSE app
        /\ reported' = (reported /\ app' # <<>>)
        /\ UNCHANGED <<bad, marker, runs, edits, broken, owed, told>>
  BY DEF SaveRename
<1>2. app # <<>> /\ Usable(app[1].s)
  BY <1>1 DEF StoreInv, RunOK
<1>3. CASE ~renamed
  <2>1. UNCHANGED <<file, intended>> /\ (app' = app \/ app' = <<>>)
    BY <1>1, <1>3 DEF SavedNow
  <2>2. \/ app' = app /\ (reported' => reported)
        \/ app' = <<>> /\ ~reported'
    BY <1>1, <2>1
  <2> QED BY <1>1, <1>2, <2>1, <2>2, EndKeeps
<1>4. CASE renamed
  <2>1. file' = Text(app[1].s) /\ intended' = file'
    BY <1>1, <1>4
  <2>2. broken' \in Nat /\ FileIsWhole'
    BY <1>1, <2>1 DEF StoreInv, FileIsWhole
  <2>3. FileOK'
    BY <1>2, <2>1, TextsApart DEF FileOK, Usable
  <2>4. LastKept'
    BY <1>1, <1>2 DEF StoreInv, LastKept, InCopy
  <2>5. CASE saving[1]
    <3>1. app' = <<>> /\ ~reported'
      BY <1>1, <2>5
    <3>2. RunOK' /\ RunType'
      BY <1>1, <3>1 DEF RunOK, RunType
    <3> QED BY <2>2, <2>3, <2>4, <3>2 DEF StoreInv
  <2>6. CASE ~saving[1]
    <3>1. app' = <<[app[1] EXCEPT !.last_saved = app[1].s, !.saves = 1]>>
      BY <1>1, <1>4, <2>6 DEF SavedNow
    <3>2. DOMAIN app[1] = {"s", "last_saved", "log", "notice", "saves"}
      BY <1>2 DEF StoreInv, RunType
    <3>3. app' # <<>> /\ app'[1].s = app[1].s /\ app'[1].last_saved = app[1].s
          /\ app'[1].notice = app[1].notice /\ RunType'
      BY <3>1, <3>2 DEF RunType
    <3>4. RunOK'
      BY <1>1, <1>2, <2>1, <3>3 DEF StoreInv, RunOK, Usable
    <3> QED BY <2>2, <2>3, <2>4, <3>3, <3>4 DEF StoreInv
  <2> QED BY <2>5, <2>6
<1> QED BY <1>3, <1>4

\* A change in the window does not reach the file.
LEMMA EditKeeps == ASSUME StoreInv, Edit PROVE StoreInv'
<1>1. PICK f \in {"host", "tab"} :
        /\ app # <<>> /\ app' = <<[app[1] EXCEPT !.s[f] = Values[edits + 1]]>>
        /\ UNCHANGED <<file, bad, marker, saving, runs, intended, broken, owed, told, reported>>
  BY DEF Edit, AtRest
<1>2. DOMAIN app[1] = {"s", "last_saved", "log", "notice", "saves"}
  BY <1>1 DEF StoreInv, RunType
<1> DEFINE t == [app[1].s EXCEPT ![f] = Values[edits + 1]]
<1>3. /\ app' # <<>> /\ app'[1].s = t /\ app'[1].last_saved = app[1].last_saved
      /\ app'[1].notice = app[1].notice /\ app'[1].saves = app[1].saves /\ RunType'
  BY <1>1, <1>2 DEF RunType
<1>4. Usable(t)
  BY <1>1, EditUsable DEF StoreInv, RunOK
<1> HIDE DEF t
<1>6. RunOK'
  BY <1>1, <1>3, <1>4 DEF StoreInv, RunOK
<1>7. broken' \in Nat /\ FileIsWhole' /\ FileOK'
  BY <1>1 DEF StoreInv, FileIsWhole, FileOK
<1>8. LastKept'
  BY <1>1, <1>3 DEF StoreInv, LastKept, InCopy
<1> QED BY <1>3, <1>6, <1>7, <1>8 DEF StoreInv

\* A crash leaves the file, the copy and, if it could, its marker.
LEMMA CrashKeeps == ASSUME StoreInv, Crash PROVE StoreInv'
BY EndKeeps, Zenon DEF Crash, AtRest

\* A machine that goes down leaves what is on disk.
LEMMA PowerLossKeeps == ASSUME StoreInv, PowerLoss PROVE StoreInv'
BY EndKeeps DEF PowerLoss

\* A readable file stays readable under an editor's change.
LEMMA HandEditKeeps == ASSUME StoreInv, HandEdit PROVE StoreInv'
<1>1. PICK e \in HandEdits :
        /\ app = <<>> /\ file # <<>> /\ file[1].readable
        /\ file' = Text([f \in DOMAIN file[1].s |-> IF f \in DOMAIN e THEN e[f] ELSE file[1].s[f]])
        /\ intended' = file'
        /\ UNCHANGED <<bad, marker, app, saving, runs, broken, owed, told, reported>>
  BY DEF HandEdit
<1> DEFINE s == file[1].s
           t == [f \in DOMAIN s |-> IF f \in DOMAIN e THEN e[f] ELSE s[f]]
<1>2. IsSettings(s) /\ file # Unread(broken)
  BY <1>1, TextsApart DEF StoreInv, FileOK
<1>3. IsSettings(t)
  <2>1. DOMAIN s = DOMAIN Defaults /\ "profiles" \in DOMAIN s /\ IsList(s.profiles)
    BY <1>2, Fields DEF IsSettings
  <2>2. IsList(t.profiles)
    <3>1. t.profiles = IF "profiles" \in DOMAIN e THEN e["profiles"] ELSE s.profiles
      BY <2>1
    <3>2. "profiles" \in DOMAIN e => IsList(e["profiles"])
      BY EditsAssumption, Zenon DEF IsList
    <3> HIDE DEF t
    <3> QED BY <2>1, <3>1, <3>2, Zenon
  <2>3. t = [f \in DOMAIN Defaults |-> t[f]]
    BY <2>1
  <2> QED BY <2>2, <2>3 DEF IsSettings
<1>4. file' = Text(t)
  BY <1>1
<1> HIDE DEF t
<1>5. FileOK' /\ broken' \in Nat /\ FileIsWhole'
  BY <1>1, <1>3, <1>4, TextsApart DEF FileOK, StoreInv, FileIsWhole
<1>6. LastKept'
  BY <1>1, <1>2 DEF StoreInv, LastKept, InCopy
<1>7. RunOK' /\ RunType'
  BY <1>1 DEF StoreInv, RunOK, RunType
<1> QED BY <1>5, <1>6, <1>7 DEF StoreInv

\* A new unreadable text is the last one, and is in the file.
LEMMA SlipKeeps == ASSUME StoreInv, Slip PROVE StoreInv'
<1>1. /\ app = <<>> /\ broken' = broken + 1
      /\ file' = Unread(broken + 1) /\ intended' = file'
      /\ owed' = (owed \ {file[1].n}) \cup {broken + 1}
      /\ UNCHANGED <<bad, marker, app, saving, runs, edits, told, reported>>
  BY DEF Slip
<1>2. broken' \in Nat /\ FileIsWhole' /\ FileOK'
  BY <1>1 DEF StoreInv, FileIsWhole, FileOK
<1>3. LastKept'
  <2>1. owed \subseteq 1 .. broken /\ broken \in Nat
    BY DEF StoreInv, LastKept
  <2>2. ASSUME NEW n \in owed' PROVE n \in 1 .. broken + 1
    <3>1. CASE n \in owed
      BY <2>1, <3>1
    <3>2. CASE n = broken + 1
      BY <2>1, <3>2
    <3> QED BY <1>1, <2>2, <3>1, <3>2, Zenon
  <2> QED BY <1>1, <2>2 DEF LastKept
<1>4. RunOK' /\ RunType'
  BY <1>1 DEF StoreInv, RunOK, RunType
<1> QED BY <1>2, <1>3, <1>4 DEF StoreInv

\* What is repaired is owed no longer.
LEMMA RepairKeeps == ASSUME StoreInv, Repair PROVE StoreInv'
<1>1. /\ app = <<>> /\ bad # <<>>
      /\ file' = Text(Defaults) /\ intended' = file' /\ bad' = <<>>
      /\ owed' = owed \ {t[1].n : t \in {bad, file} \ {<<>>}}
      /\ UNCHANGED <<marker, app, saving, runs, edits, broken, told, reported>>
  BY DEF Repair
<1>2. broken' \in Nat /\ FileIsWhole' /\ FileOK'
  BY <1>1, TextsApart, DefaultsUsable DEF StoreInv, FileIsWhole, FileOK, Usable
<1>3. LastKept'
  <2>1. owed' \subseteq 1 .. broken'
    BY <1>1 DEF StoreInv, LastKept
  <2>2. ASSUME broken \in owed' PROVE broken \in told
    <3>1. broken \in owed /\ bad[1].n # broken
      BY <1>1, <2>2
    <3>2. file # Unread(broken)
      <4> SUFFICES ASSUME file = Unread(broken) PROVE FALSE
        OBVIOUS
      <4>1. file # <<>> /\ file[1].n = broken
        BY TextsApart
      <4> QED BY <1>1, <2>2, <4>1
    <3> QED BY <3>1, <3>2 DEF StoreInv, LastKept, InCopy
  <2> QED BY <1>1, <2>1, <2>2 DEF LastKept, InCopy
<1>4. RunOK' /\ RunType'
  BY <1>1 DEF StoreInv, RunOK, RunType
<1> QED BY <1>2, <1>3, <1>4 DEF StoreInv

\* At every step of every run settings.toml is whole, the last unreadable text is
\* in it, in the copy or told of, and the run knows what it saved: inductive, for
\* any edits, crashes and files of the original client.
THEOREM StoreHolds == SettingsSpec => []StoreInv
<1>1. ASSUME StoreInv, [SettingsNext]_ssVars PROVE StoreInv'
  <2>1. CASE Boot
    <3>1. LoadFile \/ LoadUnreadable \/ LoadNothing \/ Import
      BY <2>1 DEF Boot
    <3> QED BY <1>1, <2>1, <3>1, LoadFileKeeps, LoadUnreadableKeeps, LoadNothingKeeps, ImportKeeps
  <2>2. CASE Edit
    BY <1>1, <2>2, EditKeeps
  <2>3. CASE SaveWrite
    BY <1>1, <2>3, SaveWriteKeeps
  <2>4. CASE SaveRename
    BY <1>1, <2>4, SaveRenameKeeps
  <2>5. CASE Crash
    BY <1>1, <2>5, CrashKeeps
  <2>6. CASE PowerLoss
    BY <1>1, <2>6, PowerLossKeeps
  <2>7. CASE HandEdit
    BY <1>1, <2>7, HandEditKeeps
  <2>8. CASE Slip
    BY <1>1, <2>8, SlipKeeps
  <2>9. CASE Repair
    BY <1>1, <2>9, RepairKeeps
  <2>10. CASE UNCHANGED ssVars
    <3> USE <2>10 DEF ssVars
    <3>1. broken' \in Nat /\ FileIsWhole' /\ FileOK'
      BY <1>1 DEF StoreInv, FileIsWhole, FileOK
    <3>2. LastKept'
      BY <1>1 DEF StoreInv, LastKept, InCopy
    <3>3. RunOK' /\ RunType'
      BY <1>1 DEF StoreInv, RunOK, RunType
    <3> QED BY <3>1, <3>2, <3>3 DEF StoreInv
  <2> QED BY <1>1, <2>1, <2>2, <2>3, <2>4, <2>5, <2>6, <2>7, <2>8, <2>9, <2>10 DEF SettingsNext
<1> QED BY <1>1, StoreInit, PTL DEF SettingsSpec

-------------------------------------------------------------------------------
(* What follows for the user's file *)

\* A set of numbers up to a bound has a greatest.
LEMMA MaxIn ==
  ASSUME NEW b \in Nat, NEW S, S \subseteq 1 .. b, S # {}
  PROVE  Max(S) \in S
<1> DEFINE T == {b - x : x \in S}
<1>1. T \in SUBSET Nat /\ T # {}
  <2>1. ASSUME NEW x \in S PROVE b - x \in Nat
    <3>1. x \in 1 .. b
      OBVIOUS
    <3> QED BY <3>1
  <2> QED BY <2>1
<1>2. PICK m \in T : \A k \in T : m <= k
  BY <1>1, LeastNumber
<1>3. PICK x \in S : m = b - x
  OBVIOUS
<1>4. ASSUME NEW y \in S PROVE y <= x
  <2>1. b - y \in T /\ b - x <= b - y
    BY <1>2, <1>3
  <2> QED BY <2>1
<1>5. \E z \in S : \A y \in S : z >= y
  BY <1>4
<1> QED BY <1>5 DEF Max

\* settings.toml and what a run knows of it, for any files of the original
\* client, any edits, and any number of runs, crashes and unreadable texts: the
\* file is whole whatever interrupts a save, the last text that could not be
\* read is never lost in silence, Saved is said of what is in the file, a crash
\* that left its marker is announced, the active profile exists, and no line of
\* the original's files is dropped without a word.
THEOREM SettingsHold == SettingsSpec => []SettingsKept
<1>1. ASSUME StoreInv PROVE SettingsKept
  <2>1. FileIsWhole
    BY <1>1 DEF StoreInv
  <2>2. EvidenceKept
    <3> SUFFICES ASSUME owed # {}, Max(owed) = broken PROVE Held(Max(owed))
      BY DEF EvidenceKept
    <3>1. broken \in owed
      BY <1>1, MaxIn DEF StoreInv, LastKept
    <3>2. CASE InCopy(broken)
      BY <3>2 DEF InCopy, Held
    <3>3. CASE file = Unread(broken)
      BY <3>3, TextsApart DEF Held
    <3> QED BY <1>1, <3>1, <3>2, <3>3 DEF StoreInv, LastKept
  <2>3. SavedIsWritten
    <3> SUFFICES ASSUME SaysSaved, app[1].saves # 0 PROVE Written
      BY DEF SavedIsWritten
    <3>1. app # <<>> /\ persistable_eq(app[1].s, app[1].last_saved)
      BY DEF SaysSaved, AtRest
    <3>2. file = Text(app[1].last_saved)
      BY <1>1, <3>1 DEF StoreInv, RunOK
    <3>3. file # <<>> /\ file[1].readable /\ file[1].s = app[1].last_saved
      BY <3>2, TextsApart
    <3> QED BY <3>1, <3>3, Zenon DEF Written
  <2>4. CrashIsTold
    BY <1>1 DEF StoreInv, RunOK, CrashIsTold
  <2>5. ActiveExists
    BY <1>1 DEF StoreInv, RunOK, Usable, ActiveExists
  <2> QED BY <2>1, <2>2, <2>3, <2>4, <2>5, ImportHolds DEF SettingsKept
<1> QED BY <1>1, StoreHolds, PTL
===============================================================================
