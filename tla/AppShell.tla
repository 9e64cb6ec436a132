-------------------------------- MODULE AppShell --------------------------------
(***************************************************************************)
(* The window around one caster session: connect, disconnect and switch,   *)
(* the channel a worker posts to, the frame that folds it into what is     *)
(* shown, and the verdict the session band gives.                          *)
(*                                                                         *)
(* A time is "recent", or "old" once STALL_AFTER has passed.  Log lines    *)
(* and the hint about a missing receiver are left out.                     *)
(***************************************************************************)
EXTENDS Naturals, FiniteSets, SequencesExt

CONSTANTS Profiles,    \* what a profile may hold: [name, host, mount, raw, insecure]
          Listings,    \* the tables a caster may send: host -> sequences of [mount, nmea]
          SameMount(_, _),   \* equal but for the case of letters
          Policies,          \* [auto, max] in the Options
          MaxSessions, MaxTotal, MaxChan

\* A profile is made of strings and switches.
ASSUME ProfilesAssumption ==
  Profiles \subseteq [name : STRING, host : STRING, mount : STRING, raw : BOOLEAN, insecure : BOOLEAN]

VARIABLES
  profile, sourcetable, tab,          \* the active profile; its caster's table
  ntrip,                              \* App.ntrip: <<>>, or the handle
  workers,                            \* the worker threads alive, by session
  chan,                               \* what they posted and no frame has drained
  status, since, last_rx,             \* NtripUi: the status, and two times
  figures,                            \* NtripUi: the rest that a session resets
  unknown, ack,                       \* unknown responses, and the last one seen
  insecure_tls_active, meter,         \* App: the banner; the activity bar
  flag,                               \* ghost: what the log said of a mountpoint
                                      \* since the last connect
  sessions, from, ended, policy       \* ghosts: sessions so far; those the figures
                                      \* come from; how the last ended; the Options

shown == <<status, since, last_rx, figures, unknown>>
vars == <<profile, sourcetable, tab, ntrip, workers, chan, shown, ack, insecure_tls_active,
          meter, flag, sessions, from, ended, policy>>

Status(kind) == [kind |-> kind, attempt |-> 0, why |-> "", failed |-> FALSE]
Fresh == [total |-> 0, frames |-> 0, garbage |-> FALSE, trouble |-> "", last_close |-> ""]
Still == [level |-> 0, last |-> 0]

Init ==
  /\ profile \in Profiles /\ sourcetable = <<>> /\ tab = "Sourcetable"
  /\ ntrip = <<>> /\ workers = <<>> /\ chan = <<>>
  /\ status = Status("Idle") /\ since = "recent" /\ last_rx = "none" /\ figures = Fresh
  /\ unknown = [raw |-> 0, gen |-> 0] /\ ack = 0
  /\ insecure_tls_active = FALSE /\ meter = Still /\ flag = <<>>
  /\ sessions = 0 /\ from = {} /\ ended = <<>> /\ policy \in Policies
-------------------------------------------------------------------------------
(* What is asked of a sourcetable *)

\* An exact name before one in other letters: <<>>, or the mount's entry.
Entry(strs, mount) ==
  LET exact == SelectSeq(strs, LAMBDA s : s.mount = mount)
      close == SelectSeq(strs, LAMBDA s : SameMount(s.mount, mount))
  IN IF exact # <<>> THEN <<exact[1]>> ELSE IF close # <<>> THEN <<close[1]>> ELSE <<>>
\* fault: the table of whichever caster is loaded
OfCaster_Any(table, host) == table # <<>>
OfCaster(table, host) == table # <<>> /\ table[1].host = host
str_record(host, mount) ==
  IF OfCaster(sourcetable, host) THEN Entry(sourcetable[1].strs, mount) ELSE <<>>
-------------------------------------------------------------------------------
(* The user *)

Busy == ntrip # <<>>
Loaded == OfCaster(sourcetable, profile.host)

\* fault: what the last connection had in trouble or on its meter stays
Reset_Partly == [Fresh EXCEPT !.trouble = figures.trouble, !.total = figures.total]
Reset == Fresh
Spawn(table_only) ==
  LET mount == IF table_only THEN "" ELSE profile.mount
      raw == profile.raw /\ ~table_only
      table == ~raw /\ mount = ""
      entry == str_record(profile.host, mount)
      job == [host |-> profile.host, mount |-> mount, table |-> table, raw |-> raw,
              insecure |-> profile.insecure, reconnect |-> ~table /\ policy.auto,
              requires |-> IF entry = <<>> THEN "unknown" ELSE entry[1].nmea,
              logged |-> IF flag # <<>> /\ Loaded /\ flag[1].host = profile.host /\ flag[1].mount = mount
                         THEN flag[1].says ELSE "",
              name |-> profile.name]
  IN /\ ~Busy /\ profile.host # "" /\ sessions < MaxSessions
     /\ sessions' = sessions + 1
     /\ ntrip' = <<[id |-> sessions', table |-> table]>>
     /\ workers' = [id \in DOMAIN workers \cup {sessions'} |->
                      IF id \in DOMAIN workers THEN workers[id]
                      ELSE [job |-> job, phase |-> "start", cancelled |-> FALSE, attempts |-> 0,
                            total |-> 0, frames |-> 0, told |-> "none", why |-> "", again |-> FALSE]]
     /\ insecure_tls_active' = profile.insecure
     /\ figures' = Reset /\ last_rx' = "none" /\ meter' = Still /\ from' = {} /\ ended' = <<>>
     /\ flag' = <<>>
     /\ UNCHANGED <<profile, sourcetable, chan, status, since, unknown, ack, policy>>

Connect == Spawn(FALSE) /\ UNCHANGED tab
\* Browse mounts: fetch the table unless one is loaded, and show the tab.
BrowseMounts ==
  /\ ~profile.raw /\ tab' = "Sourcetable"
  /\ IF ~Busy /\ profile.host # "" /\ ~Loaded /\ sessions < MaxSessions THEN Spawn(TRUE)
     ELSE UNCHANGED <<profile, sourcetable, ntrip, workers, chan, shown, ack,
                      insecure_tls_active, meter, flag, sessions, from, ended, policy>>

\* fault: the handle is dropped at the click
Released_Early == <<>>
Released == ntrip
\* fault: the warning goes with the click
WarningAfterCancel_Gone == FALSE
WarningAfterCancel == insecure_tls_active
Disconnect ==
  /\ Busy /\ workers' = [id \in DOMAIN workers |->
                           [workers[id] EXCEPT !.cancelled = @ \/ id = ntrip[1].id]]
  /\ ntrip' = Released /\ insecure_tls_active' = WarningAfterCancel
  /\ UNCHANGED <<profile, sourcetable, tab, chan, shown, ack, meter, flag, sessions, from, ended, policy>>

\* The fields of the caster card, and a mountpoint picked from the table.
EditFields ==
  /\ ~Busy
  /\ \/ profile' \in {p \in Profiles : p.name = profile.name /\ p # profile}
     \/ /\ Loaded /\ ~profile.raw
        /\ \E s \in ToSet(sourcetable[1].strs) : profile' = [profile EXCEPT !.mount = s.mount]
  /\ UNCHANGED <<sourcetable, tab, ntrip, workers, chan, shown, ack, insecure_tls_active,
                 meter, flag, sessions, from, ended, policy>>
\* on_profile_switched
SwitchProfile ==
  /\ ~Busy /\ profile' \in {p \in Profiles : p.name # profile.name}
  /\ sourcetable' = <<>>
  /\ figures' = Reset /\ last_rx' = "none" /\ status' = Status("Idle") /\ from' = {}
  /\ UNCHANGED <<since, unknown, tab, ntrip, workers, chan, ack, insecure_tls_active,
                 meter, flag, sessions, ended, policy>>
\* The Connection log's tab, opened for the dot on it.
attention == unknown.gen > ack /\ tab # "Conn"
OpenTab ==
  /\ attention /\ tab' = "Conn"
  /\ UNCHANGED <<profile, sourcetable, ntrip, workers, chan, shown, ack, insecure_tls_active,
                 meter, flag, sessions, from, ended, policy>>
-------------------------------------------------------------------------------
(* The worker thread of a session, as far as it shows: what it posts, in order *)

Aged(t) == IF t = "recent" THEN "old" ELSE t
Says(id, s) == [kind |-> "status", ses |-> id, v |-> s]
Post(id, kind, v) == [kind |-> kind, ses |-> id, v |-> v]
Live(id, phases) == id \in DOMAIN workers /\ workers[id].phase \in phases /\ Len(chan) < MaxChan
Goes(id, w, posts) ==
  /\ workers' = [workers EXCEPT ![id] = w] /\ chan' = chan \o posts
  /\ UNCHANGED <<profile, sourcetable, tab, ntrip, status, figures, unknown, ack,
                 insecure_tls_active, meter, flag, sessions, from, ended, policy>>
Quits(id, why, failed) ==
  /\ workers' = [i \in DOMAIN workers \ {id} |-> workers[i]]
  /\ chan' = Append(chan, Says(id, [Status("Stopped") EXCEPT !.why = why, !.failed = failed]))
  /\ ended' = <<[why |-> why, failed |-> failed]>>
  /\ UNCHANGED <<profile, sourcetable, tab, ntrip, shown, ack, insecure_tls_active, meter, flag,
                 sessions, from, policy>>

\* A first attempt, or one RECONNECT_DELAY later, by when every time is old.
Attempt(id) == LET w == workers[id] IN
  /\ Live(id, {"start", "retry"}) /\ ~w.cancelled
  /\ IF w.phase = "retry" THEN since' = Aged(since) /\ last_rx' = Aged(last_rx)
     ELSE UNCHANGED <<since, last_rx>>
  /\ Goes(id, [w EXCEPT !.phase = "connecting", !.attempts = @ + 1, !.told = "none"],
          <<Says(id, [Status("Connecting") EXCEPT !.attempt = w.attempts + 1])>>)
Establish(id) ==
  /\ Live(id, {"connecting"})
  /\ Goes(id, [workers[id] EXCEPT !.phase = "waiting"], <<Says(id, Status("WaitingForData"))>>)
  /\ UNCHANGED <<since, last_rx>>
\* Corrections; what they hold: a whole frame, or kilobytes without one.
Corrections(id) == LET w == workers[id] IN \E holds \in {"frame", "garbage"} :
  /\ Live(id, {"waiting", "streaming"}) /\ ~w.job.table /\ w.total < MaxTotal
  /\ LET frames == w.frames + (IF holds = "frame" THEN 1 ELSE 0) IN
     Goes(id, [w EXCEPT !.phase = "streaming", !.total = @ + 1, !.frames = frames,
                        !.attempts = IF w.phase = "waiting" THEN 0 ELSE @],
          (IF w.phase = "waiting" THEN <<Says(id, Status("Streaming"))>> ELSE <<>>)
          \o <<Post(id, "rtcm", holds), Post(id, "rx", w.total + 1)>>)
  /\ UNCHANGED <<since, last_rx>>
\* A caster that keeps silent for want of a position, said once a connection;
\* the first position sent to it.
Position(id) == LET w == workers[id] IN \E trouble \in {"starved", ""} :
  /\ Live(id, {"waiting"}) /\ ~w.job.table
  /\ IF trouble = "" THEN w.told # "sent" ELSE w.told = "none" /\ ~w.job.raw
  /\ Goes(id, [w EXCEPT !.told = IF trouble = "" THEN "sent" ELSE trouble], <<Post(id, "trouble", trouble)>>)
  /\ UNCHANGED <<since, last_rx>>
TableDone(id) == LET w == workers[id] IN
  /\ Live(id, {"waiting"}) /\ w.job.table
  /\ \E strs \in Listings[w.job.host] :
       Goes(id, [w EXCEPT !.phase = "done"], <<Post(id, "table", [host |-> w.job.host, strs |-> strs])>>)
  /\ UNCHANGED <<since, last_rx>>
\* The connection ends: the close's own posts, before the supervisor decides.
Closes == {[why |-> "refused", again |-> FALSE, trouble |-> ""],
           [why |-> "lost", again |-> TRUE, trouble |-> "refused"],
           [why |-> "unknown", again |-> FALSE, trouble |-> ""]}
Close(id) == LET w == workers[id] IN
  /\ Live(id, {"waiting", "streaming"})
  /\ \/ \E c \in Closes :
          /\ c.why # "lost" => w.phase = "waiting" /\ ~w.job.raw
          /\ Goes(id, [w EXCEPT !.phase = "ended", !.why = c.why, !.again = c.again],
                  (IF c.why = "unknown" THEN <<Post(id, "unknown", id)>> ELSE <<>>)
                  \o <<Post(id, "trouble", IF w.job.table THEN "" ELSE c.trouble)>>)
     \/ \E strs \in Listings[w.job.host] :     \* no such mountpoint: here is the table
          /\ w.phase = "waiting" /\ ~w.job.raw /\ ~w.job.table
          /\ Goes(id, [w EXCEPT !.phase = "ended", !.why = "not found", !.again = FALSE],
                  <<Post(id, "table", [host |-> w.job.host, strs |-> strs]), Post(id, "trouble", "")>>)
  /\ UNCHANGED <<since, last_rx>>
\* No connection; or one whose certificate fails, for good.
CannotConnect(id) == \E again \in BOOLEAN :
  /\ Live(id, {"connecting"})
  /\ Goes(id, [workers[id] EXCEPT !.phase = "ended", !.why = "no connection", !.again = again], <<>>)
  /\ UNCHANGED <<since, last_rx>>
\* supervise, after a connection
Retries(w) == w.again /\ w.job.reconnect /\ w.attempts < policy.max
Decide(id) == LET w == workers[id] IN
  /\ Live(id, {"ended"}) /\ ~w.cancelled
  /\ \/ /\ Retries(w)
        /\ Goes(id, [w EXCEPT !.phase = "retry"],
                <<Post(id, "close", w.why),
                  Says(id, [Status("ReconnectWait") EXCEPT !.attempt = w.attempts + 1])>>)
        /\ UNCHANGED <<since, last_rx>>
     \/ /\ ~Retries(w)
        /\ workers' = [i \in DOMAIN workers \ {id} |-> workers[i]]
        /\ chan' = chan \o <<Post(id, "close", w.why),
                             Says(id, [Status("Stopped") EXCEPT !.why = w.why, !.failed = TRUE])>>
        /\ ended' = <<[why |-> w.why, failed |-> TRUE]>>
        /\ UNCHANGED <<profile, sourcetable, tab, ntrip, shown, ack, insecure_tls_active, meter,
                       flag, sessions, from, policy>>
\* The flag seen: in mid-connection the close withdraws the position verdict.
GiveUp(id) == LET w == workers[id] IN
  /\ Live(id, {"start", "retry", "connecting", "waiting", "streaming", "ended"}) /\ w.cancelled
  /\ IF w.phase \in {"waiting", "streaming"}
     THEN /\ Goes(id, [w EXCEPT !.phase = "ended"], <<Post(id, "trouble", "")>>)
          /\ UNCHANGED <<since, last_rx>>
     ELSE Quits(id, "by user", FALSE)
Finish(id) == Live(id, {"done"}) /\ Quits(id, "downloaded", FALSE)

Worker(id) == \/ Attempt(id) \/ Establish(id) \/ Corrections(id) \/ Position(id) \/ TableDone(id)
              \/ Close(id) \/ CannotConnect(id) \/ Decide(id) \/ GiveUp(id) \/ Finish(id)
-------------------------------------------------------------------------------
(* A frame *)

\* AppState::apply, and drain_events' own part, on the state u, with p active.
\* fault: a refused attempt's hint stays while data flows
TroubleAt_Kept(u, s) == u.figures.trouble
TroubleAt(u, s) == IF s.kind = "Streaming" THEN "" ELSE u.figures.trouble
\* fault: the handle is joined at the end of a session that failed only
HandleAt_Failed(u, s) == IF s.kind = "Stopped" /\ s.failed THEN <<>> ELSE u.ntrip
HandleAt(u, s) == IF s.kind = "Stopped" THEN <<>> ELSE u.ntrip
Apply(p, u, e) ==
  CASE e.kind = "status" ->
         [u EXCEPT !.status = e.v, !.since = "recent", !.figures.trouble = TroubleAt(u, e.v),
                   !.ntrip = HandleAt(u, e.v), !.insecure = @ /\ e.v.kind # "Stopped"]
    [] e.kind = "close" -> [u EXCEPT !.figures.last_close = e.v]
    [] e.kind = "rx" ->
         [u EXCEPT !.last_rx = IF e.v > u.figures.total THEN "recent" ELSE @, !.figures.total = e.v]
    [] e.kind = "rtcm" -> [u EXCEPT !.figures.frames = IF e.v = "frame" THEN @ + 1 ELSE @,
                                    !.figures.garbage = @ \/ e.v = "garbage"]
    [] e.kind = "trouble" -> [u EXCEPT !.figures.trouble = e.v]
    [] e.kind = "unknown" -> [u EXCEPT !.unknown = [raw |-> e.v, gen |-> @.gen + 1]]
    [] e.kind = "table" ->
         [u EXCEPT !.sourcetable = <<e.v>>,
                   !.flag = IF p.mount = "" \/ p.host # e.v.host THEN @
                            ELSE LET entry == Entry(e.v.strs, p.mount)
                                 IN <<[host |-> e.v.host, mount |-> p.mount,
                                       says |-> IF entry = <<>> THEN "unknown" ELSE entry[1].nmea]>>,
                   !.tab = IF u.ntrip # <<>> /\ u.ntrip[1].table THEN "Sourcetable" ELSE @]
Applied(p, u, s) == LET f[n \in 0 .. Len(s)] == IF n = 0 THEN u ELSE Apply(p, f[n - 1], s[n])
                    IN f[Len(s)]
\* What a frame works on, and what it would make of it now.
Shown == [status |-> status, since |-> since, last_rx |-> last_rx, figures |-> figures,
          unknown |-> unknown, sourcetable |-> sourcetable, tab |-> tab, ntrip |-> ntrip,
          insecure |-> insecure_tls_active, flag |-> flag]
Drained == Applied(profile, Shown, chan)
\* advance_activity: decay first, then full if bytes came.
Advanced(level, last, total) == IF total > last THEN 1 ELSE 0
\* The frame drains all that is there.
Frame ==
  LET u == Drained
      total == u.figures.total
  IN /\ chan' = <<>>
     /\ status' = u.status /\ since' = u.since /\ last_rx' = u.last_rx /\ figures' = u.figures
     /\ unknown' = u.unknown /\ sourcetable' = u.sourcetable /\ tab' = u.tab /\ flag' = u.flag
     /\ ntrip' = u.ntrip /\ insecure_tls_active' = u.insecure
     /\ meter' = [level |-> Advanced(meter.level, meter.last, total), last |-> total]
     /\ ack' = IF tab' = "Conn" THEN unknown'.gen ELSE ack
     /\ from' = from \cup {chan[i].ses : i \in DOMAIN chan}
     /\ UNCHANGED <<profile, workers, sessions, ended, policy>>
\* STALL_AFTER goes by; only a state that shows it counts.
Wait ==
  /\ status.kind \in {"Streaming", "WaitingForData"}
  /\ since' = Aged(since) /\ last_rx' = Aged(last_rx) /\ <<since, last_rx>>' # <<since, last_rx>>
  /\ UNCHANGED <<profile, sourcetable, tab, ntrip, workers, chan, status, figures, unknown, ack,
                 insecure_tls_active, meter, flag, sessions, from, ended, policy>>

Next == \/ Connect \/ BrowseMounts \/ Disconnect \/ EditFields \/ SwitchProfile \/ OpenTab
        \/ Frame \/ Wait
        \/ \E id \in 1 .. MaxSessions : Worker(id)

\* Every post asks for a repaint, so a frame comes; a thread goes on by itself.
Fairness == /\ WF_vars(chan # <<>> /\ Frame)
            /\ \A id \in 1 .. MaxSessions : WF_vars(Worker(id))
Spec == Init /\ [][Next]_vars /\ Fairness
-------------------------------------------------------------------------------
(* What a frame shows *)

rx_age == IF status.kind \notin {"Streaming", "WaitingForData"} THEN "none"
          ELSE IF last_rx # "none" THEN last_rx ELSE since
stalled == rx_age = "old"
not_rtcm == figures.frames = 0 /\ figures.garbage
table_streams == status.kind = "Stopped" /\ ~status.failed /\ figures.frames = 0 /\ Loaded
state_word ==
  IF table_streams THEN <<"SOURCETABLE", "Good">>
  ELSE CASE status.kind = "Idle" -> <<"NOT CONNECTED", "Idle">>
         [] status.kind = "Connecting" -> <<"CONNECTING", "Busy">>
         [] status.kind \in {"WaitingForData", "Streaming"} /\ stalled -> <<"NO DATA", "Warn">>
         [] status.kind = "WaitingForData" /\ ~stalled -> <<"WAITING FOR DATA", "Busy">>
         [] status.kind = "Streaming" /\ ~stalled ->
              IF not_rtcm THEN <<"NOT RTCM3", "Warn">> ELSE <<"STREAMING", "Good">>
         [] status.kind = "ReconnectWait" -> <<"RECONNECTING", "Warn">>
         [] status.kind = "Stopped" -> IF status.failed THEN <<"FAILED", "Bad">> ELSE <<"DISCONNECTED", "Idle">>
hint == IF status.kind = "Idle" \/ (status.kind = "Stopped" /\ ~status.failed) THEN "" ELSE figures.trouble
summary_line == Busy /\ figures.frames > 0
\* next_step, as the facts it names: a reason, a hint.
next_step == {IF status.kind = "Stopped" /\ (status.failed \/ hint = "") THEN status.why
              ELSE IF status.kind = "ReconnectWait" /\ hint = "" THEN figures.last_close ELSE "", hint} \ {""}
classify_stream ==
  CASE status.kind \in {"Streaming", "WaitingForData"} /\ stalled -> "Stalled"
    [] status.kind = "Streaming" /\ ~stalled -> "Active"
    [] status.kind = "Connecting" \/ (status.kind = "WaitingForData" /\ ~stalled) -> "Waiting"
    [] status.kind \in {"Idle", "ReconnectWait", "Stopped"} -> "Idle"
bar_fill_level == IF classify_stream = "Idle" THEN 0 ELSE meter.level
-------------------------------------------------------------------------------
(* Properties *)

\* reset_stream_stats: "stale UI numbers would otherwise mix two sessions"; and
\* on_profile_switched: "shown under this one's name they would read as its
\* data".  Nothing a session left behind reaches the next one or its profile.
FiguresAreTheSessions ==
  /\ \A i \in DOMAIN chan : Busy /\ ntrip[1].id = chan[i].ses
  /\ from \subseteq {sessions}
  /\ Busy => \A id \in DOMAIN workers : id = ntrip[1].id /\ workers[id].job.name = profile.name
  /\ chan = <<>> => \A id \in DOMAIN workers :
       figures.total = workers[id].total /\ figures.frames = workers[id].frames
  /\ from = {} => figures = Fresh /\ last_rx = "none"
  /\ bar_fill_level > 0 => figures.total > 0

\* With everything drained the band tells what the session does: a session is
\* shown running exactly while its thread lives, green only while frames come,
\* the reason of a failure or a retry with it, no blame while data flows.
Settled == chan = <<>> /\ \A id \in DOMAIN workers : workers[id].phase \notin {"start", "ended", "done"}
Phase == IF DOMAIN workers = {} THEN "none" ELSE workers[CHOOSE id \in DOMAIN workers : TRUE].phase
VerdictIsTrue == Settled =>
  /\ Busy <=> DOMAIN workers # {}
  /\ (Phase = "none") <=> (status.kind \in {"Idle", "Stopped"})
  /\ (Phase = "retry") <=> (state_word[1] = "RECONNECTING")
  /\ state_word[1] = "STREAMING" =>
       Phase = "streaming" /\ "recent" \in {since, last_rx} /\ hint = "" /\ ~not_rtcm
  /\ state_word[1] = "FAILED" => ended[1].failed /\ ended[1].why \in next_step
  /\ state_word[1] = "DISCONNECTED" => ~ended[1].failed
  /\ state_word[1] = "RECONNECTING" =>
       \E id \in DOMAIN workers : workers[id].why \in next_step \/ hint # ""
  /\ bar_fill_level > 0 => Phase \in {"connecting", "waiting", "streaming"}
  /\ summary_line => Phase # "none"

\* "as long as the live connection skips certificate verification", and the
\* evidence of an unknown response: kept, and pointed at until it was on screen.
WarningsStand ==
  /\ \A id \in DOMAIN workers : workers[id].job.insecure => insecure_tls_active
  /\ insecure_tls_active => Busy
  /\ attention => unknown.raw # 0
  /\ unknown.gen > 0 => unknown.raw # 0 /\ ack <= unknown.gen

\* What a job takes from the table is its own caster's word on its mountpoint,
\* and the log's word on it is the same.
JobKnowsItsCaster == \A id \in DOMAIN workers : LET job == workers[id].job IN
  job.requires # "unknown" =>
    /\ \E strs \in Listings[job.host] : Entry(strs, job.mount) # <<>> /\ Entry(strs, job.mount)[1].nmea = job.requires
    /\ job.logged \in {"", job.requires}

\* disconnect_ntrip: "the Stopped event joins and drops the handle".
Leaving == Busy /\ ntrip[1].id \in DOMAIN workers /\ workers[ntrip[1].id].cancelled
DisconnectCompletes == Leaving ~> ~Busy

\* StreamActivity::Waiting: "connected and inside the pre-data grace window".
GraceWindow == status.kind = "WaitingForData" /\ since = "recent" => classify_stream = "Waiting"

\* session_band: "A finished sourcetable fetch is a result, not a
\* disconnection": the word for it means that.
TableWordMeansFetch == Settled /\ state_word[1] = "SOURCETABLE" => ended[1].why = "downloaded"
===============================================================================
