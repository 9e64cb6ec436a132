# Verification of OpenNTRIPClient in TLA+

OpenNTRIPClient is a desktop program that fetches GNSS corrections from an NTRIP
caster over TCP or TLS, shows and records them, and forwards them to a GNSS
receiver on a serial port.  The receiver's own positions (NMEA GGA) travel the
other way: they are shown, and sent to the caster for network solutions.

This directory holds TLA+ modules translated from the Rust source, TLC
configurations that check them on small instances, and TLAPS proofs of what
matters most for every value of the constants.  `PROJECT.json` is the index:
which definition models which source lines, the runs, the hazards each property
is there for, the deliberate faults ("mutants") that show a property can fail,
and the theorems.

Paths below are relative to `crates/` of the repository.

## 1. Inventory

### Threads and what they share

| Thread | Started by | Ends |
|---|---|---|
| UI (egui frames) | the process | exit of the window |
| NTRIP worker | `connect_ntrip`, one at a time | posts `Stopped`; on cancel, budget, permanent end |
| connect helper | NTRIP worker, one per attempt | resolver/connect result or timeout; abandoned on cancel |
| serial worker | `toggle_serial`, one at a time in intent | cancel, port failure |
| logger | the process | channel closed / shutdown |
| selftest worker | selftest mode | end of its phases |

| Shared object | Writers | Readers | Discipline |
|---|---|---|---|
| `CorrQueue` (`workers/mod.rs`) | NTRIP worker pushes, serial worker attaches/detaches | serial worker pops | a mutex, a condition variable, and an atomic flag *outside* the mutex |
| event channel `Hub` (`bus.rs`) | both workers | UI, once per frame | one FIFO, many senders; a post also asks for a repaint |
| log channel | everyone | logger | one FIFO |
| `last_gga` (RwLock) | serial worker | NTRIP worker | last writer wins; never cleared on disconnect |
| cancel flags | UI | the worker | set once per worker, never lowered |
| `sock_slot` (Mutex<Option<TcpStream>>) | NTRIP worker fills/empties | UI, to shut the socket down | filled after the connect, before the first read |
| handles in `MainWindow` | UI | UI | taken before a join, reaped when the thread has finished |

### Components

| Component (source) | State | Operations | Correct when | Status |
|---|---|---|---|---|
| corrections queue (`app/src/workers/mod.rs`) | deque, flag, overrun count | push, try_pop, pop_timeout, set_active | no block crosses from one receiver session to another; drop-oldest; every block is accounted for; no lost wakeup; refuses only without a worker | modelled |
| serial worker (`workers/serial.rs`) | cancel flag, block in progress, line buffer, NmeaWatch, `last_gga` | open, auto-config, drain, forward, read, on_rx_bytes, on_line, close | a cancel ends it in a bounded number of port calls even under a sustained overrun; no torn frame is followed by another; the log tells the fix the receiver states, wherever reads cut | modelled |
| serial connect/disconnect (`ui/main_window.rs`, `workers/mod.rs`) | handle, status shown | connect, disconnect with join deadline, reap, apply status | never freezes; never leaves an uncancelled orphan; status is the true one | modelled |
| NTRIP session (`ntrip-core/src/session.rs`) | phase, deadlines, GGA scheduler | new, on_bytes, on_tick, gga_sent, gga_missed, on_remote_close, cancel | closes exactly once, in time, for the request made; GgaDue alternates with answers | modelled: timing on verdicts, and verdicts from bytes |
| NTRIP worker (`workers/ntrip.rs`) | cancel, slot, attempts, alert, position trouble, RTCM counters | supervise, connect, drive_connection, dispatch, on_gga_due, on_corrections | budget exact; one alert per lost stream; a cancel always ends it, quietly; it blames no lack of a position it sent | modelled, without the text of its lines |
| TLS handshake (`workers/tls.rs`) | handshake in progress | handshake with cancel checks | three outcomes; looks at the flag | inside `Establish` |
| chunked decoder (`ntrip-core/src/chunked.rs`) | size line, bytes left | feed | the exact payload under every split of the input | modelled |
| request builder, base64 (`ntrip-core/src`) | - | build, encode | a caster reads the lines that were meant and no other; the log has no credentials | modelled |
| sourcetable parser (`ntrip-core/src/sourcetable.rs`), browser (`ui/sourcetable_browser.rs`) | table, tab, filter, sort, selection | parse, filter, sort, select, use | nothing of a table is lost; what is marked and used is of the table shown | modelled |
| RTCM deframer and decoder (`gnss/src/rtcm`) | buffer, counters | feed, decode | cuts do not matter; an intact frame is found behind any damage; every byte accounted for; no half message | modelled |
| NMEA (`gnss/src/nmea.rs`) | - | parse | a position is a pair, a bad line is nothing | modelled, in `Receiver` |
| GGA text, geodesy, clock (`gnss/src`) | - | format, convert | - | left out |
| application state (`app/src/state.rs`) | views of session, receiver, chart, rates | apply event, reset, tick | views follow the events of the current session; bounded, and still true | modelled, without the log rings |
| event bus (`bus.rs`) | FIFO | post, drain | order per sender; repaint on post | its channels are in `SerialLink`, `AppShell`, `Logger` |
| logger and captures (`logging.rs`) | daily sinks, capture file | lines, toggles, begin/data/end, flush, shutdown | no capture lost or mixed; losses told; what was written is flushed | modelled |
| profiles (`app/src/profiles.rs`, `profile_file.rs`, `ui/profiles_dialog.rs`, `ui/profile_transfer.rs`) | list, active name, pending dialog | add, duplicate, rename, move, remove, activate, save_as, import | names identify profiles; a live stream keeps its caster; a dialog acts on the profile it was opened on | modelled, without the fields and exports |
| settings (`app/src/settings.rs`), crash notice (`lib.rs`, `main.rs`) | settings record, last saved, file, `.bad`, marker | load, normalize, save, legacy import, report a crash | the file is never torn; the unreadable one is preserved; "Saved" is what the next run reads | modelled |
| UI shell (`ui/main_window.rs`, `session_band.rs`, `status_strip.rs`, `stream_summary.rs`, ...) | handles, table, figures, verdict | connect, disconnect, switch, frame | what is shown is the running session's | modelled, without layout and wording |
| geodb (`geodb/src`), search box (`ui/gga_section.rs`) | query, hits, selection | resolve, type, arrows, enter | a search finds what the query means; a chosen label finds its place | modelled; the generator is left out |
| selftest, theme, audio | - | - | - | left out |

### What is hard here

* **Flag outside the lock.** `push` loads `active` under the mutex, `set_active`
  stores it without. Whether a block can slip past the clear of a detach into
  the next receiver's session is a three-step race.
* **Abandoned threads.** A Disconnect waits two seconds and then forgets the
  thread, which keeps its references to the queue and to the event channel.
* **Cancellation against blocking calls.** A connect, a read, a position write
  and a TLS handshake each end differently: by a timeout, a flag, or by a
  shutdown from the other thread, of a socket that may not be published yet.
* **A cancel looks like a fault.** The end of stream a shutdown provokes must
  not be taken for the caster's.
* **Sustained overrun.** With the queue always refilled, the drain loop never
  returns to the head of the worker's loop.
* **Protocol sequences.** Bytes, ticks, a remote close, a cancel and the answers
  to GgaDue reach the session in every order; deadlines must hold under a
  trickle.
* **Cuts anywhere.** TCP cuts the stream at any byte: in a header line, between
  the header and the first corrections, in a chunk size or in the line that ends a
  table.  Every partial thing is carried across feeds in its own buffer.
* **Names and indices as identities.** Profiles are known by name, to the file and to the
  running stream; dialogs remember them by index; both may change owner in between.
* **Outage memory.** The retry budget, the alert, and what the worker said of positions
  outlive the connection that set them.
* **One window, many sessions.** Figures, tables, verdicts and warnings are folded from
  events of sessions that follow one another, under profiles that change in between.
* **Damage and cuts in what is read.** Corrections, sentences, tables, files and
  typed fields come cut, damaged or edited; the program must make of them what they say.

## 2. Modules

| Module | Models | Uses |
|---|---|---|
| `CorrQueueAbs` | what the queue promises, every call atomic | - |
| `CorrQueue` | the queue at the grain of mutex and flag | `CorrQueueAbs` as its refinement |
| `CorrQueueProofs` | six theorems about it | `CorrQueue` |
| `SerialLink` | UI toggle, serial threads, status channel, over the queue | `CorrQueue` (its actions and its properties) |
| `SerialLinkProofs` | three theorems about it | `SerialLink`, `CorrQueueProofs` as an instance |
| `SerialWorker` | one serial thread's loop against a port | - |
| `SerialWorkerProofs` | two theorems about it | `SerialWorker` |
| `SessionOutputs` | what a session may return to its driver, per call | - |
| `NtripSession` | the session's phases, deadlines, GGA scheduler | `SessionOutputs` as its refinement |
| `NtripSessionProofs` | six theorems about it | `NtripSession` |
| `SessionFeed` | the parser of the session, fed byte by byte and in segments | `NtripSession` as its refinement |
| `NtripWorker` | supervisor, connection loop, cancellation, over a session | `SessionOutputs` as the session it drives |
| `NtripPosition` | the position path of that worker: source, sending, hints, verdicts | `NtripWorker`, every action of it |
| `NtripWorkerProofs` | eight theorems about the two | `NtripPosition` |
| `AppShell` | the window around one caster session: handle, channel, frame, what is shown | - |
| `AppShellProofs` | five theorems about it, two about `Readouts` | `AppShell`, `Readouts` |
| `Logger` | the logger thread, its files and its senders | - |
| `SettingsStore` | the settings file across runs and crashes | - |
| `DiskProofs` | four theorems about the two | `Logger`, `SettingsStore` |
| `Profiles` | the list of profiles, the dialogs over it, the file, a connection that comes and goes | - |
| `ProfilesProofs` | three theorems about it | `Profiles` |
| `RtcmStream`, `RtcmDecode` | deframer with counters across reconnects; message decoder | - |
| `Receiver`, `Readouts` | NMEA from the port to the fix banner; chart and rate meter | - |
| `TableBrowser`, `Geocoder` | sourcetable parse and browser; place search and search box | - |
| `Request` | the request on the wire and in the log | - |
| `MC*` | the instances TLC runs; `MCReaders` runs the last seven and `SettingsStore` | |

Modules are joined by contracts instead of by products.  `NtripWorker` runs
a session that returns *anything* `SessionOutputs` allows; `NtripSession` is
shown to return nothing else (`KeepsPromise`).  So what holds of the worker holds
with the real session underneath, and neither state space multiplies the other.
In the same way `NtripSession` lets a feed reach any *verdict* possible in its phase,
and the parser of `SessionFeed` is shown to reach no other (`ReachesVerdicts`).
Likewise `CorrQueue` assumes that workers attach one at a time (`Alone`), and
`SerialLink`, which does not assume it, shows that the application obeys
(`QueueUsedAsIntended`) as long as a port opens in time, and what is left when it
does not.

### CorrQueue (`app/src/workers/mod.rs`)

`active` is the AtomicBool, `q` the deque, `overruns` the AtomicU64.  A critical
section is one step, except `push`, which is split where another thread can
interfere: `PushLoad` (mutex taken, flag loaded), `PushStore` (make room, append,
unlock), `PushNotify` (notify_one after the unlock).  From load to store the
producer holds the mutex (`MutexFree` is false), so pops and clears wait, but
`DetachStore` does not.  `set_active(true)` is `Attach`; `set_active(false)` is
`DetachStore`, then `DetachClear` under the mutex.  `pop_timeout` is `Pop`,
`Sleep`, `Expire`, `Pop` again: it tests under the mutex before each wait.
Ghosts: `seq`, `rejected`, `cleared`, `delivered` with the session each block
was delivered in, `epoch`.

### SerialLink (`ui/main_window.rs`, `workers/serial.rs`, `workers/mod.rs`)

`Connect` and `Disconnect`/`JoinReturns` are the two halves of `toggle_serial`
(the UI thread does nothing between `Disconnect` and `JoinReturns`), `Reap` the
end-of-frame test of a handle whose thread has finished, `Apply` one event of
`drain_events`.  A worker goes `opening`, `connected` (status posted, queue not
yet active), `draining`, `detached`, `ending`, `finished`: `Close` posts Disconnected,
and the thread counts as finished (`is_finished`) a moment later (`Finish`), so a frame
may fall between the two.  `slow` is the one
environment assumption, chosen at the start: whether the driver's `open` can take longer than
the two seconds of `join_timeout`.

### SerialWorker (`workers/serial.rs`)

The inside of `draining`: the loop's flag test, `drain_corrections`,
`forward_block`'s partial writes, the read with its timeout, and the auto-config
commands that precede the loop and look at no flag.  Every port call may succeed,
make partial progress or fail.  A flag test and the call it guards are separate
steps.

### NtripSession (`ntrip-core/src/session.rs`)

One action per entry point.  A feed of bytes is the *verdict* the parser can
reach on it in the present phase (`OnStatusLine`, `OnHttp`, `OnTable`,
`OnStream`); how bytes become verdicts is `SessionFeed`'s.  Deadlines
are countdowns in units of the gap between two ticks that the session's
documentation requires of its caller (500 ms): `Elapse` passes one unit and then
owes a tick.  Ghosts `age`, `idle`, `sinceArm` measure the same times
independently of the countdowns, and are what the timing properties speak of.

### SessionFeed (`ntrip-core/src/session.rs`, `chunked.rs`)

The functions below `on_bytes`, as operators from a session and the bytes fed to a
session and its outputs: `DriveHeader`, `ClassifyHttp`, `FeedTable` with
`ScanEndLine`, `FeedStream` with `ConsumePrelude`, and `Decode` for the chunked
decoder.  The same stream is fed to two sessions: to `one` byte by byte (`Byte`), to
`whole` in segments cut anywhere (`Deliver`).  A byte is one of the few the parser
tells apart, or a whole word it knows ("ICY 200", "Transfer-Encoding: chunked"):
inside a word no cut matters, because only complete lines are looked at.  Lengths and
caps count such units.  A session that is done is one value (`Inert`), for nothing of
it is read again.  Beside the split, three properties compare what was handed
over with a reading of the whole text: the prelude by its lines (`NothingEaten`), the chunks
by RFC 9112 (`ChunkedExact`), the table by its end line and length (`TableExact`).

### NtripWorker (`workers/ntrip.rs`)

A step ends wherever the cancelling thread can be seen: at each load of the flag,
each use of the slot, each blocking call.  `Top` is the head of `supervise`'s
loop; `Poll`/`Recv` are `await_cancellable` around the connect helper; `Publish`
puts the socket's clone in the slot (and may fail to clone it); `Establish` is
the TLS handshake and the request; `Dispatch`, `Write`, `Read` are
`drive_connection`; `Ended` empties the slot, `Verdict` classifies the end and
decides about alert and retry; `Waiting` is the delay before a retry.
`CancelFlag`/`CancelShutdown` are the two halves of `NtripHandle::cancel`.

### NtripPosition (`workers/ntrip.rs`)

Extends `NtripWorker`: every action of it is taken together with its effect on the
position path, so `cancel`, retries and connection ends interleave with it.  `wish` is
the job's policy, source and manual position with what the cached sourcetable says of
the mountpoint; `slot_gga` is `last_gga`, which `SerialLine` may write at any moment;
`sent`, `answered`, `starveNoted` are `ConnState`'s, `trouble` is the `PositionTrouble` the
band shows.  `gga_policy`, `position_matters`, `gga_plan`, `gga_hint`, `starving` and
`position_verdict` are operators of the source's names.  `PosWrite` splits at the write
like `Write`, so a position can be taken, and the receiver change, before it is out.

### AppShell (`ui/main_window.rs`, `state.rs`, `session_band.rs`, `status_strip.rs`, `stream_summary.rs`)

User gestures, worker threads reduced to what they post (in the order `ntrip.rs` posts it),
the channel, and `Frame`, which drains the channel, applies each event in turn
(`Apply`, `HandleAt`) and advances the activity meter.  `Shown` is what a frame works on and
`Drained` what a frame would make of it now, so that `Frame` is the assignment of the one to
the other.  What a frame *shows*
(`classify_stream`, `state_word`, `next_step`, `hint`, `summary_line`, `attention`) are
functions of the state, named as in the source.  A cancelled worker winds down while its
`Stopped` is awaited; `Busy` holds until a frame has seen that, so no second worker is
started beside it.

### Logger (`logging.rs`, `ui/options_dialog.rs`, `bus.rs`)

`Handle` is one turn of `run`'s loop; every open of a file may fail.  Log lines are a
single bit each: written, dropped with the user told, dropped silently.  The clock has
one midnight.  Capture commands come from the NTRIP worker (`BeginCapture`,
`CaptureBytes`, `EndCapture`), toggles from the Options dialog and its Cancel.  A capture
command carries, as a ghost, which connection's how-manieth block it is about, so that
`CapturesStand` can tell a block that is missing or out of order from one that is there.

### The readers (`MCReaders`)

Eight components share no state with one another: `RtcmStream`, `RtcmDecode`, `Receiver`,
`Readouts`, `Geocoder`, `TableBrowser`, `Request` and `SettingsStore`.  Each is a state machine with its own
`Init` and `Next`.  `MCReaders` chooses one in the initial state and lets it run alone;
this is the union of eight state spaces, not their product, and each property says of
which it speaks.  They are kept apart from the rest because what they exchange with it
(a frame, a sentence, a table, a record) is a value the other side takes as any.

* `RtcmStream`: `Feed` is the deframer's loop on one read.  Bytes are 0, 1 and the sync
  byte; the check is any function of the bytes before it, so a damaged frame is one
  whose check differs.  `OnCorrections` adds the counters and posts, `Reconnect` moves a
  connection's counters into the bases, `Apply` is the inspector.
* `RtcmDecode`: a payload is a sequence of bits cut anywhere or followed by more; each
  message is a list of fields with the widths of the source.
* `Receiver`: a read may cut the stream of tokens anywhere; `OnRxBytes`, `OnLine`, `OnGga`,
  `ApplyNmea` and `FixBanner` are the source's functions.
* `Readouts`: `PlotSeries` and `RateMeter` with the samples and frames they were given as ghosts.
* `Geocoder`: the encoder's indexes and the search over them, against a search
  that uses neither; the box with its arrows, Enter and retyped labels.
* `TableBrowser`: a parse that loses nothing, and the tab one frame an action.
* `Request`: the bytes sent, read back as a caster reads them.
* `SettingsStore`: runs of the program with edits, saves in two steps, crashes of the
  program and of the machine, and a user with an editor in between.

### Profiles (`app/src/profiles.rs`, `profile_file.rs`, the dialogs, `ui/main_window.rs`)

One action per gesture of the user, with the operation of `profiles.rs` it ends in.
`pending` is what waits for an answer: the rename or the delete question (by index, as
in `ViewState`) or the name prompt.  Dialogs are egui modals, so only the topmost hears
the user: `OnSurface`, `OnWindow` and `Asked` are the guards of the main window, the
Profiles window and what is above it.  `live` is what the running job was built from
(`connect_ntrip` copies it), `TableReady` and `Stopped` are the worker's events, which
arrive under any dialog.  `saved` is `last_saved`, `file` is `settings.toml`; a write may
fail, and `Restart` is an exit, an exit that could not save, or a crash, followed by the
next start.  An import is one step: nothing its review depends on can change while its
dialog is up, but for the end of the connection, which only loosens a lock.  The ghost
`was` is the name the file has for a profile.

## 3. Runs

| Run | Instance | Shows |
|---|---|---|
| `corr_queue` | 2 workers, capacity 2, 5 pushes, 3 attaches | no stale replay, refinement of `CorrQueueAbs` (drop-oldest and accounting are part of it); a sleeping `pop_timeout` is served |
| `serial_link` | 3 threads, or 2 whose opens may outlast the join; capacity 1, 2 pushes | the UI's status is the true one, no uncancelled orphan, Disconnect returns, a cancelled or dead worker goes; the queue is used one worker at a time as long as opens are in time |
| `serial_link_inactive` | 2 threads, opens may outlast the join | **violation**: see Findings |
| `serial_worker` | capacity 2, blocks of 3, 1 command | a cancel ends the loop within two port calls though blocks never stop; a cut block is the last |
| `ntrip_session` | timeouts 4/3/4, slots 1/3/2 | verdicts in time; silence exact; GGA on time; refinement of `SessionOutputs` (one close, the answer is to the request, a session that is done is inert) |
| `session_feed` | eight kinds of caster, segments of 3, bodies of 2 to 8 | split invariance within the header cap; exact payload and tables; refinement of `NtripSession` |
| `ntrip_worker` | `NtripPosition`, 2 attempts, six wishes | budget exact; one alert per lost stream; a cancel is quiet and always ends the thread; what is said of positions is so |
| `position_no_fix` | the same, 1 attempt | **violation**: see Findings |
| `profiles` | 3 profiles, 3 names, imports of 2 | names unique and the active one there, in memory and in the file; the live caster kept; dialogs hit their target; Saved means saved |
| `logger` | 2 seconds with a midnight, 2 commands queued, 2 captures of 2 blocks | a receipt's file is that connection's and whole; Options in force; lost NMEA lines told; what is written is flushed |
| `app_shell` | 3 profiles, 2 casters, 2 sessions, 2 events queued | no figure, table or verdict of one session under another; warnings stay; a Disconnect completes |
| `readers` | see the bounds | each reader agrees with a definition of its result that has none of its state |

A run's properties are conjunctions where the parts are about one thing: `LinkInv`,
`LoopInv`, `StreamClocks`, `FeedIsExact`, `SupervisorInv`, `PositionWords`, `ProfilesKept`,
`LogIsHonest`, `WorkersEnd`, `ReceiverIsTrue`, `SettingsKept`.  Each holds its module's type invariant where there is one.

### Bounds, and why they are enough

* `corr_queue`: two workers make one leave while the next is about to come;
  three attaches give a session before and after the one observed; capacity 2
  tells "oldest" from "newest" and leaves a block behind a dropped one; five
  pushes overrun it with a block admitted at the same time.  Every theorem of
  `CorrQueueProofs` removes these bounds (any number of workers, any capacity,
  any number of pushes and attaches).
* `serial_link`: three threads so that a status of the first could meet the third;
  capacity 1 and two pushes because the queue's contents are `corr_queue`'s
  business.  Each thread is used once (a Connect spawns a new one).  Where the driver is
  slow only the threads in `Few` exist: two, the abandoned one and its successor.
* `serial_worker`: three write units give a partial write with progress on both
  sides; capacity 2 lets the producer refill behind the drain, without a bound on
  pushes; `late` stops counting one past the bound it is compared with.
* `ntrip_session`: the units keep the order of the real values
  (GGA_FIRST < GGA_RETRY < GGA_INTERVAL, first response and silence longest), so
  a position comes due during silence, a deadline falls between ticks, and
  the table's deadline can fall after the header's.  Ghost clocks stop at
  `Horizon`, the sum of all timeouts.
* `session_feed`: segments of three hold the end of a header, a body byte and one
  more; bodies are as long as the shortest text with everything in it (two
  header lines and a payload line; a chunk, the last chunk and its trailer; an end line in a
  chunk).  A header may hold 7 units, enough for a Content-Length beside
  `chunked`, one past the cap of 6.  Chunk extensions and lone CRs come from a caster of their own,
  with shorter bodies.  A prelude of one line of two units, a framing line of
  three and sizes up to 31 put each cap and the overflow inside those bodies.
* `ntrip_worker`: with two attempts a budget that is renewed, spent and overspent
  are three different things; `dry` stops counting at `MaxAttempts + 2`.  The
  theorems cover every `MaxAttempts`, zero included.  The six wishes are one for each
  thing the worker says about a position: sent, off though required, no manual
  position, waiting for a receiver, and the two the table decides.
* `profiles`: three profiles tell the first, the active and another apart, so that a
  removal, a reorder and a revert can go wrong; an import of two rows may collide with
  itself.  A profile points at one caster or nowhere, which is enough to see a stream
  under a profile that does not point at its caster; the two names a user gives are
  interchangeable (`SYMMETRY`).  Saves, edits and restarts are unbounded.
* `logger`: two queued commands let a toggle overtake nothing and lines wait; the
  midnight falls in the first capture; two blocks can be swapped; the user toggles one sink.  `FirstBytesApart` is an
  assumption: see below.
* `app_shell`: two sessions are one and its successor, or one and its remains; two
  casters of which one lists the other's mountpoint in another case; totals
  stop at two, enough to tell "grew" from "was reset".  A time is recent or old
  (`STALL_AFTER`).
* `readers`: nine bytes in reads of three hold a false start, an intact frame inside it
  and the next, over two connections; every message kind at every cut; three lines in
  reads of any cut with a line longer than the cap; ten samples into a chart of four
  points, so that it halves twice; six cities with shared names, a foreign spelling and an
  unlisted country, queries of four characters, the scan capped at six and the results at
  three; two tables with a damaged record of every kind; fields of three characters from
  seven bytes (a control character, a line end, a blank, a percent sign, a
  byte past ASCII); two edits, three runs and two unreadable files.

`CHECK_DEADLOCK FALSE` is set in every run but `profiles` and `ntrip_session`: each of
the others has states where it rightly stops (the bounds of the environment are used up, a
worker has ended).

### Fairness, and why the code justifies it

* `corr_queue`: a push that began ends, a notified waiter runs, a detach that
  began clears - straight-line code under a mutex held for a few instructions.  No
  fairness for pushes, attaches, detaches, or the timeout.
* `serial_link`: the UI runs its frames (a post requests a repaint; a join has a
  deadline); a worker takes its straight-line steps and leaves once cancelled,
  which is what `serial_worker` shows of the loop.  Opening a port is fair only
  where the driver is not `slow`; the call has no timeout.
* `serial_worker`: every port call after the open is bounded by the port's 50 ms
  timeout, so the thread keeps going.  The open is not fair.
* `ntrip_worker`: each blocking call has a timeout (the 400 ms read timeout, the
  slices of the connect wait and of the reconnect delay, the handshake's), except
  the write of a position, for which no write timeout is set: `writing` is fair
  only once the socket was shut down.  The cancelling thread completes what it
  began.  `NtripPosition` has the same fairness on the composed steps.
* `logger`: the thread runs while it has a command or a deadline that passed, and time
  passes.  Senders are not fair, so the flush may not depend on their silence.
* `app_shell`: a post asks for a repaint, so a frame comes while the channel holds
  something; a worker thread goes on by itself, each of its waits having a timeout or a
  cancel (as `ntrip_worker` shows).  The user is not fair.
* `ntrip_session`, `session_feed`, `profiles` and `readers` state safety only: time, bytes
  and gestures are the environment's.

### Faults

Beside many definitions stands one with a suffix (`Room_OffByOne`,
`CancelShutdown_Never`), marked "fault": the same definition with a plausible slip.
No specification uses it.  Put in place of the real one it makes a property
fail under the run's own configuration, which shows that the
property depends on that piece of code.  `PROJECT.json` names one fault for each
property; a property that is a conjunction has more of them in its module, for its
other parts.

## 4. Findings

`serial_link_inactive` refutes `PushOutcome::Inactive`'s comment "No serial worker
attached; bytes discarded by design." (`app/src/workers/mod.rs:31`) for a port that takes
more than two seconds to open.  `toggle_serial` cancels the first worker, gives up
the join, and lets the user connect a second one, which attaches the queue.  When the
first open at last returns, its worker raises the flag although it was cancelled,
sees its cancel flag, and lowers the flag - under the second worker, whose
corrections are refused from then on.  `join_timeout`'s comment justifies abandoning
a thread with the exit of the process, which is not the case in `toggle_serial`.

`position_no_fix` refutes what `gga_plan` tells the user, "will send receiver GGA every 10 s
(none until the receiver supplies a fix)" (`app/src/workers/ntrip.rs:334`).  `on_line` keeps
every GGA whose checksum holds (`workers/serial.rs:358`), also one that states no fix, and `on_gga_due`
passes on what is kept.  A receiver that is searching has its empty positions sent to
the caster.

### Smaller disagreements

These were met while modelling and are stated in the modules, but no run is spent on them.
Put in the run's configuration, with the values named, a definition reproduces its trace
(action properties without `SYMMETRY`; a reader's, but for `SettingsStore`'s and `Readouts`', needs a definition in `MCReaders`, like its others).
The rows that name a source line only were read, not run.

| Where | What a comment says, and what happens |
|---|---|
| `SessionFeed!SplitInvariance`, `session_feed` with `HDR_CAP = 3` | "any packetization ... produces the same outputs" (`session.rs:5-14`).  `on_bytes` tests the cap on what stayed unclassified, so a header block longer than 16 KiB is a session when the read that passes the cap brings its end, and `UnknownResponse` when it does not. |
| `Profiles!SaveAsIsLive`, `profiles` with `Points <- TwoMounts` | "carries the very settings the live session runs on" (`profiles.rs:171`).  Use in the browser may have written another mountpoint meanwhile.  The caster is the same (`LiveCasterKept`). |
| `Profiles!KeepsWhatItHas`, `profiles` with `Traced = TRUE` | a profile renamed since the save "keeps what it has" (`profiles.rs:185`).  If the file knows another profile by its new name, it gets that one's settings. |
| `Logger!EventLossIsTold`, `logger` | a daily sink that cannot open its file says so once; for the event log itself the line that would say so is dropped with it. |
| `Logger!CapturesStand` with `FirstBytesApart = FALSE` | two connections whose first bytes fall within one second share a capture's name, and the second creates the file anew.  A reconnect waits ten seconds; a user's own Disconnect and Connect need not. |
| `AppShell!GraceWindow`, `app_shell` | `StreamActivity::Waiting` is "connected and inside the pre-data grace window" (`status_strip.rs:107`).  `rx_age` prefers the last byte received to the status change, so after a reconnect it is the earlier connection's byte that is old, and the band says NO DATA at once. |
| `AppShell!TableWordMeansFetch`, `app_shell` | SOURCETABLE is the word for a finished fetch (`session_band.rs`).  It is derived from "stopped, no frames, a table is loaded", so a connection cut short by the user shows it too when a table was loaded before. |
| `SettingsStore!SavedMeansWritten`, `readers` | the Save control says "Everything is written to settings.toml" from the start, though after an unreadable file, or none, the defaults in use are written nowhere. |
| `settings.rs:647` | "Passwords stay out of the event log" holds of ntripconfig.txt.  A password line in Settings.txt is an unknown key there, and is logged as it stands; `ImportIsWhole` speaks of what is imported. |
| `settings.rs:525` | a second unreadable file overwrites the copy of the first (`EvidenceKept` is about the last one). |
| `settings.rs:316` | `serial_connected` is documented as an exit save's; only the legacy import sets it. |
| `bus.rs`, `RxBytes` | the comment counts bytes of "this app run"; the figure starts over with each session. |
| `settings.rs:655` | "check for updates" and "check for updates interval" of the original set one field, the later line wins. |

## 5. Proofs

Proved by TLAPS from nothing, for every value of the constants that satisfies the
named assumptions of the modules: timeouts, bounds, capacities and lengths are naturals (the
timeouts and the longest list of profiles at least 1), a profile points at a pair of strings of which
`Profile::default`'s has no host (`PointsAssumption`), heights are integers and a chart has room for
two points, as `PlotSeries::new` sees to (`ChartAssumption`), the window's "no worker" is none
(`LinkAssumption`), its profiles are made of strings and switches (`ProfilesAssumption`), a file of the original client
is lines of a key and a value (`LegacyAssumption`), and a list of profiles is one after an edit (`EditsAssumption`).  `PROJECT.json` lists the theorems; each
rests on an inductive invariant, and what makes that stronger than the property is
the reason why the design works.

**CorrQueue.**  `TypeCorrect` is inductive by itself.  `NoStaleReplay` is not: a
delivered block may be of an earlier session if the deque could be, and the deque could
be if an admitted push could be.  `SessionInv` closes this: one worker at most
is inside; its session is the current one; the flag is up exactly while it is
attached; everything queued *or admitted by a push still under way* is of the current
session; and when nobody is inside, nothing is queued or admitted.  The last part is where the
design shows: a push that saw the flag up holds the mutex until its block is stored,
so the clear of the detach comes after it.  `SessionInvariant` proves it inductive;
`NeverStale` and `RefusedOnlyWithoutWorker` follow.  `NoBlockVanishes` adds up the
accounting.  `Implements` is the refinement of `CorrQueueAbs`: a push takes effect
when it is admitted, a detach when it lowers the flag, every other step stutters.

**SerialLink.**  `LinkInv` for any number of workers.  While the driver answers in time, a live
worker is the one the window holds or the one it joins (`InHand`), a worker is inside
the queue only between its two posts (`InsideStands`), and the *last* thing in the
channel, or what is shown if it is empty, is the state of the worker in hand
(`LatestIsCurrent`).  From these, every step is a step of the queue used by one worker
at a time (`UsedAsIntended`), so the theorems of `CorrQueueProofs`, instantiated, hold of the
queue under this application (`GuaranteesHold`).  The assumption that the driver answers in time
is part of the statements, as it is in `serial_link_inactive`'s finding.

**SerialWorker.**  `LoopInv` bounds the port calls that begin or end after a cancel.  `LateBudget` says
how many each program point may have behind it, `TornFrame` that a block left unfinished
implies a flag that stops the loop.  `CancelShortensTheWay` is the safety half of
`CancelEnds`: once cancelled, every step of the opened worker lowers a measure, which no push
can raise.

**NtripSession.**  `Alternates` rests on `GgaInv` (a GgaDue is owed exactly when the
scheduler waits for its answer, as far as it is enabled), `Timely` on `DeadlineInv` (age
and what is left of a deadline add up, and an expired deadline has a tick owed),
`ClosesOnce` on `CloseInv` (no close before Done), with lemmas about what `Emit` counts.
`Inert` is an action property proved directly.  `ClocksHold` proves `StreamClocks`: of a silence only a tick
can speak (`OnlyTicksSilence`), and it does so when silence and what is left of the limit add up
(`SilenceInv`); a scheduler that is enabled has its slot and the time since it was armed add up
(`SlotInv`).  `PromiseKept` is the refinement of `SessionOutputs`, entry point by entry point: what each
call appends, in the stage the session was in, is an answer the interface allows.

**NtripWorker.**  `IInv` has four parts: `Budget` (attempts are exactly the connects since
corrections last arrived, and below the limit wherever a connect is about to begin),
`Alert` (armed exactly when the connection under way has streamed, from its
first moment to its verdict), `GivenUpFlag` (a given-up end is only possible with the flag
up, so that the second look at it cannot miss) and `Outcome` (what the terminal, the
retry and the status have to do with each other).  Four theorems are read off it.
`TableSucceeds` needs a second one, `OrderInv`, about the outputs not yet dispatched: a close is
the last of them, a table is followed by its close and by nothing else (`Orderly`), and what
the driver remembers of a table agrees with what it has dispatched (`TableInv`).

**NtripPosition.**  Every step is a step of `NtripWorker` (`PosStep`), so both invariants carry over; `SupervisorHolds` and
`VerdictsHold` follow.  `PositionIsTrue` adds `Told`: a position is due, under way or out only
after the header was accepted, so a connection that asked for one cannot be refused any
more (`SentAfterHeader`); what a claim of sending rests on is never taken away (`ClaimStands`); and
the hint and the end speak of the same close (`CloseFits`).

**AppShell.**  The window is some posts behind its worker, and no invariant of what is shown alone
can be inductive.  `WindowInv` compares the worker with `Drained`: a worker that is streaming has
a window that *will* read Streaming with its totals, wherever in the channel the events for it are.  A
post of a worker is then one more `Apply` on `Drained`, a frame leaves `Drained` as it is,
and with nothing in the channel it is what is shown.  Its parts: `OneAtATime` (a worker and every event
in the channel are of the session the handle names, and the handle goes with the worker's `Stopped`, not
before), `UpToDate` (what the window will read in each phase of the worker, and of how the last one ended), `Counted`
(the figures begin with the session), `Warned` (the banner stands from an insecure connect to its
end; no warning is acknowledged that has not come) and `Own` (what is logged of a mountpoint is its own
table's word; a job was told of its caster only what a listing of that caster says).  The lemmas before it say that
applying a longer channel is applying the rest (`AppliedMore`, by `LeastNumber` as in
`ProfilesProofs`), what each event changes, and that ageing the two times commutes with the drain
(`Lockstep`), which is what `Wait` needs when events are pending.  `WindowHolds` proves it;
`FiguresHold`, `VerdictHolds`, `WarningsHold` and `JobsInformed` are read off it, for any number of sessions
and any length of the channel.

**Logger.**  The thread is some commands behind its senders, and the proofs are about that distance.
`LastWord`: the last toggle of a sink in the channel, or its state if there is none, is what the
Options show.  `Chain`: each capture command follows, across whatever else lies between,
from the one before it (`Linked`); the last of them is where the connection stands (`Tip`); an end
is followed by a begin only (`EndIsLast`); and every connection behind all of them is receipted,
empty or known to have no file (`Receipted`).  `CaptureInv` adds what is on disk (`Files`): the open
file holds blocks 1 to n of the armed connection, a receipted one is never opened again.  That
last part alone needs `FirstBytesApart`, and the theorem `CapturesHold` says so.

**SettingsStore.**  `SettingsKept` says where the last unreadable text is *if it is still owed*, what
Saved means *if the run has saved*; none of it is inductive.  `StoreInv` adds what ties these to the file.  The text is
in the file only while no run is on (`LastKept`): a start copies it, or says that it could
not, in the same step in which the defaults take its place in memory, so no later save can be the one
that loses it.  A run that has saved knows its settings to be the file's (`RunOK`), which no editor
changes under it.  Past its start, a run changes the file by a rename alone, which changes what
the file is meant to be with it.  The import is a function over lines of any number:
`ImportsExist` builds it, and `AllImported` shows by `LeastNumber` that after n lines each of them was
refused in the log, or a line between it and the n-th was the last to set its field; `normalize`, which comes
after, changes no value a line may set (`SettingLegal`, `PlainStands`), so this holds of the result.

**Readouts.**  That the chart's last point is less than two strides behind the present cannot be
carried over a halving, which may drop the last point and doubles the stride.  `ChartInv` splits that
distance: part of it the stride accounts for, what has been skipped since the last point was kept;
the rest, `Unplotted`, is what a halving took, and it is less than a stride.  So
the next point is a stride to two strides from the last, and a chart whose points are
so spaced is so again when every other one is gone (`Spaced`).  `MeterInv` says that the windows
begin with the first frame, and that those folded end where the one under way begins.  Its
totals are over any number of windows: `SumsExist` builds the running sum by `LeastNumber`, `TotalAppended`
says that a window more adds its own count and time.

**Profiles.**  `Held`: the list in use and the list in the file are each `Kept` (non-empty, within the bound, names
distinct, the active one there), the snapshot is what the file boots to, a live worker's caster is
that of *whichever profile has the active name*, and an open dialog's index holds the name it was
opened on.  The lemmas before it say per operation of `profiles.rs` which profile is at which place
afterwards; they need no bound on the list or on the rows of an import.  The rows an
import adds are in their order by `InOrderIs`, an induction on the number of rows, which
`LeastNumber` makes possible: a set of naturals that is not empty has a least member, so a first
counterexample would have a predecessor that is none.

**Only model-checked.**

* Liveness: `WaiterServed`, `DisconnectReturns`, `WorkersEnd`, `CancelEnds`, `CancelStops`,
  `WritesReachTheDisk`, `DisconnectCompletes`.  Fairness and ENABLED are beyond the prover.
* `SessionFeed`, `RtcmStream`, `RtcmDecode`, `Receiver`, `Geocoder`, `TableBrowser` and `Request`: what they claim is
  what a recursion or a fold computes over the whole input, which needs induction over data; `SessionFeed` and
  `Receiver` also declare RECURSIVE operators, whose modules the prover cannot use.
* The two runs that refute a comment, and the disagreements of section 4.

## 6. Not modelled, and why

* Selftest: it drives the parts above in a fixed order against local servers of its own.
* The log rings of `state.rs` (a deque with a cap) and the scrolling panes over them.
* The audio player; when it is called is in `NtripWorker`.
* Of a profile: everything but its name and where it points; exports and the text of
  profile files; a settings file edited by hand into two profiles of one name, for which
  the code makes no promise.
* Panics, and mutexes poisoned by them: release builds abort.
* Layout, painting, icons, themes, wording; the geodb generator, an offline tool.
* GGA formatting, geodesy and the calendar: floating-point arithmetic without
  state between calls.
* The RTCM CRC's polynomial: the deframer only compares it.
* Real time: the session's time is in units of a tick; the worker's timeouts are
  nondeterministic.
* Weak memory: the flag is one atomic, and its orderings are treated as sequentially
  consistent.

## 7. Plan

Modelled, in the order of importance: the queue; the serial side; the session, its
interface and its byte level; the worker and its positions; profiles; the window
(`AppShell`), the logger, the settings store; the readers.  What has no theorem
is what the provers cannot reach: liveness, and the readers that are recursive over their input.
