------------------------------- MODULE Receiver -------------------------------
(***************************************************************************)
(* What the receiver says and what is made of it: the line framing of the  *)
(* serial worker under any cut into reads, the NMEA parser, NmeaWatch with *)
(* its event lines, and on the other side of the channel the readouts and  *)
(* the fix banner of the status strip.                                     *)
(*                                                                         *)
(* The stream is of tokens: "$", a sentence's text with its checksum, any  *)
(* other text, and the end of line.  A field is a string, "" when empty    *)
(* and "?" when it cannot be parsed; an optional value is a sequence.      *)
(***************************************************************************)
EXTENDS Naturals, SequencesExt

CONSTANTS Texts,         \* sentence texts: name -> [addr, f, ck]
          RxLines,       \* what the receiver may send, each up to its line end
          LINE_CAP,      \* tokens
          MaxLines,      \* sent in a run
          MaxTokens,     \* of one read
          MaxOpens,
          RECEIVER_SILENT_AFTER

NL == "newline"

VARIABLES
  wire,        \* sent, not read yet
  lines_sent,
  opens,
  line_buf, watch,     \* run's, one opening of the port
  run_log,             \* the event lines of this opening
  last_gga,
  rx_chan,             \* events to the UI
  gnss, serial_open,   \* AppState's
  stream,              \* ghost: the tokens read since the port was opened
  quiet,               \* ghost: since a sentence was read, <<>> before the first
  heard                \* ghost: every point a sentence stated, TRUE in first for a GGA

rxWorker == <<line_buf, watch, run_log, last_gga, stream>>
rcVars   == <<wire, lines_sent, opens, rxWorker, rx_chan, gnss, serial_open, quiet, heard>>
-------------------------------------------------------------------------------
(* gnss::nmea::parse *)

Field(f, i) == IF i \in DOMAIN f THEN f[i] ELSE ""
Num(f, i)   == IF Field(f, i) \in {"", "?"} THEN <<>> ELSE <<Field(f, i)>>
NumOr0(f, i) == IF Num(f, i) = <<>> THEN "0" ELSE Num(f, i)[1]
\* A value without its hemisphere has no sign.
Angle(f, i) == IF Num(f, i) # <<>> /\ Field(f, i + 1) \in {"N", "S", "E", "W"}
               THEN <<<<f[i], f[i + 1]>>>> ELSE <<>>

ParseGga(f) == [quality |-> NumOr0(f, 6), sats |-> NumOr0(f, 7), hdop |-> Num(f, 8),
                alt |-> Num(f, 9), age |-> Num(f, 13), station |-> Num(f, 14),
                lat |-> Angle(f, 2), lon |-> Angle(f, 4)]
ParseRmc(f) == [speed |-> Num(f, 7), track |-> Num(f, 8)]
ParseGsa(f) == [pdop |-> Num(f, 15), hdop |-> Num(f, 16), vdop |-> Num(f, 17)]

\* A line is a sentence, or nothing is interpreted of it.
Parses(line) == /\ Len(line) = 2 /\ line[1] = "$" /\ line[2] \in DOMAIN Texts
                /\ Texts[line[2]].ck = "ok" /\ Texts[line[2]].addr # "malformed"
Parse(line) ==
  LET t == Texts[line[2]]
      Of(kind, v) == [kind |-> kind, raw |-> line[2], v |-> v]
  IN CASE t.addr = "GGA" -> Of("Gga", ParseGga(t.f))
       [] t.addr = "RMC" -> Of("Rmc", ParseRmc(t.f))
       [] t.addr = "GSA" -> Of("Gsa", ParseGsa(t.f))
       [] OTHER -> Of("Other", <<>>)
-------------------------------------------------------------------------------
(* NmeaWatch *)

NewWatch == [quality |-> <<>>, sats |-> <<>>, hdop |-> <<>>, station |-> <<>>]

\* HDOP is compared as it is displayed, with one decimal.
Tenths(h) == IF h \in {"1.01", "1.04"} THEN "1.0" ELSE h
\* fault: only the loss of both RTK fixes is a degradation
Degraded_Fixed(was, now) == was \in {"4", "5"} /\ now \notin {"4", "5"}
Degraded(was, now) == was \in {"4", "5"} /\ now # "4" /\ (now = "5" => was = "4")

QualityLines(w, g) ==
  LET was == IF w.quality = <<>> THEN "0" ELSE w.quality[1]
  IN IF g.quality = was THEN <<>>
     ELSE <<<<"quality", was, g.quality>>>>
            \o (IF Degraded(was, g.quality) THEN <<<<"degraded", g.age>>>> ELSE <<>>)

\* A value that was there before and is another now.
Change(name, was, now) ==
  IF was # <<>> /\ now # <<>> /\ was # now THEN <<<<name, was[1], now[1]>>>> ELSE <<>>
Kept(was, now) == IF now = <<>> THEN was ELSE now
DisplayedHdop(g) == IF g.hdop = <<>> THEN <<>> ELSE <<Tenths(g.hdop[1])>>
StationLines(w, g) == IF w.station = <<>> /\ g.station # <<>>
                      THEN <<<<"station", g.station[1]>>>>
                      ELSE Change("station", w.station, g.station)

OnGga(w, g) ==
  [watch |-> [quality |-> <<g.quality>>, sats |-> <<g.sats>>,
              hdop |-> Kept(w.hdop, DisplayedHdop(g)), station |-> Kept(w.station, g.station)],
   lines |-> QualityLines(w, g) \o Change("sats", w.sats, <<g.sats>>)
               \o Change("hdop", w.hdop, DisplayedHdop(g)) \o StationLines(w, g)]
-------------------------------------------------------------------------------
(* The serial worker's side *)

\* on_line; s is what the lines before made.
OnLine(s, line) ==
  IF ~Parses(line) THEN s
  ELSE LET p == Parse(line)
           q == [s EXCEPT !.posted = Append(@, p)]
           o == OnGga(s.watch, p.v)
       IN IF p.kind # "Gga" THEN q
          ELSE [q EXCEPT !.watch = o.watch, !.log = @ \o o.lines, !.last = <<p.raw>>]

Room(buf) == IF Len(buf) >= LINE_CAP THEN <<>> ELSE buf

\* on_rx_bytes
OnRxByte(s, t) ==
  IF t = NL THEN [OnLine(s, s.buf) EXCEPT !.buf = <<>>]
  ELSE [s EXCEPT !.buf = Append(Room(@), t)]
\* fault: the line so far is a read's
Buffered_Lost(b) == <<>>
Buffered(b) == b
OnRxBytes(tokens) ==
  FoldLeft(OnRxByte, [buf |-> Buffered(line_buf), watch |-> watch, log |-> run_log,
                      last |-> last_gga, posted |-> <<>>], tokens)

PortOpen == run_log # <<>>

\* The receiver talks whether or not a port is open; the model lets it talk
\* into an open one.
Talk == /\ PortOpen /\ lines_sent < MaxLines /\ wire = <<>>
        /\ \E l \in RxLines : wire' = l
        /\ lines_sent' = lines_sent + 1
        /\ UNCHANGED <<opens, rxWorker, rx_chan, gnss, serial_open, quiet, heard>>

PointOf(p) == <<p.v.lat, p.v.lon>>
Points(posted) == {PointOf(posted[i]) : i \in {j \in DOMAIN posted : posted[j].kind = "Gga"}}

Read == \E n \in 1 .. Min({MaxTokens, Len(wire)}) : \E s \in {OnRxBytes(SubSeq(wire, 1, n))} :
  /\ PortOpen
  /\ wire' = SubSeq(wire, n + 1, Len(wire))
  /\ stream' = stream \o SubSeq(wire, 1, n)
  /\ line_buf' = s.buf /\ watch' = s.watch /\ run_log' = s.log /\ last_gga' = s.last
  /\ rx_chan' = rx_chan \o s.posted
  /\ quiet' = IF s.posted = <<>> THEN quiet ELSE <<0>>
  /\ heard' = [gga |-> heard.gga \/ Points(s.posted) # {}, points |-> heard.points \cup Points(s.posted)]
  /\ UNCHANGED <<lines_sent, opens, gnss, serial_open>>

Status(kind) == [kind |-> kind, raw |-> "", v |-> <<>>]
\* run: the opening posts its status; buffer and watch are its own.
OpenPort ==
  /\ opens < MaxOpens /\ ~PortOpen
  /\ opens' = opens + 1
  /\ line_buf' = <<>> /\ watch' = NewWatch /\ run_log' = <<<<"opened">>>> /\ stream' = <<>>
  /\ rx_chan' = Append(rx_chan, Status("Connected"))
  /\ wire' = <<>>
  /\ UNCHANGED <<lines_sent, last_gga, gnss, serial_open, quiet, heard>>

ClosePort ==
  /\ PortOpen
  /\ run_log' = <<>> /\ rx_chan' = Append(rx_chan, Status("Disconnected"))
  /\ stream' = <<>> /\ line_buf' = <<>> /\ watch' = NewWatch /\ wire' = <<>>
  /\ UNCHANGED <<lines_sent, opens, last_gga, gnss, serial_open, quiet, heard>>
-------------------------------------------------------------------------------
(* The UI's side *)

NewGnss == [quality |-> "0", sats |-> "0", hdop |-> <<>>, alt |-> <<>>, age |-> <<>>,
            station |-> <<>>, speed |-> <<>>, heading |-> <<>>, pdop |-> <<>>, vdop |-> <<>>,
            lat |-> <<>>, lon |-> <<>>, has_fix_data |-> FALSE, last_nmea |-> <<>>]

\* fault: each coordinate for itself
Position_Each(g, v) == <<Kept(g.lat, v.lat), Kept(g.lon, v.lon)>>
\* A position is a pair, or it is not taken over.
Position(g, v) == IF v.lat # <<>> /\ v.lon # <<>> THEN <<v.lat, v.lon>> ELSE <<g.lat, g.lon>>

\* GnssState::apply
ApplyNmea(g, p) ==
  LET h == [g EXCEPT !.last_nmea = <<0>>]
  IN CASE p.kind = "Gga" ->
            [h EXCEPT !.has_fix_data = TRUE, !.quality = p.v.quality, !.sats = p.v.sats,
                      !.hdop = p.v.hdop, !.alt = p.v.alt, !.age = p.v.age, !.station = p.v.station,
                      !.lat = Position(g, p.v)[1], !.lon = Position(g, p.v)[2]]
       [] p.kind = "Rmc" -> [h EXCEPT !.speed = p.v.speed, !.heading = p.v.track]
       [] p.kind = "Gsa" -> [h EXCEPT !.pdop = p.v.pdop, !.vdop = p.v.vdop]
       [] OTHER -> h

IsStatus(p) == p.kind \in {"Connected", "Disconnected"}
\* drain_events
Drain ==
  /\ rx_chan # <<>> /\ rx_chan' = <<>>
  /\ gnss' = FoldLeft(LAMBDA g, p : IF IsStatus(p) THEN g ELSE ApplyNmea(g, p), gnss, rx_chan)
  /\ serial_open' = FoldLeft(LAMBDA o, p : IF IsStatus(p) THEN p.kind = "Connected" ELSE o,
                             serial_open, rx_chan)
  /\ UNCHANGED <<wire, lines_sent, opens, rxWorker, quiet, heard>>

\* The UI draws more often than a unit of this clock passes.
Older(age) == IF age = <<>> THEN age ELSE <<IF age[1] > RECEIVER_SILENT_AFTER THEN age[1] ELSE age[1] + 1>>
ReceiverTick == /\ rx_chan = <<>>
                /\ quiet' = Older(quiet) /\ gnss' = [gnss EXCEPT !.last_nmea = Older(@)]
                /\ UNCHANGED <<wire, lines_sent, opens, rxWorker, rx_chan, serial_open, heard>>

ReceiverInit ==
  /\ wire = <<>> /\ lines_sent = 0 /\ opens = 0 /\ line_buf = <<>> /\ watch = NewWatch
  /\ run_log = <<>> /\ last_gga = <<>> /\ rx_chan = <<>> /\ gnss = NewGnss /\ serial_open = FALSE
  /\ stream = <<>> /\ quiet = <<>> /\ heard = [gga |-> FALSE, points |-> {}]
ReceiverNext == OpenPort \/ Talk \/ Read \/ ClosePort \/ Drain \/ ReceiverTick
ReceiverSpec == ReceiverInit /\ [][ReceiverNext]_rcVars
-------------------------------------------------------------------------------
(* The status strip *)

Talking == gnss.last_nmea # <<>> /\ gnss.last_nmea[1] <= RECEIVER_SILENT_AFTER

FixInk(q) == CASE q = "0" -> "danger" [] q = "4" -> "success" [] q = "5" -> "warning"
               [] q \in {"1", "2", "9"} -> "primary" [] OTHER -> "secondary"
\* fault: the banner of a closed port
Live_Latched == Talking
Live == serial_open /\ Talking
FixBanner ==
  IF ~gnss.has_fix_data
  THEN [text |-> IF ~serial_open THEN "No receiver"
                 ELSE IF Talking THEN "No GGA from receiver" ELSE "Waiting for NMEA",
        ink |-> "secondary", note |-> ""]
  ELSE [text |-> gnss.quality, ink |-> IF Live THEN FixInk(gnss.quality) ELSE "secondary",
        note |-> IF Live THEN "" ELSE IF serial_open THEN "silent" ELSE "last seen"]

SlotValue(id) == CASE id = "Age" -> gnss.age [] id = "Hdop" -> gnss.hdop [] id = "Vdop" -> gnss.vdop
                   [] id = "Pdop" -> gnss.pdop [] id = "Elevation" -> gnss.alt
                   [] id = "Speed" -> gnss.speed [] id = "Heading" -> gnss.heading
SlotHint(id) == IF SlotValue(id) # <<>> \/ gnss.last_nmea # <<>> THEN "none"
                ELSE IF serial_open THEN "waiting for NMEA" ELSE "needs receiver"
-------------------------------------------------------------------------------
(* Properties *)

\* The lines of the stream; of one longer than the buffer the last tokens stay.
RECURSIVE LinesOf(_)
LinesOf(tokens) ==
  IF NL \notin ToSet(tokens) THEN <<>>
  ELSE LET e == CHOOSE i \in DOMAIN tokens : tokens[i] = NL /\ \A j \in 1 .. i - 1 : tokens[j] # NL
           from == IF e = 1 THEN 1 ELSE ((e - 2) \div LINE_CAP) * LINE_CAP + 1
       IN <<SubSeq(tokens, from, e - 1)>> \o LinesOf(SubSeq(tokens, e + 1, Len(tokens)))
Ggas == LET ls == SelectSeq(LinesOf(stream), LAMBDA l : Parses(l) /\ Parse(l).kind = "Gga")
        IN [i \in DOMAIN ls |-> Parse(ls[i]).v]

LinesNamed(name) == SelectSeq(run_log, LAMBDA e : e[1] = name)

\* The event log of an opening of the port, read afterwards, tells the fix the
\* receiver had: its quality lines chain from "Invalid" to the last GGA's, and
\* a warning stands for every fall from an RTK fix, wherever the reads cut.
LogTellsTheFix ==
  PortOpen =>
    LET q == LinesNamed("quality")
        was(i) == IF i = 1 THEN "0" ELSE Ggas[i - 1].quality
    IN /\ \A i \in DOMAIN q : q[i][2] = (IF i = 1 THEN "0" ELSE q[i - 1][3])
       /\ Ggas # <<>> => (IF q = <<>> THEN "0" ELSE Last(q)[3]) = Last(Ggas).quality
       /\ Len(LinesNamed("degraded"))
            = Len(SelectSeq([i \in DOMAIN Ggas |-> i],
                  LAMBDA i : \/ was(i) = "4" /\ Ggas[i].quality # "4"
                             \/ was(i) = "5" /\ Ggas[i].quality \notin {"4", "5"}))

\* state.rs: "kept through fix loss".  The position shown is one the receiver
\* stated, both coordinates in one sentence, and is never given up for less.
PositionIsOne ==
  LET whole == {p \in heard.points : p[1] # <<>> /\ p[2] # <<>>}
  IN /\ gnss.lat # <<>> => <<gnss.lat, gnss.lon>> \in whole
     /\ rx_chan = <<>> /\ whole # {} => gnss.lat # <<>>

\* status_strip.rs: "a fix is live only while the port is open and NMEA keeps
\* arriving", it is then shown as such, and an empty slot blames the receiver
\* only before its first sentence.
BannerIsTrue ==
  rx_chan = <<>> =>
    /\ (gnss.has_fix_data /\ FixBanner.note = "")
         <=> (heard.gga /\ PortOpen /\ quiet # <<>> /\ quiet[1] <= RECEIVER_SILENT_AFTER)
    /\ FixBanner.ink = "success" => heard.gga /\ FixBanner.text = "4" /\ FixBanner.note = ""
    /\ \A id \in {"Age", "Speed", "Pdop"} :
         SlotHint(id) = "needs receiver" => quiet = <<>> /\ ~PortOpen
===============================================================================
