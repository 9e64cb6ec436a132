------------------------------- MODULE MCReaders -------------------------------
(***************************************************************************)
(* The readers of the program, each on its own: what it makes of bytes,    *)
(* sentences, records, typed text and its settings file.  They share no    *)
(* state, so a behaviour follows one of them, chosen at the start, and one *)
(* run goes through all.                                                   *)
(***************************************************************************)
EXTENDS Geocoder, RtcmDecode, SettingsStore, Readouts, TLC

NL == "newline"

CONSTANTS
  Bytes, MaxBytes, MaxRead, MaxConns,                          \* RtcmStream
  Texts, RxLines, LINE_CAP, MaxLines, MaxTokens, MaxOpens,
  RECEIVER_SILENT_AFTER,                                       \* Receiver
  Tables, Callers, Filters,                                    \* TableBrowser
  Chars, MaxTyped                                              \* Request

VARIABLES
  reader,      \* the one this behaviour follows
  sent, deframer, conns, crc_base, garbage_base, last_health_posted, posted,
  rtcm, rtcm_crc_failures, rtcm_garbage_bytes, seen, cut,
  wire, lines_sent, opens, line_buf, watch, run_log, last_gga, rx_chan,
  gnss, serial_open, stream, quiet, heard,
  sourcetable, addressed, mountpoint, tab, filter, sort, chosen, used,
  cfg

streamVars == <<sent, deframer, conns, crc_base, garbage_base, last_health_posted, posted,
                rtcm, rtcm_crc_failures, rtcm_garbage_bytes, seen, cut>>
receiverVars == <<wire, lines_sent, opens, line_buf, watch, run_log, last_gga, rx_chan,
                  gnss, serial_open, stream, quiet, heard>>
browserVars == <<sourcetable, addressed, mountpoint, tab, filter, sort, chosen, used>>
requestVars == <<cfg>>

R == INSTANCE RtcmStream
V == INSTANCE Receiver
B == INSTANCE TableBrowser
Q == INSTANCE Request

ASSUME ReaderBounds ==
  /\ {0, 3} \subseteq Bytes /\ Bytes \subseteq Nat
  /\ \A l \in RxLines : Last(l) = NL /\ NL \notin ToSet(Front(l))
  /\ LINE_CAP \in Nat \ {0}
-------------------------------------------------------------------------------
ReadersInit ==
  /\ reader \in {"stream", "decode", "receiver", "readouts", "geocoder", "browser", "request",
                 "settings"}
  /\ R!RtcmInit /\ DecodeInit /\ V!ReceiverInit /\ ReadoutsInit
  /\ GeocoderInit /\ B!TableInit /\ Q!RequestInit /\ SettingsInit
  /\ reader # "request" => cfg.version = "V2"
ReadersNext ==
  \/ reader = "stream" /\ R!RtcmNext
     /\ UNCHANGED <<reader, rdVars, receiverVars, roVars, gcVars, browserVars, requestVars, ssVars>>
  \/ reader = "decode" /\ DecodeNext
     /\ UNCHANGED <<reader, streamVars, receiverVars, roVars, gcVars, browserVars, requestVars, ssVars>>
  \/ reader = "receiver" /\ V!ReceiverNext
     /\ UNCHANGED <<reader, streamVars, rdVars, roVars, gcVars, browserVars, requestVars, ssVars>>
  \/ reader = "readouts" /\ ReadoutsNext
     /\ UNCHANGED <<reader, streamVars, rdVars, receiverVars, gcVars, browserVars, requestVars, ssVars>>
  \/ reader = "geocoder" /\ GeocoderNext
     /\ UNCHANGED <<reader, streamVars, rdVars, receiverVars, roVars, browserVars, requestVars, ssVars>>
  \/ reader = "browser" /\ B!TableNext
     /\ UNCHANGED <<reader, streamVars, rdVars, receiverVars, roVars, gcVars, requestVars, ssVars>>
  \/ reader = "request" /\ Q!RequestNext
     /\ UNCHANGED <<reader, streamVars, rdVars, receiverVars, roVars, gcVars, browserVars, ssVars>>
  \/ reader = "settings" /\ SettingsNext
     /\ UNCHANGED <<reader, streamVars, rdVars, receiverVars, roVars, gcVars, browserVars, requestVars>>
ReadersSpec == ReadersInit /\ [][ReadersNext]_<<reader, streamVars, rdVars, receiverVars, roVars, gcVars, browserVars, requestVars, ssVars>>
-------------------------------------------------------------------------------
(* Messages, put together field by field from the table of their layouts in *)
(* RTCM 10403 (the tests' BitWriter), not by way of the decoder's lists.      *)

F(n, v) == [i \in 1 .. n |-> (v \div 2 ^ (n - i)) % 2]
Zero(n) == [i \in 1 .. n |-> 0]
W(n, v) == Zero(n - 20) \o F(20, v)       \* wide fields
Bytes8(s) == FlattenSeq([i \in DOMAIN s |-> F(8, s[i])])
Counted(s) == F(8, Len(s)) \o Bytes8(s)

BasePosition(t, x, y, z, h) ==
  [bits |-> F(12, t) \o F(12, 7) \o F(6, 5) \o F(4, 15) \o W(38, x) \o F(2, 3)
              \o W(38, y) \o F(2, 1) \o W(38, z) \o h,
   means |-> [kind |-> "BasePosition", station |-> F(12, 7),
              ecef |-> <<W(38, x), W(38, y), W(38, z)>>,
              antenna_height |-> IF h = <<>> THEN <<>> ELSE <<h>>, lla |-> {x, y, z} # {0}]]
AntennaInfo(t, a, rest) ==
  [bits |-> F(12, t) \o F(12, 9) \o Counted(a) \o F(8, 3)
              \o FlattenSeq([i \in DOMAIN rest |-> Counted(rest[i])]),
   means |-> [kind |-> "AntennaInfo", station |-> F(12, 9), antenna |-> Bytes8(a),
              setup_id |-> F(8, 3),
              others |-> [i \in 1 .. 4 |-> IF i > Len(rest) THEN <<>> ELSE Bytes8(rest[i])]]]
TextMessage == [bits |-> F(12, 1029) \o F(12, 1) \o F(16, 60000) \o F(17, 3600) \o F(7, 2) \o Counted(<<72, 105>>),
         means |-> [kind |-> "TextMessage", station |-> F(12, 1), mjd |-> F(16, 60000),
                    seconds |-> F(17, 3600), text |-> Bytes8(<<72, 105>>)]]
Biases == [bits |-> F(12, 1230) \o F(12, 1) \o <<1>> \o F(3, 7) \o <<0, 1, 0, 1>> \o F(16, 40) \o F(16, 50),
           means |-> [kind |-> "GlonassBiases", station |-> F(12, 1), indicator |-> <<1>>,
                      signals |-> {2, 4}, biases |-> <<F(16, 40), F(16, 50)>>]]
Msm(t, c) ==
  [bits |-> F(12, t) \o F(12, 1) \o W(30, 77) \o Zero(19) \o <<1>> \o Zero(62) \o <<1>>
              \o <<0, 1, 1, 1, 1, 1>> \o Zero(26) \o F(10, 1023),
   means |-> [kind |-> "MsmHeader", constellation |-> c, station |-> F(12, 1),
              epoch |-> W(30, 77), num_sats |-> 2, signals |-> {2, 3, 4, 5, 6}]]
Undecoded(t) == [bits |-> F(12, t) \o F(12, 1), means |-> None]

MCSent == {BasePosition(1005, 5, 0, 0, <<>>), BasePosition(1006, 0, 0, 0, F(16, 9)),
           AntennaInfo(1008, <<65, 66>>, <<<<>>>>), AntennaInfo(1008, <<65>>, <<<<49, 50>>>>),
           AntennaInfo(1033, <<>>, <<<<49>>, <<>>, <<50, 51>>, <<>>>>),
           TextMessage, Biases, Msm(1077, "GPS"), Msm(1131, "NavIC"), Undecoded(1019), Undecoded(1078), Undecoded(1141)}
-------------------------------------------------------------------------------
(* Sentences: RTK fixed, float, none, half a position, a bad checksum *)

Gga(q, sats, hdop, lat, lon, age, station) ==
  [addr |-> "GGA", ck |-> "ok",
   f |-> (2 :> lat) @@ (3 :> "N") @@ (4 :> lon) @@ (5 :> IF lon = "" THEN "" ELSE "E") @@ (6 :> q)
         @@ (7 :> sats) @@ (8 :> hdop) @@ (9 :> "10") @@ (13 :> age) @@ (14 :> station)]
MCTexts == [fixed |-> Gga("4", "9", "1.01", "a", "b", "1", "7"),
            float |-> Gga("5", "9", "1.04", "c", "d", "", "8"),
            none  |-> Gga("0", "?", "", "", "", "", ""),
            half  |-> Gga("1", "9", "2.0", "e", "", "", ""),
            corrupt |-> [Gga("4", "9", "1.01", "x", "y", "1", "7") EXCEPT !.ck = "bad"],
            rmc   |-> [addr |-> "RMC", ck |-> "ok", f |-> (7 :> "3") @@ (8 :> "?")],
            gsa   |-> [addr |-> "GSA", ck |-> "ok", f |-> (15 :> "2") @@ (16 :> "1")],
            prop  |-> [addr |-> "PUBX", ck |-> "ok", f |-> (1 :> "00")]]
MCRxLines == {<<"$", "fixed", NL>>, <<"$", "float", NL>>, <<"$", "none", NL>>, <<"$", "half", NL>>,
              <<"$", "rmc", NL>>, <<"junk", "junk", "junk", "$", "fixed", NL>>,
              <<"fixed", NL>>, <<"$", "corrupt", NL>>}
-------------------------------------------------------------------------------
(* Letters 1..3, capitals 11..13, an accented 21, the ligature 31.  Cities of *)
(* one name in two states, of two spellings, of a country the table lacks.    *)

MCFold == (1 :> <<1>>) @@ (2 :> <<2>>) @@ (3 :> <<3>>) @@ (11 :> <<1>>) @@ (12 :> <<2>>)
            @@ (13 :> <<3>>) @@ (21 :> <<1>>) @@ (31 :> <<1, 2>>) @@ (SPACE :> <<SPACE>>) @@ (COMMA :> <<COMMA>>)
            @@ [d \in Digits |-> <<d>>]
City(n, a, c, s, at, pop) == [name |-> n, ascii |-> a, country |-> c, admin1 |-> s, at |-> <<at, at>>, pop |-> pop]
MCCities == <<City(<<12, 1>>, <<12, 1>>, <<13, 13>>, <<11>>, 1, 5),
              City(<<12, 1>>, <<12, 1>>, <<13, 13>>, <<12>>, 2, 9),
              City(<<12, 21, 2>>, <<12, 1, 2>>, <<11, 12>>, <<13, 1>>, 3, 7),
              City(<<31, 2>>, <<11, 2>>, <<11, 12>>, <<>>, 4, 9),
              City(<<12, 1, SPACE, 1>>, <<12, 1, SPACE, 1>>, <<13, 13>>, <<13>>, 5, 1),
              City(<<11, 1>>, <<11, 1>>, <<13, 11>>, <<11>>, 6, 8)>>
MCAdmins == (<<<<13, 13>>, <<11>>>> :> [abbrev |-> <<11>>, name |-> <<11, 2, 1>>])
         @@ (<<<<13, 13>>, <<12>>>> :> [abbrev |-> <<12>>, name |-> <<12, 3>>])
         @@ (<<<<11, 12>>, <<13, 1>>>> :> [abbrev |-> <<13, 1>>, name |-> <<11, 3>>])
MCCountries == (<<13, 13>> :> <<13, 1, 2>>) @@ (<<11, 12>> :> <<11, 2, 3>>)
Z(a, b, at) == [zip |-> <<50, 50, 51, a, b>>, at |-> <<at, at>>]
MCZips == <<Z(53, 50, 7), Z(51, 50, 8), Z(53, 50, 9), Z(51, 59, 10)>>
MCTyped == {1, 2, 11, COMMA, SPACE, 50}
MCUS == <<13, 13>>
MCReceivers == {<<20, 20>>}
-------------------------------------------------------------------------------
(* Two tables: one with a damaged record of every kind, one plain *)

Str(m, i, fm, c, b) == [tag |-> "STR", f |-> (1 :> m) @@ (2 :> i) @@ (3 :> fm) @@ (8 :> c) @@ (17 :> b)]
Cas(h) == [tag |-> "CAS", f |-> (1 :> h) @@ (2 :> <<3>>)]
Net(i) == [tag |-> "NET", f |-> (1 :> i)]
Other(s) == [tag |-> "other", f |-> (1 :> s)]
Bare(t) == [tag |-> t, f |-> <<>>]

MCTables == {<<Str(<<12, 1>>, <<3>>, <<1>>, <<2>>, <<9>>), Cas(<<1>>), Bare("blank"),
               Str(<<1>>, <<12>>, <<11>>, <<12>>, <<1, 9>>), Str(<<11, 2>>, <<3>>, <<2>>, <<>>, <<4>>),
               Net(<<2>>), Other(<<1, 2>>), Bare("stray"), Bare("ENDSOURCETABLE")>>,
             <<Str(<<12>>, <<>>, <<>>, <<>>, <<>>), Str(<<1>>, <<2>>, <<1>>, <<1>>, <<2>>), Bare("ENDSOURCETABLE")>>}
MCCallers == {"a", "b"}
MCFilters == {<<>>, <<12>>, <<1, 2>>}
-------------------------------------------------------------------------------
(* The original client's two files with a damaged line of every kind *)

Line(k, v) == [key |-> k, value |-> v]
MCLegacy ==
  [ntripconfig |-> <<Line("ntrip caster", "speed"), Line("", ""), Line("ntrip caster port", "yes"),
                     Line("ntrip password", "rtcm"), Line("colour", "no")>>,
   settings |-> <<Line("serial port number", "5"), Line("serial port stop bits", "0"),
                  Line("serial port data bits", "9"), Line("", ""), Line("check for updates", "yes"),
                  Line("check for updates interval", "weekly"), Line("ntrip only send gga once", "yes"),
                  Line("last checked for updates", "weekly"), Line("protocol", "rawtcpip")>>]
MCHandEdits == {[active |-> "gone"], [profiles |-> <<>>], [data_bits |-> "9"]}
-------------------------------------------------------------------------------
(* Properties: of each reader, its own *)

\* Deframer::feed: "feed arbitrary chunks", and frame.rs: "guarantees resync at
\* the next intact frame": where the reads cut the stream makes no difference,
\* and no damage makes an intact frame disappear.
DeframerIsExact == reader = "stream" => R!CutsDoNotMatter /\ R!NoFrameSwallowed

\* frame.rs: "every consumed byte is accounted for exactly once", in what the
\* RTCM inspector shows of the whole run.
InspectorAccounts == reader = "stream" => R!InspectorAccounts

\* decode.rs: "Truncated or inconsistent payloads yield None".
DecodingIsExact == reader = "decode" => DecodeIsAllOrNothing

\* The event log of an opening of the port tells the fix the receiver had; the
\* status strip shows a position the receiver stated, calls live what is
\* arriving, and only that.
ReceiverIsTrue == reader = "receiver" => V!LogTellsTheFix /\ V!PositionIsOne /\ V!BannerIsTrue

\* A search finds what the query means, and a chosen label finds its place.
SearchIsExact == reader = "geocoder" => SearchIsTrue

\* What the browser marks is used, of the table it shows, and nothing is lost.
BrowserIsTrue == reader = "browser" => B!BrowserIsTrue

\* request.rs: "No caller-provided string can forge request lines".
RequestIsAsMeant == reader = "request" => Q!RequestIsAsMeant
===============================================================================
