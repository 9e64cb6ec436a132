----------------------------- MODULE SessionFeed ------------------------------
(***************************************************************************)
(* The parser inside the NTRIP session (crates/ntrip-core/src/session.rs   *)
(* from on_bytes down, and src/chunked.rs): one byte stream is fed to two  *)
(* sessions, to `one' byte by byte and to `whole' in segments cut anywhere *)
(* (TCP may cut a stream at any byte), and each must say the same.         *)
(*                                                                         *)
(* What the caster sends is a byte, or  a word the parser knows; a word is    *)
(* fed as a unit, for the parser only looks at complete lines.  Time is in *)
(* NtripSession, which this parser is shown to implement.                  *)
(***************************************************************************)
EXTENDS Naturals, FiniteSets, FiniteSetsExt, Sequences, SequencesExt

CONSTANTS Casters,     \* what a caster may send, before its body and in it,
                       \* and how much of each: [header, body, maxHeader, maxBody]
          MaxSegment,  \* bound: bytes in one segment
          HDR_CAP, PRELUDE_LINE_CAP, PRELUDE_MAX_LINES, MAX_LINE,
          MaxSize              \* the largest u64

Alphabet == UNION {c.header \cup c.body : c \in Casters}

VARIABLES caster,   \* one of Casters
          mount,    \* the request named a mountpoint
          one,      \* the session fed byte by byte
          whole,    \* the session fed in segments
          segment,  \* what one has been fed and whole not
          ahead,    \* what one emitted for the segment
          said,     \* what whole's latest call emitted
          body,     \* ghost: the bytes one was fed since its header ended
          got,      \* ghost: the body bytes one handed to its caller
          framing,  \* ghost: how the header said that body is framed
          flooded,  \* ghost: one's header outgrew HDR_CAP
          kept      \* ghost: what outlives a phase of whole in NtripSession

vars == <<caster, mount, one, whole, segment, ahead, said, body, got, framing, flooded, kept>>

\* The words: status lines, "Name: value" header lines, the table's end line.
StatusWords == {"ICY 200", "SOURCETABLE 200", "HTTP 200", "HTTP 401", "HTTP 500"}
Types       == {"gnss/sourcetable", "text/html"}
Encodings   == {"chunked", "identity"}
Lengths     == {"length 0", "length 2"}
Fields      == Types \cup Encodings \cup Lengths
\* The bytes that are not letters: ";ext" starts a chunk extension, "bin" is
\* a byte that is not printable, such as the 0xD3 every RTCM frame opens with.
Blank       == {" ", "CR"}
Digits      == {"0", "1", "2"}
ASSUME CastersAssumption ==
  \A c \in Casters :
    /\ c.header \cup c.body \subseteq StatusWords \cup Fields \cup Blank \cup Digits
                                      \cup {"END", "w", ":", ";ext", "LF", "bin"}
    /\ c.header \cap Lengths = {} \/ c.header \cap Digits = {}
    /\ {c.maxHeader, c.maxBody} \subseteq Nat
ASSUME CapsAssumption ==
  {MaxSegment, HDR_CAP, PRELUDE_LINE_CAP, PRELUDE_MAX_LINES, MAX_LINE, MaxSize} \subseteq Nat

-------------------------------------------------------------------------------
(* Sequences of bytes *)

NewLine(bytes) == SelectInSeq(bytes, LAMBDA b : b = "LF")  \* 0: there is none
Take(bytes, n) == SubSeq(bytes, 1, n)
Drop(bytes, n) == SubSeq(bytes, n + 1, Len(bytes))
Least(m, n)    == IF m < n THEN m ELSE n
NoCR(line)     == IF line # <<>> /\ Last(line) = "CR" THEN Front(line) ELSE line
Trim(line)     == LET ink == {i \in DOMAIN line : line[i] \notin Blank}
                      First == CHOOSE i \in ink : \A j \in ink : i <= j
                      Final == CHOOSE i \in ink : \A j \in ink : i >= j
                  IN  IF ink = {} THEN <<>> ELSE SubSeq(line, First, Final)
Starts(line, words) == Trim(line) # <<>> /\ Head(Trim(line)) \in words
Says(line, words)   == \E i \in DOMAIN line : line[i] \in words

-------------------------------------------------------------------------------
(* chunked.rs *)

NewDecoder == [state |-> "SizeLine", left |-> 0, line |-> <<>>]

\* parse_size_line: the extension goes, the rest must be hexadecimal, and the
\* size must fit a u64.
BadSize == MaxSize + 1
Size(line) ==
  LET ext    == SelectInSeq(NoCR(line), LAMBDA b : b = ";ext")
      hex    == Trim(IF ext = 0 THEN NoCR(line) ELSE Take(line, ext - 1))
      Digit  == [d \in Digits |-> CASE d = "0" -> 0 [] d = "1" -> 1 [] OTHER -> 2]
      Add(size, b) ==
        IF size = BadSize \/ b \notin Digits THEN BadSize
        ELSE Least(size * 16 + Digit[b], BadSize)
  IN  IF hex = <<>> THEN BadSize ELSE FoldLeft(Add, 0, hex)

\* fault: an incomplete size line is forgotten between feeds
Carried_Lost(line) == <<>>
Carried(line) == line
\* Decoder::feed with take_line: the decoder, the payload and whether it died.
RECURSIVE Decode(_, _, _)
Decode(d, input, payload) ==
  LET Result(dec, err) == [dec |-> dec, payload |-> payload, err |-> err]
      nl   == NewLine(input)
      line == d.line \o (IF nl = 0 THEN input ELSE Take(input, nl - 1))
      Goto(state, left) == Decode([state |-> state, left |-> left, line |-> <<>>],
                                  Drop(input, nl), payload)
      n    == Least(d.left, Len(input))
      Skip(state) == Decode([d EXCEPT !.state = state], Tail(input), payload)
  IN
  IF input = <<>> \/ d.state = "Done" THEN Result(d, FALSE)
  ELSE CASE d.state = "Data" ->
              Decode([d EXCEPT !.left = @ - n,
                               !.state = IF d.left = n THEN "CrlfAfterData" ELSE @],
                     Drop(input, n), payload \o Take(input, n))
         [] d.state \in {"CrlfAfterData", "CrSeen"} ->
              IF Head(input) = "LF" THEN Skip("SizeLine")
              ELSE IF Head(input) = "CR" /\ d.state = "CrlfAfterData" THEN Skip("CrSeen")
              ELSE Result(d, TRUE)
         [] d.state \in {"SizeLine", "Trailers"} ->
              IF Len(line) > MAX_LINE THEN Result(d, TRUE)
              ELSE IF nl = 0 THEN Result([d EXCEPT !.line = Carried(line)], FALSE)
              ELSE IF d.state = "Trailers"
                   THEN Goto(IF line \in {<<>>, <<"CR">>} THEN "Done" ELSE "Trailers", 0)
              ELSE IF Size(line) = BadSize THEN Result(d, TRUE)
              ELSE Goto(IF Size(line) = 0 THEN "Trailers" ELSE "Data", Size(line))
-------------------------------------------------------------------------------
(* The session: its phases, and the funnel of every close *)

NoLength == 1 + Max({c.maxBody : c \in Casters})
Fresh == [phase |-> "StatusLine", hdr |-> <<>>, pos |-> 0,
          status |-> <<>>, isTable |-> FALSE, length |-> NoLength,   \* HttpInfo
          chunked |-> FALSE,
          dec |-> NewDecoder,
          table |-> <<>>, scan |-> 0, remaining |-> NoLength,      \* TableState
          prelude |-> FALSE, line |-> <<>>, lines |-> 0]           \* StreamState
\* Nothing of a session that is done is ever read again.
Inert == [Fresh EXCEPT !.phase = "Done"]
Header == {"StatusLine", "HttpHeaders"}

Output(what, text) == [what |-> what, text |-> text]
Rx(line) == Output("ProtocolRx", line)

\* emit_close: what the prelude scanner holds comes out as a line, not as data.
Close(s, out, reason, text) ==
  [s |-> Inert,
   out |-> out \o (IF s.line = <<>> THEN <<>> ELSE <<Rx(s.line)>>)
               \o <<Output(reason, text)>>]

\* fault: what follows the header in its segment is discarded
Leftover_Lost(s) == <<>>
\* take_hdr_leftover
Leftover(s) == Drop(s.hdr, s.pos)
\* take_hdr_consumed
Consumed(s) == Take(s.hdr, s.pos)

\* fault: the prelude is looked for behind an HTTP header too
EnterStreaming_Prelude(isIcy, isChunked) ==
  [Fresh EXCEPT !.phase = "Streaming", !.prelude = TRUE, !.chunked = isChunked]
EnterStreaming(isIcy, isChunked) ==
  [Fresh EXCEPT !.phase = "Streaming", !.prelude = isIcy, !.chunked = isChunked]
\* fault: Transfer-Encoding is obeyed beside a Content-Length
EnterTable_Chunked(length, isChunked) ==
  [Fresh EXCEPT !.phase = "Table", !.remaining = length, !.chunked = isChunked]
\* Content-Length wins over Transfer-Encoding.
EnterTable(length, isChunked) ==
  [Fresh EXCEPT !.phase = "Table", !.remaining = length,
                !.chunked = isChunked /\ length = NoLength]

-------------------------------------------------------------------------------
(* drive_header: lines are taken until a body begins, the session closes or *)
(* a line is incomplete                                                     *)

Stopped(result)    == result @@ [crossed |-> FALSE, leftover |-> <<>>]
Crossed(s, out, leftover) == [s |-> s, out |-> out, crossed |-> TRUE, leftover |-> leftover]

\* A header line of the HTTP response: the latest of a name counts, and its
\* value is searched for the word that matters.
Note(s, line) ==
  LET Named(fields) == Starts(line, fields)
      LengthOf == IF Trim(line) = <<"length 0">> THEN 0
                  ELSE IF Trim(line) = <<"length 2">> THEN 2 ELSE NoLength
  IN  [s EXCEPT !.isTable = IF Named(Types) THEN Says(line, {"gnss/sourcetable"}) ELSE @,
                !.length  = IF Named(Lengths) THEN LengthOf ELSE @,
                !.chunked = IF Named(Encodings) THEN Says(line, {"chunked"}) ELSE @]

\* fault: the declared type alone decides
IsTable_Declared(s) == s.isTable
IsTable(s) == ~mount \/ s.isTable

ClassifyHttp(s, out) ==
  IF Says(s.status, {"HTTP 401"}) THEN Stopped(Close(s, out, "Unauthorized", <<>>))
  ELSE IF ~Says(s.status, {"HTTP 200", "ICY 200", "SOURCETABLE 200"})
       THEN Stopped(Close(s, out, "UnknownResponse", Consumed(s)))
  ELSE IF IsTable(s) THEN Crossed(EnterTable(s.length, s.chunked), out, Leftover(s))
  ELSE Crossed(EnterStreaming(FALSE, s.chunked), out, Leftover(s))

\* fault: a table request is answered with a stream
TakesIcy_Always == TRUE
\* ICY promises corrections: an answer to a mountpoint request only.
TakesIcy == mount

RECURSIVE DriveHeader(_, _)
DriveHeader(s, out) ==
  LET nl   == NewLine(Drop(s.hdr, s.pos))
      line == NoCR(SubSeq(s.hdr, s.pos + 1, s.pos + nl - 1))
      read == [s EXCEPT !.pos = @ + nl]
      logged == Append(out, Rx(line))
  IN
  IF nl = 0 THEN Stopped([s |-> s, out |-> out])
  ELSE IF s.phase = "HttpHeaders"
       THEN IF Trim(line) = <<>> THEN ClassifyHttp(read, out)
            ELSE DriveHeader(Note(read, line), logged)
  ELSE IF Starts(line, {"HTTP 200", "HTTP 401", "HTTP 500"})
       THEN DriveHeader([read EXCEPT !.phase = "HttpHeaders", !.status = line], logged)
  ELSE IF Starts(line, {"SOURCETABLE 200"})
       THEN Crossed(EnterTable(NoLength, FALSE), logged, Leftover(read))
  ELSE IF Starts(line, {"ICY 200"}) /\ TakesIcy
       THEN Crossed(EnterStreaming(TRUE, FALSE), logged, Leftover(read))
  ELSE Stopped(Close(read, IF Starts(line, {"ICY 200"}) THEN logged ELSE out,
                     "UnknownResponse", Consumed(read)))
-------------------------------------------------------------------------------
(* ingest_body: the table, or the stream behind its prelude *)

\* finalize_table
FinalizeTable(table, out, after) ==
  IF mount THEN Close(Inert, out, "MountpointNotFound", table)
  ELSE [s |-> Inert, out |-> Append(out, Output("Sourcetable", table)) \o after]

\* fault: the cursor moves past an incomplete line
ScanFrom_End(table, scan) == Len(table)
\* fault: and past the table
ScanFrom_Past(table, scan) == Len(table) + 1
ScanFrom(table, scan) == scan
\* scan_end_line: where the ENDSOURCETABLE line ends (0: not yet), and the cursor
RECURSIVE ScanEndLine(_, _)
ScanEndLine(table, scan) ==
  LET nl == NewLine(Drop(table, scan))
  IN  IF nl = 0 THEN [end |-> 0, scan |-> ScanFrom(table, scan)]
      ELSE IF Trim(SubSeq(table, scan + 1, scan + nl - 1)) = <<"END">>
           THEN [end |-> scan + nl, scan |-> scan]
      ELSE ScanEndLine(table, scan + nl)

\* fault: what follows the end line in its segment stays in the table
UpTo_All(table, end) == table
UpTo(table, end) == Take(table, end)

\* What was decoded before an error joins the table, and may complete it.
FeedTable(s, data, out) ==
  LET taken == Take(data, Least(s.remaining, Len(data)))
      fed   == IF s.chunked THEN Decode(s.dec, data, <<>>)
               ELSE [dec |-> s.dec, payload |-> taken, err |-> FALSE]
      left  == IF s.remaining = NoLength THEN NoLength ELSE s.remaining - Len(taken)
      table == s.table \o fed.payload
      found == ScanEndLine(table, s.scan)
  IN
  IF found.end # 0 THEN FinalizeTable(UpTo(table, found.end), out, <<>>)
  ELSE IF fed.err THEN Close(s, out, "StreamCorrupt", <<>>)
  ELSE IF left = 0 \/ fed.dec.state = "Done" THEN FinalizeTable(table, out, <<>>)
  ELSE [s |-> [s EXCEPT !.table = table, !.scan = found.scan,
                        !.dec = fed.dec, !.remaining = left],
        out |-> out]

\* header_shaped: a token, then a colon (which a header word brings along).
HeaderShaped(txt) ==
  LET colon == SelectInSeq(txt, LAMBDA b : b \in Fields \cup {":"})
  IN  /\ colon # 0
      /\ \A i \in 1..(colon - 1) : txt[i] \in Digits \cup {"END", "w"}
      /\ colon > 1 \/ txt[colon] \in Fields

\* fault: a held line that turns out to be payload is dropped
Replay_Lost(line) == <<>>
Replay(line) == line
\* consume_prelude: the session, and the payload once one byte has ruled the
\* rest out as a header line.
RECURSIVE ConsumePrelude(_, _, _)
ConsumePrelude(s, data, out) ==
  LET b   == Head(data)
      txt == NoCR(s.line)
      breaksLine == /\ b # "LF"
                    /\ \/ s.line # <<>> /\ Last(s.line) = "CR"
                       \/ b = "bin"
                       \/ b # "CR" /\ Len(s.line) >= PRELUDE_LINE_CAP
      Resolve(replay, rest) ==
        [s |-> [s EXCEPT !.prelude = FALSE, !.line = <<>>], payload |-> replay \o rest, out |-> out]
  IN
  IF data = <<>> THEN [s |-> s, payload |-> <<>>, out |-> out]
  ELSE IF breaksLine THEN Resolve(Replay(s.line), data)
  ELSE IF b # "LF" THEN ConsumePrelude([s EXCEPT !.line = Append(@, b)], Tail(data), out)
  ELSE IF txt = <<>> THEN Resolve(<<>>, Tail(data))
  ELSE IF s.lines < PRELUDE_MAX_LINES /\ HeaderShaped(txt)
       THEN ConsumePrelude([s EXCEPT !.line = <<>>, !.lines = @ + 1], Tail(data),
                           Append(out, Rx(txt)))
  ELSE Resolve(Replay(Append(s.line, "LF")), Tail(data))

\* Chunks decoded before an error or the terminal chunk are corrections.
FeedStream(s, data, out) ==
  LET pre   == IF s.prelude THEN ConsumePrelude(s, data, out)
               ELSE [s |-> s, payload |-> data, out |-> out]
      fed   == IF s.chunked THEN Decode(s.dec, pre.payload, <<>>)
               ELSE [dec |-> s.dec, payload |-> pre.payload, err |-> FALSE]
      after == [pre.s EXCEPT !.dec = fed.dec]
      emitted == pre.out \o (IF fed.payload = <<>> THEN <<>>
                             ELSE <<Output("Corrections", fed.payload)>>)
  IN
  IF fed.err THEN Close(after, emitted, "StreamCorrupt", <<>>)
  ELSE IF pre.payload # <<>> /\ fed.dec.state = "Done"
       THEN Close(after, emitted, "RemoteClosed", <<>>)
  ELSE [s |-> after, out |-> emitted]

IngestBody(s, data, out) ==
  IF s.phase = "Table" THEN FeedTable(s, data, out) ELSE FeedStream(s, data, out)

-------------------------------------------------------------------------------
(* The calls *)

\* The bytes a flood leaves behind are the documented exception: not compared.
OnBytes(s, data) ==
  LET driven == DriveHeader([s EXCEPT !.hdr = @ \o data], <<>>)
  IN
  CASE s.phase = "Done" -> [s |-> s, out |-> <<>>]
    [] s.phase \in {"Table", "Streaming"} -> IngestBody(s, data, <<>>)
    [] s.phase \in Header ->
         IF driven.crossed THEN IngestBody(driven.s, driven.leftover, driven.out)
         ELSE IF driven.s.phase \in Header /\ Len(driven.s.hdr) > HDR_CAP
              THEN Close(driven.s, driven.out, "UnknownResponse", <<>>)
         ELSE [s |-> driven.s, out |-> driven.out]

OnRemoteClose(s) ==
  CASE s.phase = "Done"     -> [s |-> s, out |-> <<>>]
    [] s.phase \in Header   -> Close(s, <<>>, "UnknownResponse", s.hdr)
    [] s.phase = "Table"    -> FinalizeTable(s.table, <<>>, <<Output("RemoteClosed", <<>>)>>)
    [] s.phase = "Streaming" -> Close(s, <<>>, "RemoteClosed", <<>>)
-------------------------------------------------------------------------------
(* One byte after the other arrives, the segment it is in is delivered at   *)
(* some time, and the caster hangs up at some time                          *)

\* NtripSession::new
Init ==
  /\ caster \in Casters /\ mount \in BOOLEAN
  /\ one = Fresh /\ whole = Fresh
  /\ segment = <<>> /\ ahead = <<>> /\ said = <<>>
  /\ body = <<>> /\ got = <<>> /\ flooded = FALSE
  /\ framing = [phase |-> "none", icy |-> FALSE, chunked |-> FALSE, length |-> NoLength]
  /\ kept = [chunked |-> FALSE, table |-> FALSE, closes |-> 0]

Products == {"Corrections", "Sourcetable", "MountpointNotFound"}
Delivered(out) == FlattenSeq([i \in DOMAIN out |->
                                IF out[i].what \in Products THEN out[i].text ELSE <<>>])

\* Bytes of a stream are compared one by one, not by the call they came from.
Flat(out) ==
  FlattenSeq([i \in DOMAIN out |->
    IF out[i].what = "Corrections"
    THEN [j \in DOMAIN out[i].text |-> Output("Corrections", <<out[i].text[j]>>)]
    ELSE <<out[i]>>])

\* What the header said of a body in this phase; Content-Length wins in a table.
Framing(s, phase) ==
  [phase |-> phase, icy |-> s.phase = "StatusLine", length |-> s.length,
   chunked |-> s.chunked /\ (phase = "Table" => s.length = NoLength)]

Byte(b) ==
  LET inHeader == one.phase \in Header IN
  \E fed \in {OnBytes(one, <<b>>)} :
  /\ Len(segment) < MaxSegment
  /\ one.phase = "Done" => segment # <<>>
  /\ IF inHeader THEN b \in caster.header /\ Len(one.hdr) < caster.maxHeader
                 ELSE b \in caster.body /\ Len(body) < caster.maxBody
  /\ one' = fed.s /\ segment' = Append(segment, b)
  /\ ahead' = (IF segment = <<>> THEN <<>> ELSE ahead) \o Flat(fed.out)
  /\ got' = got \o Delivered(fed.out)
  /\ body' = IF inHeader \/ one.phase = "Done" THEN body ELSE Append(body, b)
  /\ framing' = IF inHeader /\ fed.s.phase \in {"Table", "Streaming"}
                THEN Framing(one, fed.s.phase) ELSE framing
  /\ flooded' = (flooded \/ (inHeader /\ Len(one.hdr) >= HDR_CAP))
  /\ UNCHANGED <<caster, mount, whole, said, kept>>

Closing(out) == \E i \in DOMAIN out : out[i].what \notin {"ProtocolRx", "Corrections", "Sourcetable"}
Keep(fed) ==
  kept' = [chunked |-> IF fed.s.phase \in {"Table", "Streaming"} THEN fed.s.chunked ELSE kept.chunked,
           table   |-> kept.table \/ fed.s.phase = "Table",
           closes  |-> kept.closes + (IF Closing(fed.out) THEN 1 ELSE 0)]

Deliver ==
  \E fed \in {OnBytes(whole, segment)} :
  /\ segment # <<>> /\ segment' = <<>>
  /\ whole' = fed.s /\ said' = fed.out /\ Keep(fed)
  /\ UNCHANGED <<caster, mount, one, ahead, body, got, framing, flooded>>

Hangup ==
  \E fed \in {OnRemoteClose(whole)}, alone \in {OnRemoteClose(one)} :
  /\ segment = <<>> /\ whole.phase # "Done"
  /\ whole' = fed.s /\ said' = fed.out /\ Keep(fed)
  /\ one' = alone.s /\ ahead' = Flat(alone.out) /\ got' = got \o Delivered(alone.out)
  /\ UNCHANGED <<caster, mount, segment, body, framing, flooded>>

Next == (\E b \in Alphabet : Byte(b)) \/ Deliver \/ Hangup
Spec == Init /\ [][Next]_vars
-------------------------------------------------------------------------------
(* Properties *)

TypeOK ==
  /\ caster \in Casters /\ mount \in BOOLEAN /\ flooded \in BOOLEAN
  /\ {one.phase, whole.phase} \subseteq Header \cup {"Table", "Streaming", "Done"}
  /\ one.dec.state \in {"SizeLine", "Data", "CrlfAfterData", "CrSeen", "Trailers", "Done"}
  /\ one.pos <= Len(one.hdr) /\ one.scan <= Len(one.table)
  /\ segment \in Seq(Alphabet) /\ body \in Seq(Alphabet) /\ got \in Seq(Alphabet)

\* session.rs, "Split invariance: any packetization of the same received byte
\* stream produces the same outputs", and leaves the same session behind.  The
\* code keeps it for every header that stays within HDR_CAP.
SameOutputs == segment = <<>> => whole = one /\ Flat(said) = ahead
SplitInvarianceWithinCap == ~flooded => SameOutputs

\* ... and, says the comment, beyond it: raw bytes (and the log's lines) apart,
\* "the close itself still fires either way".
Outcomes(out) ==
  LET told == SelectSeq(out, LAMBDA o : o.what # "ProtocolRx")
  IN  [i \in DOMAIN told |-> IF told[i].what = "UnknownResponse"
                             THEN Output("UnknownResponse", <<>>) ELSE told[i]]
SplitInvariance == segment = <<>> => Outcomes(Flat(said)) = Outcomes(ahead)

\* The lines of a sequence of bytes, by the positions of their ends.
Ends(bytes) == {i \in DOMAIN bytes : bytes[i] = "LF"}
LineTo(bytes, end) ==
  LET before == {i \in Ends(bytes) : i < end}
  IN  SubSeq(bytes, 1 + Max(before \cup {0}), end - 1)

\* What may still become a header line: printable, not too long, CR at its end.
Clean(line) ==
  /\ \A i \in DOMAIN line : line[i] # "LF" /\ line[i] # "bin" /\ (line[i] = "CR" => i = Len(line))
  /\ Len(NoCR(line)) <= PRELUDE_LINE_CAP
BlankLine(line) == NoCR(line) = <<>>
HeaderBlock(bytes) ==
  /\ bytes = <<>> \/ Last(bytes) = "LF"
  /\ \A end \in Ends(bytes) :
       LET line == LineTo(bytes, end)
       IN  /\ Clean(line)
           /\ IF end = Len(bytes) /\ BlankLine(line) THEN TRUE
              ELSE /\ HeaderShaped(NoCR(line))
                   /\ Cardinality({i \in Ends(bytes) : i <= end}) <= PRELUDE_MAX_LINES

\* An ICY stream loses to the prelude its longest block of whole header lines
\* and nothing else, to the byte; the rest is held back only for as long as it
\* may still become a header line.  An HTTP stream loses nothing.
NothingEaten ==
  framing.phase = "Streaming" /\ ~framing.chunked =>
    LET eaten == Max({k \in 0..Len(body) : HeaderBlock(Take(body, k))})
        rest  == Drop(body, eaten)
        ended == eaten # 0 /\ BlankLine(LineTo(body, eaten))
    IN  IF ~framing.icy THEN got = body
        ELSE got = IF ~ended /\ Clean(rest) THEN <<>> ELSE rest

\* A chunked body read from its whole text (RFC 9112): its payload, and
\* whether it is still open, has ended or is corrupt.  A framing line is held
\* to MAX_LINE, complete or not.
FramingLine(text) == IF NewLine(text) = 0 THEN text ELSE Take(text, NewLine(text) - 1)
AfterLine(text)   == Drop(text, NewLine(text))
RECURSIVE Trailers(_)
Trailers(text) ==
  IF Len(FramingLine(text)) > MAX_LINE THEN "corrupt"
  ELSE IF NewLine(text) = 0 THEN "open"
  ELSE IF BlankLine(FramingLine(text)) THEN "ended" ELSE Trailers(AfterLine(text))

RECURSIVE Chunks(_)
Chunks(text) ==
  LET line == FramingLine(text)
      size == Size(line)
      rest == AfterLine(text)
      data == Take(rest, Least(size, Len(rest)))
      gap  == Drop(rest, size)
      more == IF gap[1] = "LF" THEN Chunks(Tail(gap)) ELSE Chunks(Drop(gap, 2))
      Read(payload, state) == [payload |-> payload, state |-> state]
  IN
  IF Len(line) > MAX_LINE THEN Read(<<>>, "corrupt")
  ELSE IF NewLine(text) = 0 THEN Read(<<>>, "open")
  ELSE IF size = BadSize THEN Read(<<>>, "corrupt")
  ELSE IF size = 0 THEN Read(<<>>, Trailers(rest))
  ELSE IF gap \in {<<>>, <<"CR">>} THEN Read(data, "open")
  ELSE IF gap[1] = "LF" \/ (gap[1] = "CR" /\ gap[2] = "LF")
       THEN Read(data \o more.payload, more.state)
  ELSE Read(data, "corrupt")

\* The chunk framing is carried over every cut: no payload byte is lost, none
\* of the framing is taken for payload, and the body ends where its text ends
\* and is called corrupt only if it is.
ChunkedExact ==
  framing.phase = "Streaming" /\ framing.chunked =>
    LET read == Chunks(body)
        corrupt == \E i \in DOMAIN ahead : ahead[i].what = "StreamCorrupt"
    IN  /\ got = read.payload
        /\ one.phase = "Streaming" => read.state = "open"
        /\ corrupt => read.state = "corrupt"

\* A table is handed over complete and without what follows it: up to its end
\* line, its Content-Length, its last chunk or the close; only a framing error
\* in an unfinished table discards it.
TableExact ==
  framing.phase = "Table" /\ one.phase = "Done" =>
    LET payload == IF framing.chunked THEN Chunks(body).payload
                   ELSE Take(body, Least(framing.length, Len(body)))
        ends == {end \in Ends(payload) : Trim(LineTo(payload, end)) = <<"END">>}
    IN  IF ends # {} THEN got = Take(payload, Min(ends))
        ELSE got = payload \/ (framing.chunked /\ got = <<>>)

\* However the answer is cut into reads, the session says the same, and what it
\* hands over is the stream or the table as a reading of the whole text has it.
FeedIsExact == /\ TypeOK /\ SplitInvarianceWithinCap
               /\ NothingEaten /\ ChunkedExact /\ TableExact

\* NtripSession reduces a feed to a verdict: the parser reaches no other.
Verdicts(out) == LET heard == SelectSeq(out, LAMBDA o : o.what # "ProtocolRx")
                 IN  [i \in DOMAIN heard |-> heard[i].what]
Machine == INSTANCE NtripSession WITH
  FIRST_RESPONSE <- 1, TABLE <- 1, SILENCE <- 1,
  GGA_FIRST <- 1, GGA_INTERVAL <- 1, GGA_RETRY <- 1,
  raw <- FALSE, phase <- whole.phase, chunked <- kept.chunked,
  firstLeft <- 1, tableLeft <- IF kept.table THEN 1 ELSE 0, quiet <- 0,
  gga <- "Disabled", ggaLeft <- 0, sinceArm <- 0, armedBy <- "none",
  out <- Verdicts(said), tickOwed <- FALSE, owed <- 0, closes <- kept.closes,
  age <- 0, idle <- 0
ReachesVerdicts == Machine!Spec
===============================================================================
