-------------------------------- MODULE Request --------------------------------
(***************************************************************************)
(* The request of an Ntrip session: the bytes on the wire, the base64 of   *)
(* the credentials and the lines the connection log keeps of it.           *)
(*                                                                         *)
(* A text is a sequence of bytes; a fixed word of the request is one       *)
(* number above every byte.                                                *)
(***************************************************************************)
EXTENDS Naturals, FiniteSets, SequencesExt

CONSTANTS Chars,       \* bytes a user may type or a hand-edited file may hold
          MaxTyped     \* over all the fields

CR == 13
LF == 10
SP == 32
COLON == 58
PERCENT == 37
\* "GET /", "HTTP/1.0", "HTTP/1.1", and the headers' names and fixed values
GET == 1001
HTTP10 == 1002
HTTP11 == 1003
HOST == 1004
PORT == 1005
VERSION == 1006
AGENT == 1007
ACCEPT == 1008
CLOSE == 1009
AUTH == 1010
MASKED == 1011

VARIABLES cfg     \* SessionConfig

rqVars == <<cfg>>
Fields == {"mountpoint", "host", "user_agent", "username", "password"}
-------------------------------------------------------------------------------
(* base64::encode *)

\* The 24 bits of a chunk of up to three bytes, four digits of six bits; the
\* digits past its end are the padding.
PAD == 64
ByteAt(s, i) == IF i \in DOMAIN s THEN s[i] ELSE 0
\* fault: the padding of a chunk of two is that of one
Digits_Short(n) == IF n = 3 THEN 4 ELSE 2
Digits64(n) == n + 1
Encode(s) ==
  LET chunk(k) == SubSeq(s, 3 * k - 2, IF 3 * k < Len(s) THEN 3 * k ELSE Len(s))
      n(k) == ByteAt(chunk(k), 1) * 65536 + ByteAt(chunk(k), 2) * 256 + ByteAt(chunk(k), 3)
  IN FlattenSeq([k \in 1 .. (Len(s) + 2) \div 3 |->
       [d \in 1 .. 4 |-> IF d <= Digits64(Len(chunk(k)))
                         THEN 2000 + ((n(k) \div 64 ^ (4 - d)) % 64) ELSE 2000 + PAD]])
-------------------------------------------------------------------------------
(* request::build *)

IsControl(b) == b < 32 \/ b = 127
\* fault: only the ends of lines break a header
CleanHeader_None(s) == s
CleanHeader(s) == SelectSeq(s, LAMBDA b : ~IsControl(b))
StripCrlf(s) == SelectSeq(s, LAMBDA b : b \notin {CR, LF})

Hex(d) == IF d < 10 THEN 48 + d ELSE 55 + d
EncodeByte(b) == IF b <= SP \/ b >= 127 THEN <<PERCENT, Hex(b \div 16), Hex(b % 16)>> ELSE <<b>>
\* fault: the blank is left
EncodeMountpoint_Blank(s) == FlattenSeq([i \in DOMAIN s |-> IF s[i] = SP THEN <<SP>> ELSE EncodeByte(s[i])])
EncodeMountpoint(s) == FlattenSeq([i \in DOMAIN s |-> EncodeByte(s[i])])

Credentials == StripCrlf(cfg.username) \o <<COLON>> \o StripCrlf(cfg.password)
AuthLines == IF cfg.username = <<>> THEN <<>> ELSE <<<<AUTH>> \o Encode(Credentials)>>
Lines ==
  LET get(http) == <<GET>> \o EncodeMountpoint(cfg.mountpoint) \o <<SP, http>>
      agent == <<AGENT>> \o CleanHeader(cfg.user_agent)
  IN IF cfg.version = "V1"
     THEN <<get(HTTP10), agent, <<ACCEPT>>, <<CLOSE>>>> \o AuthLines
     ELSE <<get(HTTP11), <<HOST>> \o CleanHeader(cfg.host) \o <<COLON, PORT>>, <<VERSION>>,
            agent, <<ACCEPT>>>> \o AuthLines \o <<<<CLOSE>>>>

\* fault: the log keeps the lines as they are sent
MaskAuth_Off(line) == line
MaskAuth(line) == IF line[1] = AUTH THEN <<AUTH, MASKED>> ELSE line

Wire(lines) == FlattenSeq([i \in DOMAIN lines |-> lines[i] \o <<CR, LF>>]) \o <<CR, LF>>
LogLines(lines) == [i \in DOMAIN lines |-> MaskAuth(lines[i])]
-------------------------------------------------------------------------------
TypedLength == Len(cfg.mountpoint) + Len(cfg.host) + Len(cfg.user_agent)
                 + Len(cfg.username) + Len(cfg.password)
\* A field is typed or read from a file, and has its request.
Enter == \E name \in Fields, b \in Chars :
  /\ TypedLength < MaxTyped
  /\ cfg' = [cfg EXCEPT ![name] = Append(@, b)]

RequestInit == cfg \in {[version |-> v, mountpoint |-> <<>>, host |-> <<>>, user_agent |-> <<>>,
                         username |-> <<>>, password |-> <<>>] : v \in {"V1", "V2"}}
RequestNext == Enter
RequestSpec == RequestInit /\ [][RequestNext]_rqVars
-------------------------------------------------------------------------------
(* Properties *)

\* As a caster reads it: lines up to CR LF, an empty one the last.
LineEnds(wire) == {i \in DOMAIN wire : wire[i] = CR /\ i < Len(wire) /\ wire[i + 1] = LF}
Decode(s) == LET bits(i) == s[i] - 2000
                 of(k) == LET n == bits(4 * k - 3) * 262144 + bits(4 * k - 2) * 4096
                                     + ((bits(4 * k - 1) % 64) * 64) + (bits(4 * k) % 64)
                              all == <<n \div 65536, (n \div 256) % 256, n % 256>>
                          IN SubSeq(all, 1, IF bits(4 * k - 1) = PAD THEN 1
                                            ELSE IF bits(4 * k) = PAD THEN 2 ELSE 3)
             IN FlattenSeq([k \in 1 .. Len(s) \div 4 |-> of(k)])

\* request.rs: "No caller-provided string can forge request lines" and "the LOG
\* copies never carry credentials".  The caster sees as many lines as were
\* meant, a request line of three words, the credentials in one line that
\* decodes to them, and the log has all of it but them.
RequestIsAsMeant ==
  LET lines == Lines
      wire == Wire(lines)
      ends == LineEnds(wire)
      log == LogLines(lines)
  IN /\ Cardinality(ends) = Len(lines) + 1
     /\ \A i \in DOMAIN wire : IsControl(wire[i]) => i \in ends \/ i - 1 \in ends
     /\ Len(SelectSeq(lines[1], LAMBDA b : b = SP)) = 1
     /\ \A i \in DOMAIN lines :
          /\ lines[i][1] = AUTH => Decode(Tail(lines[i])) = Credentials
          /\ log[i] = lines[i] \/ lines[i][1] = AUTH
          /\ \A k \in DOMAIN log[i] : log[i][k] < 2000
     /\ ToSet(cfg.mountpoint) \subseteq 33 .. 126 =>
          IsPrefix(<<GET>> \o cfg.mountpoint \o <<SP>>, wire)
===============================================================================
