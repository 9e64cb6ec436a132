------------------------------ MODULE RtcmDecode ------------------------------
(***************************************************************************)
(* The diagnostic decoder of rtcm/decode.rs, bit by bit, on payloads that  *)
(* a caster may cut short anywhere, and the four slots of the inspector.   *)
(*                                                                         *)
(* A payload is a sequence of bits, and so is the value of a field that    *)
(* nothing is computed from; read_u's value is Number of it.               *)
(***************************************************************************)
EXTENDS Naturals, SequencesExt

CONSTANTS Sent,       \* messages: [bits, means], means as decode should give it
          MaxPayloads

VARIABLES base, antenna, text_1029, biases_1230,   \* NtripUi's
          last,       \* the payload just decoded: its message, its bits, the result
          whole,      \* ghost: messages whose payload arrived whole
          payloads

rdVars == <<base, antenna, text_1029, biases_1230, last, whole, payloads>>
-------------------------------------------------------------------------------
(* BitReader: a cursor of what is left, what was read, and whether a read ran *)
(* past the end, which ends the decoding.                                     *)

Number(bits) == FoldLeft(LAMBDA acc, b : 2 * acc + b, 0, bits)

NewReader(bits) == [left |-> bits, got |-> <<>>, ok |-> TRUE]
None == [kind |-> "none"]

Enough(r, n) == r.ok /\ n <= Len(r.left)

Skip(r, n) == IF Enough(r, n) THEN [r EXCEPT !.left = SubSeq(@, n + 1, Len(@))]
              ELSE [r EXCEPT !.ok = FALSE]
ReadU(r, n) == IF Enough(r, n)
               THEN [Skip(r, n) EXCEPT !.got = Append(@, SubSeq(r.left, 1, n))]
               ELSE Skip(r, n)
\* read_string after its counter; the bytes are the field.
ReadString(r, n) == ReadU(r, 8 * n)
\* A counter and that many bytes.
ReadCounted(r) ==
  LET c == ReadU(r, 8)
  IN IF ~c.ok THEN c ELSE ReadString([c EXCEPT !.got = r.got], Number(Last(c.got)))

\* A message's fields in order: "u" read, "s" skipped, "c" a counted string.
ReadAll(r, fields) ==
  FoldLeft(LAMBDA q, f : CASE f[1] = "u" -> ReadU(q, f[2])
                           [] f[1] = "s" -> Skip(q, f[2])
                           [] f[1] = "c" -> ReadCounted(q), r, fields)
-------------------------------------------------------------------------------
(* decode *)

U(n) == <<"u", n>>
S(n) == <<"s", n>>
C    == <<"c", 0>>

Base1005 == <<U(12), S(10), U(38), S(2), U(38), S(2), U(38)>>
Fields1008 == <<U(12), C, U(8), C>>
Fields1029 == <<U(12), U(16), U(17), S(7), C>>
Fields1033 == <<U(12), C, U(8), C, C, C, C>>

NoBits(bits) == \A i \in DOMAIN bits : bits[i] = 0
Ones(bits) == Len(SelectSeq(bits, LAMBDA b : b = 1))
Positions(bits) == {i \in DOMAIN bits : bits[i] = 1}

\* The result of a complete read, nothing of a short one.
Made(r, of(_)) == IF r.ok THEN of(r.got) ELSE None

\* An all-zero position is one that was never set.
DecodeBase(r, is_1006) ==
  Made(ReadAll(r, IF is_1006 THEN Append(Base1005, U(16)) ELSE Base1005),
       LAMBDA g : [kind |-> "BasePosition", station |-> g[1], ecef |-> SubSeq(g, 2, 4),
                   antenna_height |-> SubSeq(g, 5, Len(g)),
                   lla |-> ~(NoBits(g[2]) /\ NoBits(g[3]) /\ NoBits(g[4]))])
Decode1008(r) ==
  Made(ReadAll(r, Fields1008),
       LAMBDA g : [kind |-> "AntennaInfo", station |-> g[1], antenna |-> g[2], setup_id |-> g[3],
                   others |-> <<g[4], <<>>, <<>>, <<>>>>])
Decode1033(r) ==
  Made(ReadAll(r, Fields1033),
       LAMBDA g : [kind |-> "AntennaInfo", station |-> g[1], antenna |-> g[2], setup_id |-> g[3],
                   others |-> SubSeq(g, 4, 7)])
Decode1029(r) ==
  Made(ReadAll(r, Fields1029),
       LAMBDA g : [kind |-> "TextMessage", station |-> g[1], mjd |-> g[2], seconds |-> g[3],
                   text |-> g[4]])
\* One bias for each bit of the mask.
Decode1230(r) ==
  LET h == ReadAll(r, <<U(12), U(1), S(3), U(4)>>)
      n == IF h.ok THEN Ones(h.got[3]) ELSE 0
  IN Made(ReadAll(h, [i \in 1 .. n |-> U(16)]),
          LAMBDA g : [kind |-> "GlonassBiases", station |-> g[1], indicator |-> g[2],
                      signals |-> Positions(g[3]), biases |-> SubSeq(g, 4, Len(g))])

Constellation(t) ==
  LET of == [d \in 107 .. 113 |->
               <<"GPS", "GLONASS", "Galileo", "SBAS", "QZSS", "BeiDou", "NavIC">>[d - 106]]
  IN IF t % 10 \in 1 .. 7 /\ t \div 10 \in DOMAIN of THEN of[t \div 10] ELSE "none"

\* fault: what is not shown need not be there
Cells_Unread(h) == 0
\* The cell mask must be there although it is not shown.
Cells(h) == IF h.ok THEN Ones(h.got[3]) * Ones(h.got[4]) ELSE 0

DecodeMsm(r, t) ==
  LET h == ReadAll(r, <<U(12), U(30), S(19), U(64), U(32)>>)
  IN Made(Skip(h, Cells(h)),
          LAMBDA g : [kind |-> "MsmHeader", constellation |-> Constellation(t), station |-> g[1],
                      epoch |-> g[2], num_sats |-> Ones(g[3]), signals |-> Positions(g[4])])

decode(bits) ==
  LET t == Number(SubSeq(bits, 1, 12))
      r == Skip(NewReader(bits), 12)
  IN CASE ~r.ok -> None
       [] t \in {1005, 1006} -> DecodeBase(r, t = 1006)
       [] t = 1008 -> Decode1008(r)
       [] t = 1029 -> Decode1029(r)
       [] t = 1033 -> Decode1033(r)
       [] t = 1230 -> Decode1230(r)
       [] Constellation(t) # "none" -> DecodeMsm(r, t)
       [] OTHER -> None

\* type_name; a message of these has a name.
CommonTypes == 1001 .. 1013 \cup {1019, 1020, 1029, 1033, 1042, 1044, 1045, 1046, 1230}
                 \cup 4070 .. 4095
Named(t) == t \in CommonTypes \/ Constellation(t) # "none"
-------------------------------------------------------------------------------
(* AppState::apply of the decoded messages *)

\* fault: any decoded message takes the slot
Slot_Any(kind, slot, d) == IF d.kind # "none" THEN d ELSE slot
Slot(kind, slot, d) == IF d.kind = kind THEN d ELSE slot

\* A payload of whole bytes, cut anywhere or with more behind it.
Payload == \E m \in Sent : \E n \in 0 .. (Len(m.bits) + 7) \div 8 + 1 :
  /\ payloads < MaxPayloads /\ payloads' = payloads + 1
  /\ \E bits \in {SubSeq(m.bits \o [i \in 1 .. 16 |-> 0], 1, 8 * n)} :
       \E d \in {decode(bits)} :
         /\ last' = [m |-> m, bits |-> Len(bits), d |-> d]
         /\ whole' = IF Len(bits) >= Len(m.bits) THEN whole \cup {m.means} ELSE whole
         /\ base' = Slot("BasePosition", base, d)
         /\ antenna' = Slot("AntennaInfo", antenna, d)
         /\ text_1029' = Slot("TextMessage", text_1029, d)
         /\ biases_1230' = Slot("GlonassBiases", biases_1230, d)

DecodeInit == /\ base = None /\ antenna = None /\ text_1029 = None /\ biases_1230 = None
              /\ last = [m |-> None, bits |-> 0, d |-> None] /\ whole = {} /\ payloads = 0
DecodeNext == Payload
DecodeSpec == DecodeInit /\ [][DecodeNext]_rdVars
-------------------------------------------------------------------------------
(* Properties *)

\* decode.rs: "Truncated or inconsistent payloads yield None".  A payload that
\* is complete gives its message whatever follows it, a shorter one gives
\* nothing, so the inspector never shows half a message; each slot holds a
\* message of its own kind that was sent whole; and what is decoded has a name,
\* so the tables of type_name and those of decode agree.
DecodeIsAllOrNothing ==
  /\ last.m # None => last.d = IF last.bits >= Len(last.m.bits) THEN last.m.means ELSE None
  /\ {base, antenna, text_1029, biases_1230} \subseteq whole \cup {None}
  /\ base.kind \in {"none", "BasePosition"} /\ antenna.kind \in {"none", "AntennaInfo"}
  /\ text_1029.kind \in {"none", "TextMessage"} /\ biases_1230.kind \in {"none", "GlonassBiases"}
  /\ last.d # None => Named(Number(SubSeq(last.m.bits, 1, 12)))
===============================================================================
