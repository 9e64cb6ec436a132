------------------------------ MODULE RtcmStream ------------------------------
(***************************************************************************)
(* The corrections as the worker inspects them: the deframer of            *)
(* rtcm/frame.rs under any cut of the stream into reads, the statistics    *)
(* that on_corrections posts across reconnects, and the inspector that     *)
(* folds them.                                                             *)
(*                                                                         *)
(* A byte is a number; SYNC stands for 0xD3.  A frame is SYNC, a byte whose *)
(* reserved bits are clear only if it is zero, a length, the payload and   *)
(* one byte of check.  The check is any function of the bytes before it.   *)
(***************************************************************************)
EXTENDS Naturals, SequencesExt

CONSTANTS Bytes,      \* the bytes a caster sends, SYNC among them
          MaxBytes,   \* sent in a run
          MaxRead,    \* bytes of one read
          MaxConns    \* connections of a run

SYNC == 3
VARIABLES
  sent,        \* ghost: the corrections of this connection
  deframer,    \* conn.deframer
  conns,       \* connections begun
  crc_base, garbage_base,     \* of the deframers before
  last_health_posted,
  posted,      \* the Rtcm events under way
  rtcm, rtcm_crc_failures, rtcm_garbage_bytes,    \* the inspector's
  seen,        \* ghost: frames of the connections before
  cut          \* ghost: bytes a connection ended in the middle of

worker    == <<sent, deframer, conns, crc_base, garbage_base, last_health_posted, seen, cut>>
inspector == <<rtcm, rtcm_crc_failures, rtcm_garbage_bytes>>
rsVars    == <<worker, posted, inspector>>
-------------------------------------------------------------------------------
(* Deframer *)

\* consumed: the bytes before buf; a frame is its place in the stream, its
\* size and its type.
NewDeframer == [buf |-> <<>>, consumed |-> 0, crc_failures |-> 0,
                garbage_bytes |-> 0, frames |-> <<>>]

crc24q(body) == FoldSeq(LAMBDA b, acc : (acc + b) % 2, 0, body)

\* fault: a SYNC at the very end of a read is given up
Header_Lone(b, p) == b[p] = SYNC /\ p < Len(b) /\ b[p + 1] = 0
Header(b, p) == b[p] = SYNC /\ (p < Len(b) => b[p + 1] = 0)

Size(b, p)  == 3 + b[p + 2] + 1
\* A candidate that is not all there yet.
Waits(b, p) == p + 2 > Len(b) \/ p + Size(b, p) - 1 > Len(b)
Body(b, p)  == SubSeq(b, p, p + Size(b, p) - 2)
Checks(b, p) == b[p + Size(b, p) - 1] = crc24q(Body(b, p))
TypeOf(b, p) == IF b[p + 2] = 0 THEN 0 ELSE b[p + 3]

\* fault: a frame that fails its check is skipped as a whole
Resume_Whole(b, p) == p + Size(b, p)
Resume(b, p) == p + 1

Feed(d, bytes) ==
  LET b == d.buf \o bytes
      One(p, r, frames, crc, garbage) ==
        [r EXCEPT !.frames = frames \o @, !.crc = @ + crc, !.garbage = @ + garbage]
      Scan[p \in 1 .. Len(b) + MaxRead + 8] ==
        IF p > Len(b) THEN [frames |-> <<>>, crc |-> 0, garbage |-> 0, rest |-> p]
        ELSE IF ~Header(b, p) THEN One(p, Scan[p + 1], <<>>, 0, 1)
        ELSE IF Waits(b, p) THEN [frames |-> <<>>, crc |-> 0, garbage |-> 0, rest |-> p]
        ELSE IF Checks(b, p)
             THEN One(p, Scan[p + Size(b, p)],
                      <<[at |-> d.consumed + p, size |-> Size(b, p), type |-> TypeOf(b, p)]>>, 0, 0)
        ELSE One(p, Scan[Resume(b, p)], <<>>, 1, Resume(b, p) - p)
      all == Scan[1]
  IN [buf |-> SubSeq(b, all.rest, Len(b)),
      consumed |-> d.consumed + all.rest - 1,
      crc_failures |-> d.crc_failures + all.crc,
      garbage_bytes |-> d.garbage_bytes + all.garbage,
      frames |-> d.frames \o all.frames]
-------------------------------------------------------------------------------
(* The worker *)

Types == {0} \cup Bytes
CountOf(frames, t) == Len(SelectSeq(frames, LAMBDA f : f.type = t))

RtcmInit ==
  /\ sent = <<>> /\ deframer = NewDeframer /\ conns = 1
  /\ crc_base = 0 /\ garbage_base = 0 /\ last_health_posted = <<0, 0>>
  /\ posted = <<>>
  /\ rtcm = [t \in Types |-> 0] /\ rtcm_crc_failures = 0 /\ rtcm_garbage_bytes = 0
  /\ seen = <<>> /\ cut = 0

Sizes(frames) == FoldSeq(LAMBDA f, acc : acc + f.size, 0, frames)
\* All that arrived in this run.
Spent == Sizes(seen) + garbage_base + cut + Len(sent)

\* fault: the health is only told along with a frame
Tells_Frames(frames, health) == frames # <<>>
Tells(frames, health) == frames # <<>> \/ health # last_health_posted

\* on_corrections and deframe: one read, one event.
OnCorrections ==
  /\ posted = <<>>
  /\ \E n \in 1 .. MaxRead : \E bytes \in [1 .. n -> Bytes] :
       /\ Spent + n <= MaxBytes
       /\ sent' = sent \o bytes
       /\ \E d \in {Feed(deframer, bytes)} :
            LET new == SubSeq(d.frames, Len(deframer.frames) + 1, Len(d.frames))
                health == <<crc_base + d.crc_failures, garbage_base + d.garbage_bytes>>
            IN /\ deframer' = d
               /\ IF Tells(new, health)
                  THEN /\ last_health_posted' = health
                       /\ posted' = <<[frames |-> [t \in Types |-> CountOf(new, t)],
                                       health |-> health]>>
                  ELSE UNCHANGED <<last_health_posted, posted>>
  /\ UNCHANGED <<conns, crc_base, garbage_base, seen, cut, inspector>>

\* fault: the counters of a connection go with it
Bases_Lost == UNCHANGED <<crc_base, garbage_base>>
Bases == /\ crc_base' = crc_base + deframer.crc_failures
         /\ garbage_base' = garbage_base + deframer.garbage_bytes

\* drive_connection's end, and the next one: a new ConnState.
Reconnect ==
  /\ conns < MaxConns /\ posted = <<>> /\ sent # <<>>
  /\ conns' = conns + 1 /\ Bases
  /\ seen' = seen \o deframer.frames /\ cut' = cut + Len(deframer.buf)
  /\ deframer' = NewDeframer /\ sent' = <<>>
  /\ UNCHANGED <<last_health_posted, posted, inspector>>

\* AppState::apply
Apply == /\ posted # <<>> /\ posted' = Tail(posted)
         /\ rtcm' = [t \in Types |-> rtcm[t] + Head(posted).frames[t]]
         /\ rtcm_crc_failures' = Head(posted).health[1]
         /\ rtcm_garbage_bytes' = Head(posted).health[2]
         /\ UNCHANGED worker

RtcmNext == OnCorrections \/ Reconnect \/ Apply
RtcmSpec == RtcmInit /\ [][RtcmNext]_rsVars
-------------------------------------------------------------------------------
(* Properties *)

\* Deframer::feed: "feed arbitrary chunks".  Wherever the reads cut a stream,
\* the frames, the counts and what is held back are those of one read.
CutsDoNotMatter == deframer = Feed(NewDeframer, sent)

\* frame.rs: "guarantees resync at the next intact frame".  An intact frame is
\* delivered, held until the candidate before it is decided, or lies within a
\* frame that was delivered; no damage before it makes it disappear.
Intact == {p \in DOMAIN sent : /\ Header(sent, p) /\ p < Len(sent)
                               /\ ~Waits(sent, p) /\ Checks(sent, p)}
NoFrameSwallowed ==
  \A p \in Intact :
    p > deframer.consumed \/ \E i \in DOMAIN deframer.frames :
      LET f == deframer.frames[i] IN f.at <= p /\ p < f.at + f.size

\* frame.rs: "every consumed byte is accounted for exactly once", and the
\* inspector shows the account of the whole run, reconnects included.
InspectorAccounts ==
  posted = <<>> =>
    /\ rtcm = [t \in Types |-> CountOf(seen \o deframer.frames, t)]
    /\ rtcm_garbage_bytes + Sizes(seen) + Sizes(deframer.frames)
         = Spent - cut - Len(deframer.buf)
    /\ rtcm_crc_failures = crc_base + deframer.crc_failures
===============================================================================
