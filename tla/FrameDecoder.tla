---------------------------- MODULE FrameDecoder ----------------------------
(***************************************************************************)
(* SyncProtocolDecoder (src/src/server/sync_protocol_decoder.cpp): frames come *)
(* out of a byte stream that read() cuts anywhere and the line may damage.  A  *)
(* frame is two magic bytes, the version, the payload's length, the payload    *)
(* and a CRC; its type and request id are part of the payload here.  The CRC    *)
(* is ideal: the bytes it covers, as one byte.  Bytes are sequences so that      *)
(* all of them compare.                                                        *)
(***************************************************************************)
EXTENDS Integers, Sequences, FiniteSets, SequencesExt

CONSTANTS
    Payloads,    \* payloads of the frames the board sends, sequences of bytes
    MaxPayload,  \* kMaxPayloadBytes
    MaxFrames,   \* bound: frames sent
    MaxDamage    \* bound: bytes changed, lost or added by the line

VARIABLES
    line,        \* bytes sent and not read, each [byte, frame]: the intact frame it is of, or 0
    buf,         \* buf_
    feeding,     \* feed() is at work
    sent,        \* the frames sent, with their payloads (history)
    intact,      \* those the line has not damaged, by number (history)
    got,         \* payloads dispatched
    gone,        \* intact frames some byte of which was consumed (history)
    damage

vars == <<line, buf, feeding, sent, intact, got, gone, damage>>

Magic0 == <<0, 0>>  Magic1 == <<0, 1>>  Version == <<1>>  Noise == <<4>>
Length(n) == <<2, n>>
Crc(bytes) == <<3>> \o FlattenSeq(bytes)
Frame(p) == <<Magic0, Magic1, Version, Length(Len(p))>> \o p
                \o <<Crc(<<Version, Length(Len(p))>> \o p)>>
HeaderBytes == 4
Trailer == 1
Bytes(b) == [k \in DOMAIN b |-> b[k].byte]

\* Any byte in the place of the length is one.
LengthOf(byte) == IF byte[1] = 2 THEN byte[2] ELSE 1

Init ==
    /\ line = <<>> /\ buf = <<>> /\ feeding = FALSE
    /\ sent = <<>> /\ intact = {} /\ got = <<>> /\ gone = {} /\ damage = 0

\* The board sends a frame.
Send ==
    /\ Len(sent) < MaxFrames
    /\ \E p \in Payloads :
         /\ sent' = Append(sent, p)
         /\ line' = line \o [k \in DOMAIN Frame(p) |->
                               [byte |-> Frame(p)[k], frame |-> Len(sent) + 1]]
    /\ intact' = intact \cup {Len(sent) + 1}
    /\ UNCHANGED <<buf, feeding, got, gone, damage>>

\* The line changes, loses or adds a byte; an added one makes no second copy of a frame.
Damage ==
    /\ damage < MaxDamage /\ damage' = damage + 1
    /\ \E k \in DOMAIN line, byte \in {Magic0, Length(1), Length(MaxPayload + 1)} :
         /\ \/ line[k].byte # byte /\ line' = [line EXCEPT ![k].byte = byte]
            \/ line' = RemoveAt(line, k)
            \/ k > 1 /\ line[k - 1].frame = line[k].frame
                 /\ line' = InsertAt(line, k, [byte |-> Noise, frame |-> line[k].frame])
         /\ intact' = intact \ {line[k].frame}
    /\ UNCHANGED <<buf, feeding, sent, got, gone>>

\* feed(): whatever read() returned is appended ...
Read ==
    /\ ~feeding /\ line # <<>> /\ feeding' = TRUE
    /\ \E n \in 1..Len(line) :
          buf' = buf \o SubSeq(line, 1, n) /\ line' = SubSeq(line, n + 1, Len(line))
    /\ UNCHANGED <<sent, intact, got, gone, damage>>

Consume(n) ==
    /\ buf' = SubSeq(buf, n + 1, Len(buf))
    /\ gone' = gone \cup ({buf[k].frame : k \in 1..n} \cap intact)

\* ... and scanned: one byte is skipped where no frame starts, ...
B == Bytes(buf)
NotMagic  == Len(B) >= 2 /\ ~(B[1] = Magic0 /\ B[2] = Magic1)
Header    == Len(B) >= HeaderBytes /\ B[1] = Magic0 /\ B[2] = Magic1
BadHeader == Header /\ (B[3] # Version \/ LengthOf(B[4]) > MaxPayload)
FrameLen  == HeaderBytes + LengthOf(B[4]) + Trailer
Whole     == Header /\ ~BadHeader /\ Len(B) >= FrameLen
CrcOk     == B[FrameLen] = Crc(SubSeq(B, 3, FrameLen - Trailer))

\* Mutant of Skip: a frame with a bad CRC is skipped whole.
SkipFrame ==
    /\ feeding /\ (NotMagic \/ BadHeader \/ (Whole /\ ~CrcOk))
    /\ Consume(IF Whole THEN FrameLen ELSE 1)
    /\ UNCHANGED <<line, feeding, sent, intact, got, damage>>

Skip ==
    /\ feeding /\ (NotMagic \/ BadHeader \/ (Whole /\ ~CrcOk))
    /\ Consume(1)
    /\ UNCHANGED <<line, feeding, sent, intact, got, damage>>

\* ... a frame is dispatched, ...
Dispatch ==
    /\ feeding /\ Whole /\ CrcOk
    /\ got' = Append(got, SubSeq(B, HeaderBytes + 1, FrameLen - Trailer))
    /\ Consume(FrameLen)
    /\ UNCHANGED <<line, feeding, sent, intact, damage>>

\* ... and the rest waits for more.
Wait ==
    /\ feeding /\ ~NotMagic /\ ~BadHeader /\ ~Whole /\ feeding' = FALSE
    /\ UNCHANGED <<line, buf, sent, intact, got, gone, damage>>

Next == Send \/ Damage \/ Read \/ Skip \/ Dispatch \/ Wait
Spec == Init /\ [][Next]_vars

-----------------------------------------------------------------------------
TypeOK ==
    /\ feeding \in BOOLEAN /\ damage \in 0..MaxDamage
    /\ Len(sent) <= MaxFrames /\ intact \subseteq DOMAIN sent

\* Wherever read() cut the stream and whatever bytes around it were damaged, an intact
\* frame is dispatched once, in order, with its payload, and nothing else is: consuming one
\* byte at a time never takes the start of a good frame with it.
IntactFramesDelivered ==
    got = [k \in 1..Cardinality(gone) |-> sent[SetToSortSeq(gone, <)[k]]]

\* What a scan leaves behind is less than one frame, however long a damaged length claims
\* the frame to be.
BufferBounded == ~feeding => Len(buf) < HeaderBytes + MaxPayload + Trailer
=============================================================================
