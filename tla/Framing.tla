------------------------------ MODULE Framing ------------------------------
(***************************************************************************)
(* The wire format of MDRProtocol and the StreamFramer, byte by byte: the  *)
(* headset packs frames, RFCOMM delivers their bytes in chunks of any      *)
(* length, and onDataReceived extracts and unpacks what is complete.       *)
(*                                                                         *)
(* Session abstracts the StreamFramer to "empty", "partial" and "merged".  *)
(* The properties here are what that abstraction rests on.                 *)
(***************************************************************************)
EXTENDS Naturals, Sequences, FiniteSets, SequencesExt

CONSTANTS
    Frames,      \* frames that the headset may send: records [type, seq, payload]
    MaxFrames,   \* bound: frames in one session
    MaxDrops,    \* bound: sessions in a row that end with bytes left over
    ReadSize,    \* most bytes one recv returns
    MaxBuffer    \* kMaxBufferSize

Byte == 0 .. 255
UnpackedFrame == [type : Byte, seq : Byte, payload : Seq(Byte)]

ASSUME FramingAssumption ==
    /\ Frames \subseteq UnpackedFrame
    /\ MaxFrames \in Nat
    /\ MaxDrops \in Nat
    /\ ReadSize \in Nat \ {0}
    /\ MaxBuffer \in Nat

kStartMarker == 62
kEndMarker == 60
kEscapeSentry == 61
Special == {kStartMarker, kEndMarker, kEscapeSentry}

\* An escaped byte is its original with one bit cleared.
Cleared(byte) == byte - 16

-----------------------------------------------------------------------------
(* The codec *)

\* Fault: the sum is kept in a wider integer.
CalculateChecksumWide(bytes) == FoldLeft(LAMBDA sum, byte : sum + byte, 0, bytes)

CalculateChecksum(bytes) ==
    LET sum[i \in 0 .. Len(bytes)] == IF i = 0 THEN 0 ELSE (sum[i - 1] + bytes[i]) % 256
    IN  sum[Len(bytes)]

\* Fault: the end marker is not escaped.
EscapeBytesButEnd(bytes) ==
    FlattenSeq([i \in DOMAIN bytes |->
        IF bytes[i] \in {kStartMarker, kEscapeSentry}
        THEN <<kEscapeSentry, Cleared(bytes[i])>> ELSE <<bytes[i]>>])

EscapeBytes(bytes) ==
    FlattenSeq([i \in DOMAIN bytes |->
        IF bytes[i] \in Special THEN <<kEscapeSentry, Cleared(bytes[i])>> ELSE <<bytes[i]>>])

\* r is what the bytes before have come to.
ReadByte(r, byte) ==
    CASE r.escaped /\ byte \in {Cleared(b) : b \in Special} ->
            [r EXCEPT !.out = Append(@, byte + 16), !.escaped = FALSE]
      [] r.escaped /\ byte \notin {Cleared(b) : b \in Special} ->
            [r EXCEPT !.valid = FALSE, !.escaped = FALSE]
      [] ~r.escaped /\ byte = kEscapeSentry -> [r EXCEPT !.escaped = TRUE]
      [] OTHER -> [r EXCEPT !.out = Append(@, byte)]

ReadBytes(bytes) ==
    LET read[i \in 0 .. Len(bytes)] ==
            IF i = 0 THEN [out |-> <<>>, escaped |-> FALSE, valid |-> TRUE]
            ELSE ReadByte(read[i - 1], bytes[i])
    IN  read[Len(bytes)]

\* An escape sequence that is invalid or cut short voids the whole.
UnescapeBytes(bytes) ==
    LET result == ReadBytes(bytes)
    IN  IF result.valid /\ ~result.escaped THEN result.out ELSE <<>>

\* A length as a big-endian word of 4 bytes.  What buffer_ holds needs no more.
LengthWord(n) == <<(n \div 16777216) % 256, (n \div 65536) % 256, (n \div 256) % 256, n % 256>>

PackFrame(frame) ==
    LET body == <<frame.type, frame.seq>> \o LengthWord(Len(frame.payload)) \o frame.payload
    IN  <<kStartMarker>> \o EscapeBytes(Append(body, CalculateChecksum(body)))
            \o <<kEndMarker>>

\* buffer_ has room for the unfinished frames of MaxDrops + 1 sessions in a row
\* and what one recv returns.
ASSUME RoomAssumption ==
    \E size \in 0 .. MaxBuffer :
        /\ \A frame \in Frames : Len(PackFrame(frame)) <= size
        /\ (MaxDrops + 1) * size + ReadSize <= MaxBuffer

\* The frame that the bytes stand for, in a sequence that is empty if they are none.
UnpackFrame(bytes) ==
    LET body == UnescapeBytes(SubSeq(bytes, 2, Len(bytes) - 1))
        size == Len(body)
    IN  IF /\ Len(bytes) >= 9
           /\ bytes[1] = kStartMarker /\ bytes[Len(bytes)] = kEndMarker
           /\ size >= 7
           /\ CalculateChecksum(SubSeq(body, 1, size - 1)) = body[size]
           /\ SubSeq(body, 3, 6) = LengthWord(size - 7)
        THEN <<[type |-> body[1], seq |-> body[2], payload |-> SubSeq(body, 7, size - 1)]>>
        ELSE <<>>

-----------------------------------------------------------------------------
(* The StreamFramer *)

IndexOf(bytes, byte) == SelectInSeq(bytes, LAMBDA b : b = byte)

From(bytes, first) == SubSeq(bytes, first, Len(bytes))

\* Too much unfinished data is discarded.
AppendBytes(buffer, incoming) ==
    IF Len(buffer) + Len(incoming) > MaxBuffer THEN incoming ELSE buffer \o incoming

\* What comes before a start marker is dropped; a frame ends at the first end
\* marker after it.
NextFrame(buffer) ==
    LET opened == From(buffer, IndexOf(buffer, kStartMarker))
        end == IndexOf(opened, kEndMarker)
    IN  IF IndexOf(buffer, kStartMarker) = 0 THEN [frame |-> <<>>, buffer |-> <<>>]
        ELSE IF end = 0 THEN [frame |-> <<>>, buffer |-> opened]
        ELSE [frame |-> SubSeq(opened, 1, end), buffer |-> From(opened, end + 1)]

\* Fault: a frame that does not unpack resets the StreamFramer.
TurnResetting(r) ==
    LET next == NextFrame(r.buffer)
    IN  [buffer |-> IF next.frame # <<>> /\ UnpackFrame(next.frame) = <<>> THEN <<>> ELSE next.buffer,
         frames |-> r.frames \o UnpackFrame(next.frame)]

\* One turn of the loop of onDataReceived: what unpacks is handled, anything
\* else is skipped.  Without a frame the loop ends, and more turns change
\* nothing.
Turn(r) ==
    LET next == NextFrame(r.buffer)
    IN  [buffer |-> next.buffer, frames |-> r.frames \o UnpackFrame(next.frame)]

\* Every turn but the last takes bytes out of the buffer.
Extract(bytes, frames) ==
    LET turn[i \in 0 .. Len(bytes)] ==
            IF i = 0 THEN [buffer |-> bytes, frames |-> frames] ELSE Turn(turn[i - 1])
    IN  turn[Len(bytes)]

-----------------------------------------------------------------------------

VARIABLES
    sent,        \* the frames the headset has sent in this session
    position,    \* bytes of them that the daemon has read
    buffer,      \* StreamFramer::buffer_
    delivered,   \* frames unpacked in this session
    stale        \* how many earlier sessions have left bytes in buffer

vars == <<sent, position, buffer, delivered, stale>>

Wire == FlattenSeq([i \in DOMAIN sent |-> PackFrame(sent[i])])

Init ==
    /\ sent = <<>>
    /\ position = 0
    /\ buffer = <<>>
    /\ delivered = <<>>
    /\ stale = 0

Send(frame) ==
    /\ Len(sent) < MaxFrames
    /\ sent' = Append(sent, frame)
    /\ UNCHANGED <<position, buffer, delivered, stale>>

Receive ==
    \E n \in 1 .. ReadSize :
        /\ position + n <= Len(Wire)
        /\ LET chunk == SubSeq(Wire, position + 1, position + n)
               result == Extract(AppendBytes(buffer, chunk), delivered)
           IN  buffer' = result.buffer /\ delivered' = result.frames
        /\ position' = position + n
        /\ UNCHANGED <<sent, stale>>

NewSession ==
    /\ sent' = <<>>
    /\ position' = 0
    /\ delivered' = <<>>

\* onDisconnected resets the StreamFramer before another session begins.
Lose ==
    /\ NewSession
    /\ buffer' = <<>>
    /\ stale' = 0

\* SIGUSR1 drops the link and leaves the StreamFramer as it is.
SimulateDisconnect ==
    /\ stale < MaxDrops
    /\ NewSession
    /\ stale' = IF buffer = <<>> THEN 0 ELSE stale + 1
    /\ UNCHANGED buffer

Next ==
    \/ \E frame \in Frames : Send(frame)
    \/ Receive \/ Lose \/ SimulateDisconnect

Spec == Init /\ [][Next]_vars

-----------------------------------------------------------------------------
(* Properties *)

TypeOK ==
    /\ sent \in Seq(Frames)
    /\ position \in 0 .. Len(Wire)
    /\ buffer \in Seq(Byte)
    /\ delivered \in Seq(UnpackedFrame)
    /\ stale \in 0 .. MaxDrops

\* Where the bytes of frame i end on the wire.
EndOf(i) == Len(FlattenSeq([j \in 1 .. i |-> PackFrame(sent[j])]))

Complete == {i \in DOMAIN sent : EndOf(i) <= position}

\* What a session that ended too early has left of a frame.
Cuts == UNION {{SubSeq(PackFrame(frame), 1, n) : n \in 1 .. Len(PackFrame(frame)) - 1} :
               frame \in Frames}

\* What up to MaxDrops such sessions in a row have left.
Leftovers == {FlattenSeq(cuts) : cuts \in UNION {[1 .. n -> Cuts] : n \in 1 .. MaxDrops}}

\* A checksum of 8 bits and a length tell most mixtures of two frames from a
\* frame, not all.  Among these frames no mixture passes for one.
NoAccident == \A left \in Leftovers, frame \in Frames : UnpackFrame(left \o PackFrame(frame)) = <<>>

\* However the bytes are cut into chunks, the daemon has received exactly the
\* frames that have arrived in full, in their order, whatever bytes they hold
\* (MDRProtocol.cpp:65-190; main.cpp:298-304).
Lossless == stale = 0 => delivered = SubSeq(sent, 1, Cardinality(Complete))

\* Bytes left over from an earlier session cost the first frame of the new one
\* and no other, and never turn into a frame of their own
\* (MDRProtocol.cpp:132-157, 171-190; main.cpp:512).
Resynchronises == stale > 0 => delivered = SubSeq(sent, 2, Cardinality(Complete))
=============================================================================
