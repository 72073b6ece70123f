----------------------------- MODULE MCFraming -----------------------------
(***************************************************************************)
(* Framing with frames chosen for their bytes: every marker, the sentry    *)
(* and their escaped forms in the payload, in the length and in the        *)
(* checksum.                                                               *)
(***************************************************************************)
EXTENDS Framing

Packet(type, seq, payload) == [type |-> type, seq |-> seq, payload |-> payload]

MCFrames ==
    {Packet(1, 0, <<>>),
     Packet(12, 0, <<62>>),            \* start marker
     Packet(12, 1, <<61, 44>>),        \* sentry, then an escaped end marker
     Packet(12, 0, <<60, 61, 62>>),
     Packet(14, 1, <<255, 44>>)}       \* sum 14 + 1 + 2 + 255 + 44 = 60 modulo 256

\* No mixture of two of these frames passes for a frame: Resynchronises is not
\* true of frames for which one does.
ASSUME MCNoAccident == NoAccident
=============================================================================
