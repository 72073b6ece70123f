----------------------------- MODULE MCSession -----------------------------
(***************************************************************************)
(* Session on small instances, and two claims of the repository that the   *)
(* code does not meet.                                                     *)
(***************************************************************************)
EXTENDS Session

\* tests/integration.sh:239: the published state says connected:false once the
\* link is lost (main.cpp:287-294, 308-321).
LossPublished ==
    [][daemon.state = "CONNECTED" /\ daemon'.state = "RECONNECT_BACKOFF"
        => ~daemon'.connected]_vars

\* docs/ult-wear-protocol.md:72-73: the acknowledgement that releases a command
\* is the one of the frame sent last, so it carries the complement of that
\* frame's bit, which is the bit of the next frame (main.cpp:328-333).
AckedByLastFrame ==
    [][/\ InSession /\ InSession'
       /\ daemon.inbound # <<>> /\ daemon'.inbound = Tail(daemon.inbound)
       /\ Head(daemon.inbound).kind = "ack" /\ daemon'.txSeq # daemon.txSeq
       => Head(daemon.inbound).seq = daemon.txSeq]_vars
=============================================================================
