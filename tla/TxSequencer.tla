---------------------------- MODULE TxSequencer ----------------------------
(***************************************************************************)
(* What the transmit queue of the daemon promises, without sockets, short  *)
(* writes, errors or a headset: in every session one frame at a time       *)
(* leaves, the handshake first, then the queries and the commands in the   *)
(* order in which they were asked for, each one once and with the other    *)
(* sequence bit than the frame before.                                     *)
(***************************************************************************)
EXTENDS Naturals, Sequences

CONSTANTS Commands, Queries

VARIABLES
    open,      \* a session is open
    waiting,   \* requests not yet released
    bit,       \* the sequence bit of the next frame
    busy       \* the last frame released is not settled

vars == <<open, waiting, bit, busy>>

Closed == ~open /\ waiting = <<>> /\ bit = 0 /\ ~busy

Init == Closed

\* The handshake goes out with bit 0 and the queries wait behind it.
Open ==
    /\ ~open
    /\ open' = TRUE
    /\ waiting' = Queries
    /\ bit' = 1
    /\ busy' = TRUE

Close ==
    /\ open
    /\ Closed'

Accept(command) ==
    /\ open /\ busy
    /\ waiting' = Append(waiting, command)
    /\ UNCHANGED <<open, bit, busy>>

\* An idle queue lets a command pass at once.
Pass ==
    /\ open /\ ~busy
    /\ bit' = 1 - bit
    /\ busy' = TRUE
    /\ UNCHANGED <<open, waiting>>

\* The frame before was acknowledged or given up.
Release ==
    /\ open /\ busy /\ waiting # <<>>
    /\ waiting' = Tail(waiting)
    /\ bit' = 1 - bit
    /\ UNCHANGED <<open, busy>>

Settle ==
    /\ open /\ busy /\ waiting = <<>>
    /\ busy' = FALSE
    /\ UNCHANGED <<open, waiting, bit>>

Next ==
    \/ Open \/ Close
    \/ \E command \in Commands : Accept(command)
    \/ Pass \/ Release \/ Settle

Spec == Init /\ [][Next]_vars
=============================================================================
