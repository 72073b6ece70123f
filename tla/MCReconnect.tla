---------------------------- MODULE MCReconnect ----------------------------
(***************************************************************************)
(* Reconnect with the constants of BluetoothConfig, and a claim of its     *)
(* comments that the code does not meet.                                   *)
(***************************************************************************)
EXTENDS Reconnect

\* BluetoothManager.hpp:51: initialBackoffMs is the "Initial reconnect delay
\* (2s)", so that a link that is lost is sought again after that delay
\* (BluetoothManager.cpp:844-848).
InitialDelay ==
    [][manager.state = "CONNECTED" /\ manager'.state = "RECONNECT_BACKOFF"
        => manager'.untilReconnect = InitialBackoffMs]_vars
=============================================================================
