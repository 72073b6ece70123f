---------------------------- MODULE MCIpcServer ----------------------------
(***************************************************************************)
(* IpcServer with two clients: the lines of the steady one are as long as  *)
(* a line may be that no cutting makes too long; the other one sends lines *)
(* that are refused always, or only when cut badly.                        *)
(***************************************************************************)
EXTENDS IpcServer

CONSTANTS steady, hasty

MCScript == [c \in {steady, hasty} |-> IF c = steady THEN <<1, 3>> ELSE <<4, 5>>]
=============================================================================
