---------------------------- MODULE MCStatusFile ----------------------------
(***************************************************************************)
(* StatusFile for TLC.  Pids and inodes are interchangeable.               *)
(***************************************************************************)
EXTENDS StatusFile, TLC

Symmetry == Permutations(Pids) \cup Permutations(Inodes)

\* What plays no role any more: the bytes of a file without name and descriptor,
\* the state in memory between two writes, since Mutate chooses the next one
\* freely, and the history of a daemon that is not alone.
View ==
    <<[i \in Inodes \ Free |-> files[i]],
      [p \in Pids |-> [process[p] EXCEPT
           !.value = IF process[p].io = "idle" THEN Disconnected ELSE @,
           !.published = IF overlapped THEN Disconnected ELSE @]],
      status, tmp, socket, reader, overlapped, orphans>>
=============================================================================
