----------------------------- MODULE StatusFile -----------------------------
(***************************************************************************)
(* status.json and the socket path, shared by every daemon that starts in  *)
(* the same directories: StateEngine's atomic replacement, the start and   *)
(* the end of a daemon, readers, kills and power cuts.                     *)
(*                                                                         *)
(* A process is its pid.  Names lead to inodes, so that a reader or writer *)
(* keeps the file it opened whatever happens to the name.  A file is       *)
(* written in Parts pieces, and a piece is the stamp of the document it    *)
(* belongs to: who wrote it, with which state.                             *)
(***************************************************************************)
EXTENDS Naturals, Sequences

CONSTANTS
    Pids,           \* processes; a pid may be used again
    Inodes,         \* bound: files that can exist at a time
    Values,         \* states of the headset, as a document shows them
    Disconnected,   \* the state with connected:false
    Parts,          \* pieces that a document is written and read in
    None

ASSUME StatusFileAssumption ==
    /\ Disconnected \in Values
    /\ Parts \in Nat \ {0}
    /\ None \notin Pids \cup Inodes \cup Values

Stamp == [by : Pids, value : Values]

Hole == [by |-> None, value |-> None]

Blank == [k \in 1 .. Parts |-> Hole]

File == [parts : [1 .. Parts -> Stamp \cup {Hole}], synced : BOOLEAN]

(***************************************************************************)
(* stage      how far main() has come                                      *)
(* io         how far writeAtomic has come with `value'                    *)
(* written    pieces written through the descriptor `fd'                   *)
(* published  history: the state of the last write that succeeded          *)
(***************************************************************************)
Process ==
    [stage : {"down", "init", "binding", "unlinked", "bound", "serving", "leaving"},
     io : {"idle", "wanted", "open", "synced"},
     value : Values, written : 0 .. Parts, fd : Inodes \cup {None},
     published : Values]

Down ==
    [stage |-> "down", io |-> "idle", value |-> Disconnected, written |-> 0,
     fd |-> None, published |-> Disconnected]

VARIABLES
    files,       \* inode -> what the disk holds
    status,      \* the inode named status.json, or None
    tmp,         \* pid -> the inode named status.json.tmp.<pid>, or None
    socket,      \* the process whose socket the path leads to, or None
    process,     \* pid -> the daemon with this pid
    reader,      \* a reader of status.json: its file, what it got, at its end
    overlapped,  \* history: two daemons were up together since all were down
    orphans      \* history: pids whose temporary file a kill left behind

vars == <<files, status, tmp, socket, process, reader, overlapped, orphans>>

Idle == [file |-> None, got |-> <<>>, done |-> FALSE]

TypeOK ==
    /\ files \in [Inodes -> File]
    /\ status \in Inodes \cup {None}
    /\ tmp \in [Pids -> Inodes \cup {None}]
    /\ socket \in Pids \cup {None}
    /\ process \in [Pids -> Process]
    /\ reader \in [file : Inodes \cup {None}, got : Seq(Stamp), done : BOOLEAN]
    /\ overlapped \in BOOLEAN
    /\ orphans \in SUBSET Pids

Init ==
    /\ files = [i \in Inodes |-> [parts |-> Blank, synced |-> FALSE]]
    /\ status = None
    /\ tmp = [p \in Pids |-> None]
    /\ socket = None
    /\ process = [p \in Pids |-> Down]
    /\ reader = Idle
    /\ overlapped = FALSE
    /\ orphans = {}

Up(p) == process[p].stage # "down"

Document(p) == [by |-> p, value |-> process[p].value]

\* Inodes that no name and no descriptor leads to.
Free ==
    {i \in Inodes : /\ i # status /\ i # reader.file
                    /\ \A p \in Pids : i # tmp[p] /\ i # process[p].fd}

-----------------------------------------------------------------------------
(* StateEngine::writeAtomic *)

\* A mutator changes the state and writes it out (StateEngine.cpp:310-556).
Mutate(p, value) ==
    /\ process[p].stage \in {"binding", "serving"} /\ process[p].io = "idle"
    /\ process' = [process EXCEPT ![p].value = value, ![p].io = "wanted"]
    /\ UNCHANGED <<files, status, tmp, socket, reader, overlapped, orphans>>

\* The name of the temporary file carries the pid; an existing one is truncated.
TmpName(p) == p

OpenTmp(p) ==
    /\ process[p].io = "wanted"
    /\ \E i \in IF tmp[TmpName(p)] # None THEN {tmp[TmpName(p)]} ELSE Free :
        /\ files' = [files EXCEPT ![i] = [parts |-> Blank, synced |-> FALSE]]
        /\ tmp' = [tmp EXCEPT ![TmpName(p)] = i]
        /\ process' = [process EXCEPT ![p].io = "open", ![p].fd = i, ![p].written = 0]
    /\ orphans' = orphans \ {p}
    /\ UNCHANGED <<status, socket, reader, overlapped>>

\* Fault: the count of what remains is never compared with zero.
WritePartForever(p) ==
    /\ process[p].io = "open"
    /\ process' = [process EXCEPT ![p].written = @ + 1]
    /\ UNCHANGED <<files, status, tmp, socket, reader, overlapped, orphans>>

WritePart(p) ==
    /\ process[p].io = "open" /\ process[p].written < Parts
    /\ LET next == process[p].written + 1
       IN  /\ files' = [files EXCEPT ![process[p].fd] =
                            [parts |-> [@.parts EXCEPT ![next] = Document(p)],
                             synced |-> FALSE]]
           /\ process' = [process EXCEPT ![p].written = next]
    /\ UNCHANGED <<status, tmp, socket, reader, overlapped, orphans>>

\* Fault: the file is renamed before its bytes are on the disk.
FsyncNothing(p) ==
    /\ process[p].io = "open" /\ process[p].written = Parts
    /\ process' = [process EXCEPT ![p].io = "synced", ![p].fd = None,
                                 ![p].written = 0]
    /\ UNCHANGED <<files, status, tmp, socket, reader, overlapped, orphans>>

Fsync(p) ==
    /\ process[p].io = "open" /\ process[p].written = Parts
    /\ files' = [files EXCEPT ![process[p].fd].synced = TRUE]
    /\ process' = [process EXCEPT ![p].io = "synced", ![p].fd = None,
                                 ![p].written = 0]
    /\ UNCHANGED <<status, tmp, socket, reader, overlapped, orphans>>

Rename(p) ==
    /\ process[p].io = "synced" /\ tmp[TmpName(p)] # None
    /\ status' = tmp[TmpName(p)]
    /\ tmp' = [tmp EXCEPT ![TmpName(p)] = None]
    /\ process' = [process EXCEPT
           ![p].io = "idle", ![p].published = process[p].value,
           ![p].stage = IF @ = "init" THEN "binding" ELSE @]
    /\ UNCHANGED <<files, socket, reader, overlapped, orphans>>

\* Fault: an error path returns without unlinking.
WriteFailsKeepingTmp(p) ==
    /\ process[p].io # "idle"
    /\ process' = [process EXCEPT
           ![p].io = "idle", ![p].fd = None, ![p].written = 0,
           ![p].stage = IF @ = "init" THEN "leaving" ELSE @]
    /\ UNCHANGED <<files, status, tmp, socket, reader, overlapped, orphans>>

\* Fault: an error path unlinks the published file.
WriteFailsUnlinkingStatus(p) ==
    /\ process[p].io # "idle"
    /\ status' = None
    /\ tmp' = [tmp EXCEPT ![TmpName(p)] = None]
    /\ process' = [process EXCEPT
           ![p].io = "idle", ![p].fd = None, ![p].written = 0,
           ![p].stage = IF @ = "init" THEN "leaving" ELSE @]
    /\ UNCHANGED <<files, socket, reader, overlapped, orphans>>

\* open, fchmod, write, fsync, close or rename fails: a file that was opened is
\* unlinked.  Only initialize looks at the result (main.cpp:175-180).
WriteFails(p) ==
    /\ process[p].io # "idle"
    /\ tmp' = IF process[p].io = "wanted" THEN tmp
              ELSE [tmp EXCEPT ![TmpName(p)] = None]
    /\ process' = [process EXCEPT
           ![p].io = "idle", ![p].fd = None, ![p].written = 0,
           ![p].stage = IF @ = "init" THEN "leaving" ELSE @]
    /\ UNCHANGED <<files, status, socket, reader, overlapped, orphans>>

-----------------------------------------------------------------------------
(* The life of a daemon *)

\* main() up to initialize, which writes the disconnected state first.
Start(p) ==
    /\ ~Up(p)
    /\ process' = [process EXCEPT ![p] = [Down EXCEPT !.stage = "init", !.io = "wanted"]]
    /\ overlapped' = (\E q \in Pids : Up(q))
    /\ UNCHANGED <<files, status, tmp, socket, reader, orphans>>

\* Fault: a stale socket file stays where it is.
UnlinkSocketNot(p) ==
    /\ process[p].stage = "binding" /\ process[p].io = "idle"
    /\ process' = [process EXCEPT ![p].stage = "unlinked"]
    /\ UNCHANGED <<files, status, tmp, socket, reader, overlapped, orphans>>

\* IpcServer::start takes the path away from whoever has it.
UnlinkSocket(p) ==
    /\ process[p].stage = "binding" /\ process[p].io = "idle"
    /\ socket' = None
    /\ process' = [process EXCEPT ![p].stage = "unlinked"]
    /\ UNCHANGED <<files, status, tmp, reader, overlapped, orphans>>

Bind(p) ==
    /\ process[p].stage = "unlinked" /\ socket = None
    /\ socket' = p
    /\ process' = [process EXCEPT ![p].stage = "bound"]
    /\ UNCHANGED <<files, status, tmp, reader, overlapped, orphans>>

Listen(p) ==
    /\ process[p].stage = "bound"
    /\ process' = [process EXCEPT ![p].stage = "serving"]
    /\ UNCHANGED <<files, status, tmp, socket, reader, overlapped, orphans>>

\* bind fails, for one when another daemon was faster, or chmod or listen does.
StartFails(p) ==
    /\ process[p].stage \in {"unlinked", "bound"}
    /\ socket' = IF process[p].stage = "bound" THEN None ELSE socket
    /\ process' = [process EXCEPT ![p].stage = "leaving"]
    /\ UNCHANGED <<files, status, tmp, reader, overlapped, orphans>>

\* SIGINT or SIGTERM: IpcServer::stop unlinks the path, whoever bound it.
Stop(p) ==
    /\ process[p].stage = "serving" /\ process[p].io = "idle"
    /\ socket' = None
    /\ process' = [process EXCEPT ![p].stage = "leaving"]
    /\ UNCHANGED <<files, status, tmp, reader, overlapped, orphans>>

\* StateEngine::cleanup removes status.json, whoever wrote it.
Cleanup(p) ==
    /\ process[p].stage = "leaving"
    /\ status' = None
    /\ tmp' = [tmp EXCEPT ![TmpName(p)] = None]
    /\ process' = [process EXCEPT ![p] = Down]
    /\ orphans' = orphans \ {p}
    /\ UNCHANGED <<files, socket, reader, overlapped>>

-----------------------------------------------------------------------------
(* Kills, power cuts and readers *)

\* Temporary files that exist because their writer was in the middle.
Unfinished(dead) == {p \in dead : tmp[p] # None}

Kill(p) ==
    /\ Up(p)
    /\ process' = [process EXCEPT ![p] = Down]
    /\ orphans' = orphans \cup Unfinished({p})
    /\ UNCHANGED <<files, status, tmp, socket, reader, overlapped>>

\* What was not synced may be lost, the socket's directory may be a tmpfs.
PowerCut ==
    /\ \E p \in Pids : Up(p)
    /\ process' = [p \in Pids |-> Down]
    /\ reader' = Idle
    /\ orphans' = orphans \cup Unfinished(Pids)
    /\ socket' \in {socket, None}
    /\ \E lost \in SUBSET {i \in Inodes \ Free : ~files[i].synced} :
           files' = [i \in Inodes |->
               IF i \in lost THEN [files[i] EXCEPT !.parts = Blank] ELSE files[i]]
    /\ UNCHANGED <<status, tmp, overlapped>>

ReaderOpens ==
    /\ reader.file = None /\ status # None
    /\ reader' = [Idle EXCEPT !.file = status]
    /\ UNCHANGED <<files, status, tmp, socket, process, overlapped, orphans>>

ReaderReads ==
    LET next == Len(reader.got) + 1
        more == next <= Parts /\ files[reader.file].parts[next] # Hole
    IN  /\ reader.file # None /\ ~reader.done
        /\ reader' = IF more
                     THEN [reader EXCEPT !.got = Append(@, files[reader.file].parts[next])]
                     ELSE [reader EXCEPT !.done = TRUE]
        /\ UNCHANGED <<files, status, tmp, socket, process, overlapped, orphans>>

ReaderCloses ==
    /\ reader.done
    /\ reader' = Idle
    /\ UNCHANGED <<files, status, tmp, socket, process, overlapped, orphans>>

-----------------------------------------------------------------------------
Writing(p) == OpenTmp(p) \/ WritePart(p) \/ Fsync(p) \/ Rename(p) \/ WriteFails(p)

Living(p) ==
    \/ Start(p) \/ UnlinkSocket(p) \/ Bind(p) \/ Listen(p)
    \/ StartFails(p) \/ Stop(p) \/ Cleanup(p)

Reading == ReaderOpens \/ ReaderReads \/ ReaderCloses

Next ==
    \/ \E p \in Pids :
           \/ \E value \in Values : Mutate(p, value)
           \/ Writing(p) \/ Living(p) \/ Kill(p)
    \/ PowerCut
    \/ Reading

Spec == Init /\ [][Next]_vars

-----------------------------------------------------------------------------
(* Safety *)

\* Who reads status.json to its end has one whole document, whatever daemons
\* were writing, failing, ending or killed meanwhile, also after a power cut
\* (StateEngine.cpp:140-206; tests/integration.sh:610-644).
NeverTorn ==
    reader.done =>
        /\ Len(reader.got) = Parts
        /\ \A k \in 1 .. Parts : reader.got[k] = reader.got[1]

\* While a daemon is alone, status.json is its own and shows the state of its
\* last successful write, whatever kills and failed writes came before
\* (StateEngine.cpp:103-134, 140-206; main.cpp:175-180, 554-576).
Truthful ==
    \A p \in Pids :
        ~overlapped /\ process[p].stage \in {"binding", "unlinked", "bound", "serving"} =>
            /\ status # None
            /\ \A k \in 1 .. Parts :
                   files[status].parts[k] = [by |-> p, value |-> process[p].published]

\* A temporary file is one being written or was left by a kill; every error
\* path and every orderly end removes it (StateEngine.cpp:118-134, 155-203).
Leftovers ==
    \A p \in Pids :
        tmp[p] # None => process[p].io \in {"open", "synced"} \/ p \in orphans

\* A daemon that is alone is reachable through the path once it serves, and no
\* socket file of a killed daemon keeps it from binding
\* (IpcServer.cpp:141-228; tests/integration.sh:651-680).
OneServed ==
    \A p \in Pids :
        ~overlapped =>
            /\ process[p].stage \in {"bound", "serving"} => socket = p
            /\ process[p].stage = "unlinked" => socket = None

-----------------------------------------------------------------------------
(* The inductive invariant *)

Whole(i, stamp) == files[i].synced /\ \A k \in 1 .. Parts : files[i].parts[k] = stamp

\* A file that a reader may be given: complete, and safe on the disk.
Sound(i) == \E stamp \in Stamp : Whole(i, stamp)

NamesApart ==
    \A p \in Pids : tmp[p] # None =>
        /\ tmp[p] # status /\ tmp[p] # reader.file
        /\ \A q \in Pids : tmp[q] = tmp[p] => q = p

WriterInStep(p) ==
    /\ process[p].io = "open" =>
           /\ process[p].fd = tmp[p] /\ tmp[p] # None
           /\ \A k \in 1 .. process[p].written : files[tmp[p]].parts[k] = Document(p)
    /\ process[p].io = "synced" => tmp[p] # None /\ Whole(tmp[p], Document(p))
    /\ process[p].io # "open" => process[p].fd = None
    /\ process[p].io \in {"open", "synced"} => p \notin orphans
    /\ process[p].io # "idle" => process[p].stage \in {"init", "binding", "serving"}
    /\ process[p].stage = "init" => process[p].io # "idle"

ReaderInStep ==
    /\ reader.file # None =>
           /\ Sound(reader.file)
           /\ Len(reader.got) <= Parts
           /\ \A k \in 1 .. Len(reader.got) : reader.got[k] = files[reader.file].parts[k]
           /\ reader.done => Len(reader.got) = Parts
    /\ reader.file = None => reader = Idle

Alone == ~overlapped => \A p, q \in Pids : Up(p) /\ Up(q) => p = q

\* What keeps status.json whole: the names never lead to the same inode, and
\* only complete and synced files get the public name (StateEngine.cpp:140-206).
IInv ==
    /\ TypeOK
    /\ NamesApart
    /\ status # None => Sound(status)
    /\ \A p \in Pids : WriterInStep(p)
    /\ ReaderInStep
    /\ Alone
    /\ Truthful
    /\ Leftovers
    /\ OneServed
=============================================================================
