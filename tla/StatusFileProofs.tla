-------------------------- MODULE StatusFileProofs --------------------------
(***************************************************************************)
(* Machine-checked facts about StatusFile, for any number of processes,    *)
(* inodes, states and pieces.                                              *)
(*                                                                         *)
(* IInv is preserved for one reason: the public name and the reader's file *)
(* lead to inodes that no temporary name leads to, and writers only touch  *)
(* the inode of their own temporary name.  There is one lemma per action.  *)
(***************************************************************************)
EXTENDS StatusFile, TLAPS

\* A hole is not a piece of any document.
LEMMA HoleIsNoStamp == Hole \notin Stamp
  BY StatusFileAssumption DEF Hole, Stamp

LEMMA DownIsProcess == Down \in Process
  BY StatusFileAssumption DEF Down, Process

LEMMA InitIInv == Init => IInv
<1> SUFFICES ASSUME Init PROVE IInv
  OBVIOUS
<1>1. TypeOK
  <2>1. [parts |-> Blank, synced |-> FALSE] \in File
    BY DEF Blank, File
  <2>2. Idle.got \in Seq(Stamp)
    BY DEF Idle
  <2> QED BY <2>1, <2>2, DownIsProcess DEF Init, TypeOK, Idle
<1>2. \A p \in Pids : process[p] = Down
  BY DEF Init
<1> QED
  BY <1>1, <1>2, StatusFileAssumption
     DEF Init, IInv, NamesApart, WriterInStep, ReaderInStep, Truthful, Leftovers, OneServed,
         Alone, Up, Down, Idle

\* A writer that did not move, and whose file nobody touched, stays in step.
LEMMA WriterUnmoved ==
  ASSUME NEW q \in Pids, WriterInStep(q), process'[q] = process[q], tmp'[q] = tmp[q],
         q \in orphans' => q \in orphans,
         tmp[q] # None => files'[tmp[q]] = files[tmp[q]]
  PROVE  WriterInStep(q)'
  BY DEF WriterInStep, Document, Whole

\* Neither stages nor the socket change.
LEMMA StagesKept ==
  ASSUME Alone, OneServed, overlapped' = overlapped, socket' = socket,
         \A q \in Pids : process'[q].stage = process[q].stage
  PROVE  Alone' /\ OneServed'
  BY DEF Alone, OneServed, Up

\* The published file stays, and no daemon claims more than before.
LEMMA TruthKept ==
  ASSUME Truthful, overlapped' = overlapped, status' = status,
         status # None => files'[status] = files[status],
         \A q \in Pids :
             \/ process'[q].stage \notin {"binding", "unlinked", "bound", "serving"}
             \/ /\ process[q].stage \in {"binding", "unlinked", "bound", "serving"}
                /\ process'[q].published = process[q].published
  PROVE  Truthful'
  BY DEF Truthful

-----------------------------------------------------------------------------
(* writeAtomic *)

LEMMA MutateIInv ==
  ASSUME IInv, NEW p \in Pids, NEW value \in Values, Mutate(p, value)
  PROVE  IInv'
<1>0. process \in [Pids -> Process] /\ \A q \in Pids : WriterInStep(q)
  BY DEF IInv, TypeOK
<1>1. process' \in [Pids -> Process]
  BY <1>0 DEF Process, Mutate
<1>2. TypeOK'
  BY <1>1 DEF IInv, TypeOK, Mutate
<1>3. \A q \in Pids : WriterInStep(q)'
  BY <1>0, <1>1 DEF Mutate, WriterInStep, Process, Document, Whole
<1>4. NamesApart' /\ (status # None => Sound(status))' /\ ReaderInStep'
  BY DEF IInv, NamesApart, ReaderInStep, Sound, Whole, Mutate
<1>5. \A q \in Pids : /\ process'[q].stage = process[q].stage
                      /\ process'[q].published = process[q].published
  BY <1>0 DEF Mutate, Process
<1>6. Truthful' /\ OneServed' /\ Alone'
  <2>1. UNCHANGED <<files, status, socket, overlapped>>
    BY DEF Mutate
  <2> QED BY <1>5, <2>1, StagesKept, TruthKept DEF IInv
<1>7. Leftovers'
  BY DEF IInv, TypeOK, Process, Leftovers, Mutate
<1> QED BY <1>2, <1>3, <1>4, <1>6, <1>7 DEF IInv

LEMMA OpenTmpIInv ==
  ASSUME IInv, NEW p \in Pids, OpenTmp(p)
  PROVE  IInv'
<1>0. /\ process \in [Pids -> Process] /\ tmp \in [Pids -> Inodes \cup {None}]
      /\ \A q \in Pids : WriterInStep(q)
  BY DEF IInv, TypeOK
<1>1. PICK i \in Inodes :
        /\ (i = tmp[p] /\ tmp[p] # None) \/ i \in Free
        /\ files' = [files EXCEPT ![i] = [parts |-> Blank, synced |-> FALSE]]
        /\ tmp' = [tmp EXCEPT ![p] = i]
        /\ process' = [process EXCEPT ![p].io = "open", ![p].fd = i, ![p].written = 0]
  <2>1. PICK i \in IF tmp[p] # None THEN {tmp[p]} ELSE Free :
          /\ files' = [files EXCEPT ![i] = [parts |-> Blank, synced |-> FALSE]]
          /\ tmp' = [tmp EXCEPT ![p] = i]
          /\ process' = [process EXCEPT ![p].io = "open", ![p].fd = i, ![p].written = 0]
    BY DEF OpenTmp, TmpName
  <2>2. i \in Inodes /\ ((i = tmp[p] /\ tmp[p] # None) \/ i \in Free)
    BY <1>0, <2>1 DEF Free
  <2> QED BY <2>1, <2>2
<1>2. i # None /\ i # status /\ i # reader.file
  BY <1>1, StatusFileAssumption DEF Free, IInv, NamesApart
<1>3. \A q \in Pids : q # p => tmp[q] # i
  BY <1>1, <1>2 DEF Free, IInv, NamesApart
<1>4. /\ process[p].io = "wanted" /\ orphans' = orphans \ {p}
      /\ UNCHANGED <<status, socket, reader, overlapped>>
  BY DEF OpenTmp
<1>5. [parts |-> Blank, synced |-> FALSE] \in File
  BY DEF Blank, File
<1>6. process' \in [Pids -> Process]
  <2> DEFINE opened == [process[p] EXCEPT !.io = "open", !.fd = i, !.written = 0]
  <2>1. process[p] \in Process /\ 0 \in 0 .. Parts
    BY <1>0, StatusFileAssumption
  <2>2. opened \in Process
    BY <2>1 DEF Process
  <2>3. process' = [process EXCEPT ![p] = opened]
    BY <1>1
  <2> QED BY <1>0, <2>2, <2>3
<1>7. TypeOK'
  BY <1>1, <1>4, <1>5, <1>6 DEF IInv, TypeOK
<1>8. NamesApart'
  BY <1>1, <1>2, <1>3, <1>4 DEF IInv, TypeOK, NamesApart
<1>9. \A j \in Inodes : j # i => files'[j] = files[j]
  BY <1>1 DEF IInv, TypeOK
<1>10. (status # None => Sound(status))'
  BY <1>2, <1>4, <1>9 DEF IInv, TypeOK, Sound, Whole
<1>11. ReaderInStep'
  BY <1>2, <1>4, <1>9 DEF IInv, TypeOK, ReaderInStep, Sound, Whole
<1>12. ASSUME NEW q \in Pids PROVE WriterInStep(q)'
  <2>1. CASE q = p
    BY <1>1, <1>2, <1>4, <2>1 DEF IInv, TypeOK, Process, WriterInStep
  <2>2. CASE q # p
    <3>1. process'[q] = process[q] /\ tmp'[q] = tmp[q] /\ (q \in orphans' <=> q \in orphans)
      BY <1>1, <1>4, <2>2 DEF IInv, TypeOK
    <3>2. tmp[q] # None => files'[tmp[q]] = files[tmp[q]]
      BY <1>3, <1>9, <2>2 DEF IInv, TypeOK
    <3> QED BY <1>0, <3>1, <3>2, WriterUnmoved
  <2> QED BY <2>1, <2>2
<1>13. \A q \in Pids : /\ process'[q].stage = process[q].stage
                       /\ process'[q].published = process[q].published
  BY <1>1 DEF IInv, TypeOK, Process
<1>14. Truthful' /\ OneServed' /\ Alone'
  <2>1. status # None => files'[status] = files[status]
    BY <1>2, <1>9 DEF IInv, TypeOK
  <2> QED BY <1>4, <1>13, <2>1, StagesKept, TruthKept DEF IInv
<1>16. Leftovers'
  BY <1>1, <1>4 DEF IInv, TypeOK, Process, Leftovers
<1> QED BY <1>7, <1>8, <1>10, <1>11, <1>12, <1>14, <1>16 DEF IInv

LEMMA WritePartIInv ==
  ASSUME IInv, NEW p \in Pids, WritePart(p)
  PROVE  IInv'
<1> DEFINE i == tmp[p]
           next == process[p].written + 1
<1>0. /\ process \in [Pids -> Process] /\ files \in [Inodes -> File]
      /\ \A q \in Pids : WriterInStep(q)
  BY DEF IInv, TypeOK
<1>1. /\ process[p].io = "open" /\ process[p].written < Parts
      /\ process[p].fd = i /\ i \in Inodes /\ i # None
      /\ next \in 1 .. Parts /\ Document(p) \in Stamp
      /\ process[p] \in Process
  BY StatusFileAssumption
     DEF WritePart, IInv, TypeOK, WriterInStep, Process, Document, Stamp
<1>2. /\ files' = [files EXCEPT ![i] =
              [parts |-> [files[i].parts EXCEPT ![next] = Document(p)], synced |-> FALSE]]
      /\ process' = [process EXCEPT ![p].written = next]
      /\ UNCHANGED <<status, tmp, socket, reader, overlapped, orphans>>
  BY <1>1 DEF WritePart, IInv, TypeOK
<1>3. i # status /\ i # reader.file /\ \A q \in Pids : q # p => tmp[q] # i
  BY <1>1 DEF IInv, NamesApart
<1>4. \A j \in Inodes : j # i => files'[j] = files[j]
  BY <1>2 DEF IInv, TypeOK
<1>5. TypeOK'
  <2>1. [parts |-> [files[i].parts EXCEPT ![next] = Document(p)], synced |-> FALSE] \in File
    BY <1>1 DEF IInv, TypeOK, File
  <2>2. process' \in [Pids -> Process]
    BY <1>0, <1>1, <1>2, StatusFileAssumption DEF Process
  <2> QED BY <1>2, <2>1, <2>2 DEF IInv, TypeOK
<1>6. NamesApart'
  BY <1>2 DEF IInv, NamesApart
<1>7. (status # None => Sound(status))' /\ ReaderInStep'
  BY <1>2, <1>3, <1>4 DEF IInv, TypeOK, ReaderInStep, Sound, Whole
<1>8. ASSUME NEW q \in Pids PROVE WriterInStep(q)'
  <2>1. CASE q = p
    <3>1. \A k \in 1 .. next : files'[i].parts[k] = Document(p)
      <4>1. files'[i].parts = [files[i].parts EXCEPT ![next] = Document(p)]
        BY <1>0, <1>1, <1>2 DEF File
      <4>2. files[i].parts \in [1 .. Parts -> Stamp \cup {Hole}]
        BY <1>0, <1>1 DEF File
      <4>3. \A k \in 1 .. process[p].written : files[i].parts[k] = Document(p)
        BY <1>0, <1>1 DEF WriterInStep
      <4>4. process[p].written \in 0 .. Parts /\ Parts \in Nat
        BY <1>1, StatusFileAssumption DEF Process
      <4> HIDE DEF i
      <4> QED BY <1>1, <4>1, <4>2, <4>3, <4>4
    <3>2. /\ process'[p].io = "open" /\ process'[p].fd = i /\ process'[p].written = next
          /\ process'[p].stage = process[p].stage /\ Document(p)' = Document(p)
      BY <1>0, <1>1, <1>2 DEF Process, Document
    <3> QED BY <1>0, <1>1, <1>2, <2>1, <3>1, <3>2 DEF WriterInStep
  <2>2. CASE q # p
    <3>1. process'[q] = process[q]
      BY <1>2, <2>2 DEF IInv, TypeOK
    <3>2. tmp[q] # None => files'[tmp[q]] = files[tmp[q]]
      BY <1>3, <1>4, <2>2 DEF IInv, TypeOK
    <3> QED BY <1>0, <1>2, <3>1, <3>2, WriterUnmoved
  <2> QED BY <2>1, <2>2
<1>9. \A q \in Pids : /\ process'[q].stage = process[q].stage
                      /\ process'[q].published = process[q].published
                      /\ process'[q].io = process[q].io
  BY <1>0, <1>2 DEF Process
<1>10. Truthful' /\ OneServed' /\ Alone'
  <2>1. status # None => files'[status] = files[status]
    BY <1>3, <1>4 DEF IInv, TypeOK
  <2> QED BY <1>2, <1>9, <2>1, StagesKept, TruthKept DEF IInv
<1>11. Leftovers'
  BY <1>2, <1>9 DEF IInv, Leftovers
<1> QED BY <1>5, <1>6, <1>7, <1>8, <1>10, <1>11 DEF IInv

LEMMA FsyncIInv ==
  ASSUME IInv, NEW p \in Pids, Fsync(p)
  PROVE  IInv'
<1> DEFINE i == tmp[p]
<1>0. /\ process \in [Pids -> Process] /\ files \in [Inodes -> File]
      /\ \A q \in Pids : WriterInStep(q)
  BY DEF IInv, TypeOK
<1>1. /\ process[p].io = "open" /\ process[p].written = Parts
      /\ process[p].fd = i /\ i \in Inodes /\ i # None
      /\ process[p] \in Process
  BY DEF Fsync, IInv, TypeOK, WriterInStep
<1>2. /\ files' = [files EXCEPT ![i].synced = TRUE]
      /\ process' = [process EXCEPT ![p].io = "synced", ![p].fd = None, ![p].written = 0]
      /\ UNCHANGED <<status, tmp, socket, reader, overlapped, orphans>>
  BY <1>1 DEF Fsync
<1>3. i # status /\ i # reader.file /\ \A q \in Pids : q # p => tmp[q] # i
  BY <1>1 DEF IInv, NamesApart
<1>4. \A j \in Inodes : j # i => files'[j] = files[j]
  BY <1>2 DEF IInv, TypeOK
<1>5. TypeOK'
  <2>1. files' \in [Inodes -> File]
    BY <1>1, <1>2 DEF IInv, TypeOK, File
  <2>2. process' \in [Pids -> Process]
    BY <1>0, <1>1, <1>2, StatusFileAssumption DEF Process
  <2> QED BY <1>2, <2>1, <2>2 DEF IInv, TypeOK
<1>6. NamesApart'
  BY <1>2 DEF IInv, NamesApart
<1>7. (status # None => Sound(status))' /\ ReaderInStep'
  BY <1>2, <1>3, <1>4 DEF IInv, TypeOK, ReaderInStep, Sound, Whole
<1>8. ASSUME NEW q \in Pids PROVE WriterInStep(q)'
  <2>1. CASE q = p
    <3>1. files'[i].synced /\ \A k \in 1 .. Parts : files'[i].parts[k] = Document(p)
      BY <1>0, <1>1, <1>2 DEF File, WriterInStep
    <3>2. /\ process'[p].io = "synced" /\ process'[p].fd = None
          /\ process'[p].stage = process[p].stage /\ Document(p)' = Document(p)
      BY <1>0, <1>1, <1>2 DEF Process, Document
    <3> QED BY <1>0, <1>1, <1>2, <2>1, <3>1, <3>2 DEF WriterInStep, Whole
  <2>2. CASE q # p
    <3>1. process'[q] = process[q]
      BY <1>2, <2>2 DEF IInv, TypeOK
    <3>2. tmp[q] # None => files'[tmp[q]] = files[tmp[q]]
      BY <1>3, <1>4, <2>2 DEF IInv, TypeOK
    <3> QED BY <1>0, <1>2, <3>1, <3>2, WriterUnmoved
  <2> QED BY <2>1, <2>2
<1>9. \A q \in Pids : /\ process'[q].stage = process[q].stage
                      /\ process'[q].published = process[q].published
                      /\ process[q].io \in {"open", "synced"} =>
                             process'[q].io \in {"open", "synced"}
  BY <1>0, <1>2 DEF Process
<1>10. Truthful' /\ OneServed' /\ Alone'
  <2>1. status # None => files'[status] = files[status]
    BY <1>3, <1>4 DEF IInv, TypeOK
  <2> QED BY <1>2, <1>9, <2>1, StagesKept, TruthKept DEF IInv
<1>11. Leftovers'
  BY <1>2, <1>9 DEF IInv, Leftovers
<1> QED BY <1>5, <1>6, <1>7, <1>8, <1>10, <1>11 DEF IInv

LEMMA RenameIInv ==
  ASSUME IInv, NEW p \in Pids, Rename(p)
  PROVE  IInv'
<1> DEFINE i == tmp[p]
<1>0. /\ process \in [Pids -> Process] /\ tmp \in [Pids -> Inodes \cup {None}]
      /\ \A q \in Pids : WriterInStep(q)
  BY DEF IInv, TypeOK
<1>1. /\ process[p].io = "synced" /\ i \in Inodes /\ i # None /\ process[p] \in Process
      /\ Whole(i, Document(p)) /\ process[p].fd = None
      /\ process[p].stage \in {"init", "binding", "serving"}
  BY DEF Rename, TmpName, IInv, TypeOK, WriterInStep
<1>2. /\ status' = i /\ tmp' = [tmp EXCEPT ![p] = None]
      /\ process' = [process EXCEPT
             ![p].io = "idle", ![p].published = process[p].value,
             ![p].stage = IF @ = "init" THEN "binding" ELSE @]
      /\ UNCHANGED <<files, socket, reader, overlapped, orphans>>
  BY DEF Rename, TmpName
<1>3. Document(p) \in Stamp
  BY <1>1 DEF Document, Stamp, Process
<1>4. process' \in [Pids -> Process]
  BY <1>1, <1>2, <1>0 DEF Process
<1>5. TypeOK'
  BY <1>1, <1>2, <1>4 DEF IInv, TypeOK
<1>6. NamesApart'
  BY <1>1, <1>2 DEF IInv, TypeOK, NamesApart
<1>7. (status # None => Sound(status))'
  BY <1>1, <1>2, <1>3 DEF Sound, Whole
<1>8. ReaderInStep'
  BY <1>2 DEF IInv, ReaderInStep, Sound, Whole
<1>9. \A q \in Pids : q # p => process'[q] = process[q] /\ tmp'[q] = tmp[q]
  BY <1>2 DEF IInv, TypeOK
<1>10. /\ process'[p].io = "idle" /\ process'[p].fd = None
       /\ process'[p].stage \in {"binding", "serving"}
       /\ process[p].stage # "init" => process'[p].stage = process[p].stage
       /\ process[p].stage = "init" => process'[p].stage = "binding"
       /\ process'[p].published = process[p].value /\ tmp'[p] = None
  BY <1>0, <1>1, <1>2 DEF Process
<1>11. ASSUME NEW q \in Pids PROVE WriterInStep(q)'
  <2>1. CASE q = p
    BY <1>10, <2>1 DEF WriterInStep
  <2>2. CASE q # p
    BY <1>0, <1>2, <1>9, <2>2, WriterUnmoved
  <2> QED BY <2>1, <2>2
<1>12. Alone'
  <2>1. \A q \in Pids : Up(q)' => Up(q)
    BY <1>1, <1>9 DEF Up
  <2> QED BY <1>2, <2>1 DEF IInv, Alone
<1>13. Truthful'
  <2> SUFFICES ASSUME NEW q \in Pids, ~overlapped', 
                      process'[q].stage \in {"binding", "unlinked", "bound", "serving"}
               PROVE  /\ status' # None
                      /\ \A k \in 1 .. Parts : files'[status'].parts[k] =
                             [by |-> q, value |-> process'[q].published]
    BY DEF Truthful
  <2>1. Up(p)' /\ Up(q)'
    BY <1>10 DEF Up
  <2>2. q = p
    BY <1>12, <2>1 DEF Alone
  <2> QED BY <1>1, <1>2, <1>10, <2>2 DEF Whole, Document
<1>14. Leftovers'
  BY <1>2, <1>9, <1>10 DEF IInv, Leftovers
<1>15. OneServed'
  <2>1. \A q \in Pids : process'[q].stage \in {"bound", "serving", "unlinked"} =>
            process'[q].stage = process[q].stage
    BY <1>9, <1>10
  <2> QED BY <1>2, <2>1 DEF IInv, OneServed
<1> QED BY <1>5, <1>6, <1>7, <1>8, <1>11, <1>12, <1>13, <1>14, <1>15 DEF IInv

LEMMA WriteFailsIInv ==
  ASSUME IInv, NEW p \in Pids, WriteFails(p)
  PROVE  IInv'
<1>0. /\ process \in [Pids -> Process] /\ tmp \in [Pids -> Inodes \cup {None}]
      /\ \A q \in Pids : WriterInStep(q)
  BY DEF IInv, TypeOK
<1>1. /\ process[p].io # "idle" /\ process[p] \in Process
      /\ process[p].stage \in {"init", "binding", "serving"}
  BY DEF WriteFails, IInv, TypeOK, WriterInStep
<1>2. /\ tmp' = IF process[p].io = "wanted" THEN tmp ELSE [tmp EXCEPT ![p] = None]
      /\ process' = [process EXCEPT
             ![p].io = "idle", ![p].fd = None, ![p].written = 0,
             ![p].stage = IF @ = "init" THEN "leaving" ELSE @]
      /\ UNCHANGED <<files, status, socket, reader, overlapped, orphans>>
  BY DEF WriteFails, TmpName
<1>3. process' \in [Pids -> Process]
  <2> DEFINE given_up == [process[p] EXCEPT !.io = "idle", !.fd = None, !.written = 0,
                              !.stage = IF @ = "init" THEN "leaving" ELSE @]
  <2>1. process[p] \in Process /\ 0 \in 0 .. Parts
    BY <1>0, StatusFileAssumption
  <2>2. given_up \in Process
    BY <2>1 DEF Process
  <2>3. process' = [process EXCEPT ![p] = given_up]
    BY <1>2
  <2> QED BY <1>0, <2>2, <2>3
<1>4. TypeOK'
  BY <1>2, <1>3 DEF IInv, TypeOK
<1>5. \A q \in Pids : tmp'[q] \in {tmp[q], None}
  BY <1>2 DEF IInv, TypeOK
<1>6. NamesApart'
  BY <1>2, <1>5 DEF IInv, TypeOK, NamesApart
<1>7. (status # None => Sound(status))' /\ ReaderInStep'
  BY <1>2 DEF IInv, ReaderInStep, Sound, Whole
<1>8. \A q \in Pids : q # p => process'[q] = process[q] /\ tmp'[q] = tmp[q]
  BY <1>2 DEF IInv, TypeOK
<1>9. /\ process'[p].io = "idle" /\ process'[p].fd = None
      /\ process'[p].published = process[p].published
      /\ \/ process'[p].stage = process[p].stage /\ process'[p].stage # "init"
         \/ process'[p].stage = "leaving"
  BY <1>0, <1>1, <1>2 DEF Process
<1>10. ASSUME NEW q \in Pids PROVE WriterInStep(q)'
  <2>1. CASE q = p
    BY <1>9, <2>1 DEF WriterInStep
  <2>2. CASE q # p
    BY <1>0, <1>2, <1>8, <2>2, WriterUnmoved
  <2> QED BY <2>1, <2>2
<1>11. Alone'
  <2>1. \A q \in Pids : Up(q)' => Up(q)
    BY <1>1, <1>8 DEF Up
  <2> QED BY <1>2, <2>1 DEF IInv, Alone
<1>12. Truthful' /\ OneServed'
  <2>1. \A q \in Pids : \/ process'[q].stage = "leaving"
                       \/ /\ process'[q].stage = process[q].stage
                          /\ process'[q].published = process[q].published
    BY <1>8, <1>9
  <2>2. /\ Truthful /\ OneServed
        /\ UNCHANGED <<files, status, socket, reader, overlapped, orphans>>
    BY <1>2 DEF IInv
  <2>3. Truthful'
    BY ONLY <2>1, <2>2 DEF Truthful
  <2>4. OneServed'
    BY ONLY <2>1, <2>2 DEF OneServed
  <2> QED BY <2>3, <2>4
<1>13. Leftovers'
  <2>1. tmp'[p] # None => p \in orphans
    BY <1>0, <1>1, <1>2 DEF IInv, Process, Leftovers
  <2> QED BY <1>2, <1>8, <2>1 DEF IInv, Leftovers
<1> QED BY <1>4, <1>6, <1>7, <1>10, <1>11, <1>12, <1>13 DEF IInv

-----------------------------------------------------------------------------
(* The life of a daemon *)

\* A step of one daemon that leaves all files, names and readers alone.
LEMMA StageStep ==
  ASSUME IInv, NEW p \in Pids,
         process' \in [Pids -> Process],
         \A q \in Pids : q # p => process'[q] = process[q],
         UNCHANGED <<files, status, tmp, reader, orphans>>,
         socket' \in Pids \cup {None}, overlapped' \in BOOLEAN,
         process[p].io = "idle",
         WriterInStep(p)'
  PROVE  /\ TypeOK' /\ NamesApart' /\ (status # None => Sound(status))' /\ ReaderInStep'
         /\ \A q \in Pids : WriterInStep(q)'
         /\ Leftovers'
<1>1. TypeOK' /\ NamesApart' /\ (status # None => Sound(status))' /\ ReaderInStep'
  BY DEF IInv, TypeOK, NamesApart, ReaderInStep, Sound, Whole
<1>2. \A q \in Pids : WriterInStep(q)'
  BY WriterUnmoved DEF IInv
<1>3. Leftovers'
  BY DEF IInv, Leftovers
<1> QED BY <1>1, <1>2, <1>3

LEMMA StartIInv ==
  ASSUME IInv, NEW p \in Pids, Start(p)
  PROVE  IInv'
<1> DEFINE started == [Down EXCEPT !.stage = "init", !.io = "wanted"]
<1>0. process \in [Pids -> Process]
  BY DEF IInv, TypeOK
<1>1. /\ ~Up(p) /\ process' = [process EXCEPT ![p] = started]
      /\ overlapped' = (\E q \in Pids : Up(q))
      /\ UNCHANGED <<files, status, tmp, socket, reader, orphans>>
  BY DEF Start
<1>2. /\ started \in Process /\ started.stage = "init" /\ started.io = "wanted"
      /\ started.fd = None
  BY DownIsProcess DEF Down, Process
<1>3. process' \in [Pids -> Process] /\ process'[p] = started
      /\ \A q \in Pids : q # p => process'[q] = process[q]
  BY <1>0, <1>1, <1>2
<1>4. process[p].io = "idle"
  BY <1>0, <1>1 DEF IInv, WriterInStep, Up
<1>5. WriterInStep(p)'
  BY <1>2, <1>3 DEF WriterInStep
<1>6. socket' \in Pids \cup {None} /\ overlapped' \in BOOLEAN
  BY <1>1 DEF IInv, TypeOK
<1>7. Alone'
  BY <1>1, <1>3 DEF Alone, Up
<1>8. Truthful' /\ OneServed'
  <2>1. ~overlapped' => \A q \in Pids : process'[q].stage \in {"down", "init"}
    BY <1>1, <1>2, <1>3 DEF Up
  <2> QED BY <2>1 DEF Truthful, OneServed
<1> QED BY <1>1, <1>3, <1>4, <1>5, <1>6, <1>7, <1>8, StageStep DEF IInv

LEMMA UnlinkSocketIInv ==
  ASSUME IInv, NEW p \in Pids, UnlinkSocket(p)
  PROVE  IInv'
<1>0. process \in [Pids -> Process] /\ WriterInStep(p)
  BY DEF IInv, TypeOK
<1>1. /\ process[p].stage = "binding" /\ process[p].io = "idle" /\ socket' = None
      /\ process' = [process EXCEPT ![p].stage = "unlinked"]
      /\ UNCHANGED <<files, status, tmp, reader, overlapped, orphans>>
  BY DEF UnlinkSocket
<1>2. process' \in [Pids -> Process]
  BY <1>0, <1>1 DEF Process
<1>3. /\ \A q \in Pids : q # p => process'[q] = process[q]
      /\ process'[p].stage = "unlinked" /\ process'[p].io = "idle"
      /\ process'[p].fd = process[p].fd /\ process'[p].published = process[p].published
  BY <1>0, <1>1 DEF Process
<1>4. WriterInStep(p)'
  BY <1>0, <1>1, <1>3 DEF WriterInStep
<1>5. Alone'
  <2>1. \A q \in Pids : Up(q)' => Up(q)
    BY <1>1, <1>3 DEF Up
  <2> QED BY <1>1, <2>1 DEF IInv, Alone
<1>6. Truthful'
  <2>1. \A q \in Pids : \/ process'[q] = process[q]
                       \/ /\ process[q].stage = "binding"
                          /\ process'[q].published = process[q].published
    BY <1>1, <1>3
  <2> QED BY <1>1, <2>1, TruthKept DEF IInv
<1>7. OneServed'
  <2>1. ASSUME NEW q \in Pids, ~overlapped', q # p PROVE ~Up(q)'
    BY <1>1, <1>3, <1>5, <2>1 DEF Alone, Up
  <2> QED BY <1>1, <1>3, <2>1 DEF OneServed, Up
<1> QED BY <1>1, <1>2, <1>3, <1>4, <1>5, <1>6, <1>7, StageStep DEF IInv, TypeOK

LEMMA BindIInv ==
  ASSUME IInv, NEW p \in Pids, Bind(p)
  PROVE  IInv'
<1>0. process \in [Pids -> Process] /\ WriterInStep(p)
  BY DEF IInv, TypeOK
<1>1. /\ process[p].stage = "unlinked" /\ socket' = p
      /\ process' = [process EXCEPT ![p].stage = "bound"]
      /\ UNCHANGED <<files, status, tmp, reader, overlapped, orphans>>
  BY DEF Bind
<1>2. process' \in [Pids -> Process]
  BY <1>0, <1>1 DEF Process
<1>3. /\ \A q \in Pids : q # p => process'[q] = process[q]
      /\ process'[p].stage = "bound" /\ process'[p].io = process[p].io
      /\ process'[p].fd = process[p].fd /\ process'[p].published = process[p].published
  BY <1>0, <1>1 DEF Process
<1>4. WriterInStep(p)' /\ process[p].io = "idle"
  BY <1>0, <1>1, <1>3 DEF WriterInStep
<1>5. Alone'
  <2>1. \A q \in Pids : Up(q)' => Up(q)
    BY <1>1, <1>3 DEF Up
  <2> QED BY <1>1, <2>1 DEF IInv, Alone
<1>6. Truthful'
  <2>1. \A q \in Pids : \/ process'[q] = process[q]
                       \/ /\ process[q].stage = "unlinked"
                          /\ process'[q].published = process[q].published
    BY <1>1, <1>3
  <2> QED BY <1>1, <2>1, TruthKept DEF IInv
<1>7. OneServed'
  <2>1. ASSUME NEW q \in Pids, ~overlapped', q # p PROVE ~Up(q)'
    BY <1>1, <1>3, <1>5, <2>1 DEF Alone, Up
  <2> QED BY <1>1, <1>3, <2>1 DEF OneServed, Up
<1> QED BY <1>1, <1>2, <1>3, <1>4, <1>5, <1>6, <1>7, StageStep DEF IInv, TypeOK

LEMMA ListenIInv ==
  ASSUME IInv, NEW p \in Pids, Listen(p)
  PROVE  IInv'
<1>0. process \in [Pids -> Process] /\ WriterInStep(p)
  BY DEF IInv, TypeOK
<1>1. /\ process[p].stage = "bound"
      /\ process' = [process EXCEPT ![p].stage = "serving"]
      /\ UNCHANGED <<files, status, tmp, socket, reader, overlapped, orphans>>
  BY DEF Listen
<1>2. process' \in [Pids -> Process]
  BY <1>0, <1>1 DEF Process
<1>3. /\ \A q \in Pids : q # p => process'[q] = process[q]
      /\ process'[p].stage = "serving" /\ process'[p].io = process[p].io
      /\ process'[p].fd = process[p].fd /\ process'[p].published = process[p].published
  BY <1>0, <1>1 DEF Process
<1>4. WriterInStep(p)' /\ process[p].io = "idle"
  BY <1>0, <1>1, <1>3 DEF WriterInStep
<1>5. Alone'
  <2>1. \A q \in Pids : Up(q)' => Up(q)
    BY <1>1, <1>3 DEF Up
  <2> QED BY <1>1, <2>1 DEF IInv, Alone
<1>6. Truthful'
  <2>1. \A q \in Pids : \/ process'[q] = process[q]
                       \/ /\ process[q].stage = "bound"
                          /\ process'[q].published = process[q].published
    BY <1>1, <1>3
  <2> QED BY <1>1, <2>1, TruthKept DEF IInv
<1>7. OneServed'
  BY <1>1, <1>3 DEF IInv, OneServed
<1> QED BY <1>1, <1>2, <1>3, <1>4, <1>5, <1>6, <1>7, StageStep DEF IInv, TypeOK

\* A daemon that leaves may take the socket's path away from a neighbour, but
\* not while it is alone.
LEMMA LeaveIInv ==
  ASSUME IInv, NEW p \in Pids, StartFails(p) \/ Stop(p)
  PROVE  IInv'
<1>0. process \in [Pids -> Process] /\ WriterInStep(p)
  BY DEF IInv, TypeOK
<1>1. /\ process[p].stage \in {"unlinked", "bound", "serving"} /\ process[p].io = "idle"
      /\ socket' \in {socket, None}
      /\ process' = [process EXCEPT ![p].stage = "leaving"]
      /\ UNCHANGED <<files, status, tmp, reader, overlapped, orphans>>
  BY <1>0 DEF StartFails, Stop, WriterInStep
<1>2. process' \in [Pids -> Process]
  BY <1>0, <1>1 DEF Process
<1>3. /\ \A q \in Pids : q # p => process'[q] = process[q]
      /\ process'[p].stage = "leaving" /\ process'[p].io = "idle"
      /\ process'[p].fd = process[p].fd /\ process'[p].published = process[p].published
  BY <1>0, <1>1 DEF Process
<1>4. WriterInStep(p)'
  BY <1>0, <1>1, <1>3 DEF WriterInStep
<1>5. Alone'
  <2>1. \A q \in Pids : Up(q)' => Up(q)
    BY <1>1, <1>3 DEF Up
  <2> QED BY <1>1, <2>1 DEF IInv, Alone
<1>6. Truthful'
  <2>1. \A q \in Pids : process'[q] = process[q] \/ process'[q].stage = "leaving"
    BY <1>3
  <2> QED BY <1>1, <2>1, TruthKept DEF IInv
<1>7. OneServed'
  <2>1. ASSUME NEW q \in Pids, ~overlapped', q # p PROVE ~Up(q)'
    BY <1>1, <1>3, <1>5, <2>1 DEF Alone, Up
  <2> QED BY <1>1, <1>3, <2>1 DEF OneServed, Up
<1> QED BY <1>1, <1>2, <1>3, <1>4, <1>5, <1>6, <1>7, StageStep DEF IInv, TypeOK

LEMMA CleanupIInv ==
  ASSUME IInv, NEW p \in Pids, Cleanup(p)
  PROVE  IInv'
<1>0. /\ process \in [Pids -> Process] /\ tmp \in [Pids -> Inodes \cup {None}]
      /\ \A q \in Pids : WriterInStep(q)
  BY DEF IInv, TypeOK
<1>1. /\ process[p].stage = "leaving" /\ status' = None
      /\ tmp' = [tmp EXCEPT ![p] = None] /\ process' = [process EXCEPT ![p] = Down]
      /\ orphans' = orphans \ {p}
      /\ UNCHANGED <<files, socket, reader, overlapped>>
  BY DEF Cleanup, TmpName
<1>2. /\ process' \in [Pids -> Process] /\ tmp' \in [Pids -> Inodes \cup {None}]
      /\ process'[p] = Down /\ tmp'[p] = None
      /\ \A q \in Pids : q # p => process'[q] = process[q] /\ tmp'[q] = tmp[q]
  BY <1>0, <1>1, DownIsProcess
<1>3. Down.stage = "down" /\ Down.io = "idle" /\ Down.fd = None
  BY DEF Down
<1>4. TypeOK'
  BY <1>1, <1>2 DEF IInv, TypeOK
<1>5. NamesApart' /\ ReaderInStep' /\ (status # None => Sound(status))'
  <2>1. NamesApart'
    BY <1>1, <1>2, StatusFileAssumption DEF IInv, TypeOK, NamesApart
  <2>2. ReaderInStep'
    BY <1>1 DEF IInv, ReaderInStep, Sound, Whole
  <2> QED BY <1>1, <2>1, <2>2
<1>6. \A q \in Pids : WriterInStep(q)'
  <2>1. WriterInStep(p)'
    BY <1>2, <1>3 DEF WriterInStep
  <2>2. \A q \in Pids : q # p => WriterInStep(q)'
    BY <1>0, <1>1, <1>2, WriterUnmoved
  <2> QED BY <2>1, <2>2
<1>7. Alone'
  BY <1>1, <1>2, <1>3 DEF IInv, Alone, Up
<1>8. Truthful' /\ OneServed'
  <2>1. ~overlapped' => \A q \in Pids : process'[q].stage = "down"
    BY <1>1, <1>2, <1>3 DEF IInv, Alone, Up
  <2> QED BY <2>1 DEF Truthful, OneServed
<1>9. Leftovers'
  BY <1>1, <1>2 DEF IInv, Leftovers
<1> QED BY <1>4, <1>5, <1>6, <1>7, <1>8, <1>9 DEF IInv

-----------------------------------------------------------------------------
(* Kills, power cuts and readers *)

LEMMA KillIInv ==
  ASSUME IInv, NEW p \in Pids, Kill(p)
  PROVE  IInv'
<1>0. process \in [Pids -> Process] /\ \A q \in Pids : WriterInStep(q)
  BY DEF IInv, TypeOK
<1>1. /\ process' = [process EXCEPT ![p] = Down]
      /\ orphans' = orphans \cup {q \in {p} : tmp[q] # None}
      /\ UNCHANGED <<files, status, tmp, socket, reader, overlapped>>
  BY DEF Kill, Unfinished
<1>2. /\ process' \in [Pids -> Process] /\ process'[p] = Down
      /\ \A q \in Pids : q # p => process'[q] = process[q]
  BY <1>0, <1>1, DownIsProcess
<1>3. Down.stage = "down" /\ Down.io = "idle" /\ Down.fd = None
  BY DEF Down
<1>4. TypeOK'
  BY <1>1, <1>2 DEF IInv, TypeOK
<1>5. NamesApart' /\ ReaderInStep' /\ (status # None => Sound(status))'
  BY <1>1 DEF IInv, NamesApart, ReaderInStep, Sound, Whole
<1>6. \A q \in Pids : WriterInStep(q)'
  <2>1. WriterInStep(p)'
    BY <1>2, <1>3 DEF WriterInStep
  <2>2. \A q \in Pids : q # p => WriterInStep(q)'
    BY <1>0, <1>1, <1>2, WriterUnmoved
  <2> QED BY <2>1, <2>2
<1>7. Alone' /\ Truthful' /\ OneServed'
  <2>1. Alone'
    BY <1>1, <1>2, <1>3 DEF IInv, Alone, Up
  <2>2. \A q \in Pids : process'[q] = process[q] \/ process'[q].stage = "down"
    BY <1>2, <1>3
  <2>3. Truthful'
    BY <1>1, <2>2, TruthKept DEF IInv
  <2>4. OneServed'
    BY <1>1, <2>2 DEF IInv, OneServed
  <2> QED BY <2>1, <2>3, <2>4
<1>8. Leftovers'
  BY <1>1, <1>2 DEF IInv, Leftovers
<1> QED BY <1>4, <1>5, <1>6, <1>7, <1>8 DEF IInv

LEMMA PowerCutIInv ==
  ASSUME IInv, PowerCut
  PROVE  IInv'
<1>1. /\ process' = [p \in Pids |-> Down] /\ reader' = Idle
      /\ orphans' = orphans \cup {q \in Pids : tmp[q] # None}
      /\ socket' \in {socket, None} /\ UNCHANGED <<status, tmp, overlapped>>
  BY DEF PowerCut, Unfinished
<1>2. PICK lost \in SUBSET {i \in Inodes \ Free : ~files[i].synced} :
          files' = [i \in Inodes |->
              IF i \in lost THEN [files[i] EXCEPT !.parts = Blank] ELSE files[i]]
  BY DEF PowerCut
<1>3. files' \in [Inodes -> File]
  <2>1. ASSUME NEW i \in Inodes PROVE [files[i] EXCEPT !.parts = Blank] \in File
    BY DEF IInv, TypeOK, File, Blank
  <2> QED BY <1>2, <2>1 DEF IInv, TypeOK
<1>4. Down.stage = "down" /\ Down.io = "idle" /\ Down.fd = None
  BY DEF Down
<1>5. TypeOK'
  <2>1. process' \in [Pids -> Process]
    BY <1>1, DownIsProcess
  <2>2. reader' \in [file : Inodes \cup {None}, got : Seq(Stamp), done : BOOLEAN]
    BY <1>1 DEF Idle
  <2> QED BY <1>1, <1>3, <2>1, <2>2 DEF IInv, TypeOK
<1>6. NamesApart' /\ ReaderInStep'
  BY <1>1, StatusFileAssumption DEF IInv, TypeOK, NamesApart, ReaderInStep, Idle
<1>7. (status # None => Sound(status))'
  BY <1>1, <1>2 DEF IInv, TypeOK, Sound, Whole
<1>8. \A q \in Pids : WriterInStep(q)'
  BY <1>1, <1>4 DEF WriterInStep
<1>9. Alone' /\ Truthful' /\ OneServed'
  BY <1>1, <1>4 DEF Alone, Up, Truthful, OneServed
<1>10. Leftovers'
  BY <1>1 DEF Leftovers
<1> QED BY <1>5, <1>6, <1>7, <1>8, <1>9, <1>10 DEF IInv

\* A reader changes nothing but itself.
LEMMA ReadingIInv ==
  ASSUME IInv, Reading
  PROVE  IInv'
<1>1. UNCHANGED <<files, status, tmp, socket, process, overlapped, orphans>>
  BY DEF Reading, ReaderOpens, ReaderReads, ReaderCloses
<1>2. reader' \in [file : Inodes \cup {None}, got : Seq(Stamp), done : BOOLEAN]
      /\ ReaderInStep' /\ reader'.file \in {reader.file, status, None}
  <2>1. CASE ReaderOpens
    <3>1. /\ reader'.file = status /\ status # None /\ reader'.got = <<>>
          /\ reader'.done = FALSE /\ reader' = [Idle EXCEPT !.file = status]
      BY <2>1 DEF ReaderOpens, Idle
    <3>2. Sound(status) /\ Parts \in Nat
      BY <3>1, StatusFileAssumption DEF IInv
    <3>3. status \in Inodes \cup {None}
      BY DEF IInv, TypeOK
    <3>4. reader' \in [file : Inodes \cup {None}, got : Seq(Stamp), done : BOOLEAN]
      <4>1. reader' = [file |-> status, got |-> <<>>, done |-> FALSE]
        BY <3>1 DEF Idle
      <4>2. <<>> \in Seq(Stamp)
        OBVIOUS
      <4> QED BY <3>3, <4>1, <4>2
    <3>5. Len(reader'.got) = 0
      BY <3>1
    <3>6. ReaderInStep'
      BY <1>1, <3>1, <3>2, <3>5 DEF ReaderInStep, Sound, Whole
    <3> QED BY <3>1, <3>4, <3>6
  <2>2. CASE ReaderReads
    <3> DEFINE next == Len(reader.got) + 1
               parts == files[reader.file].parts
    <3>1. /\ reader.file # None /\ ~reader.done
          /\ reader' = IF next <= Parts /\ parts[next] # Hole
                       THEN [reader EXCEPT !.got = Append(@, parts[next])]
                       ELSE [reader EXCEPT !.done = TRUE]
      BY <2>2 DEF ReaderReads
    <3>2. /\ reader \in [file : Inodes \cup {None}, got : Seq(Stamp), done : BOOLEAN]
          /\ Len(reader.got) \in Nat /\ Parts \in Nat /\ Len(reader.got) <= Parts
          /\ \A k \in 1 .. Len(reader.got) : reader.got[k] = parts[k]
          /\ Sound(reader.file)
      BY <3>1, StatusFileAssumption DEF IInv, TypeOK, ReaderInStep
    <3>3. \A k \in 1 .. Parts : parts[k] \in Stamp /\ parts[k] # Hole
      BY <3>2, HoleIsNoStamp DEF Sound, Whole
    <3>4. CASE next <= Parts
      <4>1. next \in 1 .. Parts
        BY <3>2, <3>4
      <4>2. reader' = [reader EXCEPT !.got = Append(@, parts[next])]
        BY <3>1, <3>3, <3>4, <4>1
      <4>3. /\ reader'.file = reader.file /\ reader'.done = reader.done
            /\ reader'.got = Append(reader.got, parts[next])
            /\ reader' \in [file : Inodes \cup {None}, got : Seq(Stamp), done : BOOLEAN]
        <5> DEFINE piece == parts[next]
        <5>1. piece \in Stamp /\ reader.got \in Seq(Stamp)
          BY <3>2, <3>3, <4>1
        <5>2. Append(reader.got, piece) \in Seq(Stamp)
          BY <5>1
        <5>3. reader' = [reader EXCEPT !.got = Append(@, piece)]
          BY <4>2
        <5> HIDE DEF piece
        <5>4. /\ reader'.file = reader.file /\ reader'.done = reader.done
              /\ reader'.got = Append(reader.got, piece)
          BY <3>2, <5>3
        <5>5. reader' \in [file : Inodes \cup {None}, got : Seq(Stamp), done : BOOLEAN]
          BY <3>2, <5>2, <5>3
        <5> QED BY <5>4, <5>5 DEF piece
      <4>4. Len(reader'.got) = next /\ \A k \in 1 .. next : reader'.got[k] = parts[k]
        BY <3>2, <3>3, <4>1, <4>3
      <4> QED BY <1>1, <3>1, <3>2, <4>1, <4>3, <4>4 DEF ReaderInStep, Sound, Whole
    <3>5. CASE ~(next <= Parts)
      <4>1. reader' = [reader EXCEPT !.done = TRUE] /\ Len(reader.got) = Parts
        BY <3>1, <3>2, <3>5
      <4> QED BY <1>1, <3>1, <3>2, <4>1 DEF ReaderInStep, Sound, Whole
    <3> QED BY <3>4, <3>5
  <2>3. CASE ReaderCloses
    <3>1. reader' = Idle
      BY <2>3 DEF ReaderCloses
    <3> QED BY <3>1 DEF Idle, ReaderInStep
  <2> QED BY <2>1, <2>2, <2>3 DEF Reading
<1>3. TypeOK'
  BY <1>1, <1>2 DEF IInv, TypeOK
<1>4. NamesApart'
  BY <1>1, <1>2 DEF IInv, NamesApart
<1>5. \A q \in Pids : WriterInStep(q)'
  BY <1>1, WriterUnmoved DEF IInv
<1>6. /\ (status # None => Sound(status))' /\ Alone' /\ Truthful' /\ Leftovers' /\ OneServed'
  BY <1>1 DEF IInv, Sound, Whole, Alone, Up, Truthful, Leftovers, OneServed
<1> QED BY <1>2, <1>3, <1>4, <1>5, <1>6 DEF IInv

-----------------------------------------------------------------------------
(* The theorems *)

LEMMA StutterIInv ==
  ASSUME IInv, UNCHANGED vars
  PROVE  IInv'
  BY DEF IInv, vars, TypeOK, NamesApart, Sound, Whole, WriterInStep, Document, ReaderInStep,
         Alone, Up, Truthful, Leftovers, OneServed

LEMMA NextIInv ==
  ASSUME IInv, [Next]_vars
  PROVE  IInv'
<1>1. ASSUME NEW p \in Pids, NEW value \in Values, Mutate(p, value) PROVE IInv'
  BY <1>1, MutateIInv
<1>2. ASSUME NEW p \in Pids, Writing(p) PROVE IInv'
  BY <1>2, OpenTmpIInv, WritePartIInv, FsyncIInv, RenameIInv, WriteFailsIInv DEF Writing
<1>3. ASSUME NEW p \in Pids, Living(p) PROVE IInv'
  BY <1>3, StartIInv, UnlinkSocketIInv, BindIInv, ListenIInv, LeaveIInv, CleanupIInv DEF Living
<1>4. ASSUME NEW p \in Pids, Kill(p) PROVE IInv'
  BY <1>4, KillIInv
<1> QED
  BY <1>1, <1>2, <1>3, <1>4, PowerCutIInv, ReadingIInv, StutterIInv DEF Next

\* The names stay apart and only whole files are published, in every behaviour
\* of any number of daemons (StateEngine.cpp:140-206).
THEOREM FilesInvariant == Spec => []IInv
<1> QED BY InitIInv, NextIInv, PTL DEF Spec

\* Every variable of StatusFile keeps its type.
THEOREM FilesTyped == Spec => []TypeOK
<1>1. IInv => TypeOK
  BY DEF IInv
<1> QED BY <1>1, FilesInvariant, PTL

\* No reader ever gets a torn status.json, whatever dies when
\* (StateEngine.cpp:140-206).
THEOREM ReadersSeeWholeFiles == Spec => []NeverTorn
<1>1. IInv => NeverTorn
  <2> SUFFICES ASSUME IInv, reader.done
               PROVE  /\ Len(reader.got) = Parts
                      /\ \A k \in 1 .. Parts : reader.got[k] = reader.got[1]
    BY DEF NeverTorn
  <2>1. reader.file # None
    BY DEF IInv, ReaderInStep, Idle
  <2>2. /\ Len(reader.got) = Parts /\ Sound(reader.file) /\ 1 \in 1 .. Parts
        /\ \A k \in 1 .. Parts : reader.got[k] = files[reader.file].parts[k]
    BY <2>1, StatusFileAssumption DEF IInv, ReaderInStep
  <2> QED BY <2>2 DEF Sound, Whole
<1> QED BY <1>1, FilesInvariant, PTL

\* A daemon that is alone has its own last state in status.json
\* (StateEngine.cpp:103-206).
THEOREM StatusIsTrue == Spec => []Truthful
<1>1. IInv => Truthful
  BY DEF IInv
<1> QED BY <1>1, FilesInvariant, PTL

\* Only a kill leaves a temporary file behind (StateEngine.cpp:118-203).
THEOREM NoLeftovers == Spec => []Leftovers
<1>1. IInv => Leftovers
  BY DEF IInv
<1> QED BY <1>1, FilesInvariant, PTL

\* A daemon that is alone can bind the path and keeps it (IpcServer.cpp:141-228).
THEOREM PathIsServed == Spec => []OneServed
<1>1. IInv => OneServed
  BY DEF IInv
<1> QED BY <1>1, FilesInvariant, PTL
=============================================================================
