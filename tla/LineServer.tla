----------------------------- MODULE LineServer -----------------------------
(***************************************************************************)
(* What the IPC server promises each client, without buffers, polling or   *)
(* partial reads: lines are executed once each and in the order in which   *)
(* they were sent, and the client hears the answers in that order, until   *)
(* the conversation is over.                                               *)
(***************************************************************************)
EXTENDS Naturals, Sequences, SequencesExt

CONSTANTS
    Clients,
    Count,       \* client -> how many lines it may send
    AnswerSize   \* pieces of an answer

VARIABLES
    said,       \* client -> how many complete lines it sent
    executed,   \* client -> its lines that were executed
    heard,      \* client -> the pieces of answers that it received
    over        \* client -> the server has turned away

vars == <<said, executed, heard, over>>

Init ==
    /\ said = [c \in Clients |-> 0]
    /\ executed = [c \in Clients |-> <<>>]
    /\ heard = [c \in Clients |-> <<>>]
    /\ over = [c \in Clients |-> FALSE]

\* The first n lines of a client.
FirstLines(n) == [i \in 1 .. n |-> i]

\* The answer to the n-th line; 0 stands for a line that is refused.
Answer(n) == [k \in 1 .. AnswerSize |-> <<n, k>>]

\* All that a client may hear by now: a refusal may follow what was executed.
Answers(c) == FlattenSeq([i \in DOMAIN executed[c] |-> Answer(executed[c][i])]) \o Answer(0)

Say(c) ==
    /\ \E n \in said[c] + 1 .. Count[c] : said' = [said EXCEPT ![c] = n]
    /\ UNCHANGED <<executed, heard, over>>

Execute(c) ==
    /\ ~over[c]
    /\ \E n \in Len(executed[c]) + 1 .. said[c] :
           executed' = [executed EXCEPT ![c] = FirstLines(n)]
    /\ over' \in {over, [over EXCEPT ![c] = TRUE]}
    /\ UNCHANGED <<said, heard>>

Hear(c) ==
    /\ \E n \in Len(heard[c]) + 1 .. Len(Answers(c)) :
           heard' = [heard EXCEPT ![c] = SubSeq(Answers(c), 1, n)]
    /\ IsPrefix(heard[c], heard'[c])
    /\ UNCHANGED <<said, executed, over>>

End(c) ==
    /\ over' = [over EXCEPT ![c] = TRUE]
    /\ UNCHANGED <<said, executed, heard>>

\* The server turns away from all who came to it.
EndAll ==
    /\ \E gone \in SUBSET Clients : over' = [c \in Clients |-> over[c] \/ c \in gone]
    /\ UNCHANGED <<said, executed, heard>>

Next ==
    \/ \E c \in Clients : Say(c) \/ Execute(c) \/ Hear(c) \/ End(c)
    \/ EndAll

Spec == Init /\ [][Next]_vars
=============================================================================
