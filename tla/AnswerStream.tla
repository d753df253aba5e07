---------------------------- MODULE AnswerStream ----------------------------
(***************************************************************************)
(* What listening for ARP replies promises: the replies that are heard at  *)
(* all are entered into the table one by one, each address with the MAC    *)
(* that came with it, in the order in which they arrived; nothing else     *)
(* gets into the table.  It is emptied between polls, which loses none of  *)
(* the replies that are still on their way, and when the process ends,     *)
(* which does.                                                             *)
(***************************************************************************)
EXTENDS Sequences

CONSTANTS Address, Mac, None

VARIABLES
    pending,   \* the replies that have been heard, in order
    table      \* the MAC of each address, or None

vars == <<pending, table>>

Answer == [ip : Address, mac : Mac]

Init ==
    /\ pending = <<>>
    /\ table = [a \in Address |-> None]

Hear(r) ==
    /\ pending' = Append(pending, r)
    /\ UNCHANGED table

Enter ==
    /\ pending # <<>>
    /\ table' = [table EXCEPT ![Head(pending).ip] = Head(pending).mac]
    /\ pending' = Tail(pending)

Clear ==
    /\ table' = [a \in Address |-> None]
    /\ UNCHANGED pending

Stop == Init'

Next ==
    \/ \E r \in Answer : Hear(r)
    \/ Enter
    \/ Clear
    \/ Stop

Spec == Init /\ [][Next]_vars
=============================================================================
