-------------------------- MODULE RegistryContract --------------------------
(***************************************************************************)
(* What the cycle may take the registry of devices for: the last answer of *)
(* the database that had rows, in which the last row of a text counts.     *)
(* There are neither entries nor a heap; a cycle without such an answer    *)
(* has no devices to ask for, and the process is lost.                     *)
(***************************************************************************)
EXTENDS Naturals

CONSTANTS
    Id,       \* device ids
    Answers,  \* the sequences of rows that the database may answer with
    Hosts     \* the addresses under which somebody may be heard

VARIABLES
    answer,   \* the last answer with rows
    verdict,  \* the verdicts of the last cycle on each device
    lost      \* devices were asked for when there was no answer

vars == <<answer, verdict, lost>>

Init ==
    /\ answer = <<>>
    /\ verdict = [d \in Id |-> {}]
    /\ lost = FALSE

Load ==
    /\ ~lost
    /\ answer' \in Answers \ {<<>>}
    /\ UNCHANGED <<verdict, lost>>

(* The rows that no later row of their text takes over from.               *)
LastRows ==
    {k \in DOMAIN answer :
        \A j \in DOMAIN answer : answer[j].ip = answer[k].ip => j <= k}

Judge(hosts) ==
    /\ ~lost
    /\ answer # <<>>
    /\ verdict' =
         [d \in Id |->
            {v \in {"up", "down"} : \E k \in LastRows :
                answer[k].id = d /\ (v = "up" <=> answer[k].ip \in hosts)}]
    /\ UNCHANGED <<answer, lost>>

Lose ==
    /\ answer = <<>>
    /\ lost' = TRUE
    /\ UNCHANGED <<answer, verdict>>

Restart ==
    /\ answer' = <<>>
    /\ lost' = FALSE
    /\ UNCHANGED verdict

Next ==
    \/ Load
    \/ \E hosts \in SUBSET Hosts : Judge(hosts)
    \/ Lose
    \/ Restart

Spec == Init /\ [][Next]_vars
=============================================================================
