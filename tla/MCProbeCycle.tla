---------------------------- MODULE MCProbeCycle ----------------------------
(***************************************************************************)
(* Three addresses for TLC: one whose device answers the first request,    *)
(* one that is asleep until the last request of the aggressive poll, and   *)
(* one that never has to answer, and answers when it likes.                *)
(***************************************************************************)
EXTENDS ProbeCycle

CONSTANTS prompt, sleepy, silent

MCIP == {prompt, sleepy, silent}

MCWake ==
    [d \in MCIP |-> CASE d = prompt -> 1
                      [] d = sleepy -> Retries + AggrRetries
                      [] d = silent -> Retries + AggrRetries + 1]
=============================================================================
