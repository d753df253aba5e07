------------------------------ MODULE MCMonitor ------------------------------
(* Two devices for TLC: one that wakes for the last request of the         *)
(* aggressive poll, and one that never has to answer.                      *)
EXTENDS Monitor

CONSTANTS sleepy, silent

MCIP == {sleepy, silent}

MCWake == [d \in MCIP |-> IF d = sleepy THEN Retries + AggrRetries
                                        ELSE Retries + AggrRetries + 1]
=============================================================================
