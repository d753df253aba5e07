----------------------------- MODULE MCSettings -----------------------------
(* Two good files, an empty one, and one for each parameter that may be    *)
(* missing (the asserted ones behave alike).                               *)
EXTENDS Settings

Plain == [has |-> Required, number |-> [PROBE_TIMEOUT |-> 60]]

Odd == [has |-> Required, number |-> [RETRIES |-> 0, TIMEOUT |-> 3]]

Empty == [has |-> {}, number |-> [key \in {} |-> 0]]

Files ==
    {Plain, Odd, Empty} \cup
    {[Plain EXCEPT !.has = Required \ {key}] :
        key \in {"SQLHOST", "SQLDB", "INTERFACE"}}
=============================================================================
