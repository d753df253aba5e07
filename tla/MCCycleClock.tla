---------------------------- MODULE MCCycleClock ----------------------------
(* Configurations to check the clock of the monitor with.  Each leaves one *)
(* setting out, and one is not usable: both get their defaults.            *)
EXTENDS CycleClock

(* Two rounds of 3 s and five of 5 s take 38 s with their slack, two queries *)
(* two more; one second is left for setting the clock.                     *)
ExactBudget ==
    [RETRIES |-> 2, TIMEOUT |-> 3, AGGR_RETRIES |-> 0, PROBE_TIMEOUT |-> 41]

ShortPeriod == [ExactBudget EXCEPT !.PROBE_TIMEOUT = 4]
=============================================================================
