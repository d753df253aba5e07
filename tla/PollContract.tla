---------------------------- MODULE PollContract ----------------------------
(***************************************************************************)
(* What the monitor promises about one poll after another, whatever the    *)
(* threads and the network do: a poll has a fixed, nonempty set of         *)
(* subjects; it closes only when each of them has a verdict; the verdicts  *)
(* "up" are all given before the first "down"; each is given at most once; *)
(* and none is given outside a poll.  A subject may be given both: the     *)
(* promise does not say that a poll makes up its mind.                     *)
(***************************************************************************)
CONSTANT IP

VARIABLES
    open,     \* a poll is in progress
    subject,  \* the devices it is about
    verdict   \* the verdicts that it, or else the last one, has given

vars == <<open, subject, verdict>>

NoVerdicts == [d \in IP |-> {}]

Init ==
    /\ open = FALSE
    /\ subject = {}
    /\ verdict = NoVerdicts

Begin(S) ==
    /\ ~open
    /\ S # {}
    /\ open' = TRUE
    /\ subject' = S
    /\ verdict' = NoVerdicts

JudgeUp(d) ==
    /\ open
    /\ d \in subject
    /\ "up" \notin verdict[d]
    /\ \A e \in IP : "down" \notin verdict[e]
    /\ verdict' = [verdict EXCEPT ![d] = @ \cup {"up"}]
    /\ UNCHANGED <<open, subject>>

JudgeDown(d) ==
    /\ open
    /\ d \in subject
    /\ "down" \notin verdict[d]
    /\ verdict' = [verdict EXCEPT ![d] = @ \cup {"down"}]
    /\ UNCHANGED <<open, subject>>

Close ==
    /\ open
    /\ \A d \in subject : verdict[d] # {}
    /\ open' = FALSE
    /\ UNCHANGED <<subject, verdict>>

(* The process ends: the poll remains as incomplete as it is.              *)
Abort ==
    /\ open' = FALSE
    /\ subject' = {}
    /\ UNCHANGED verdict

Next ==
    \/ \E S \in SUBSET IP : Begin(S)
    \/ \E d \in IP : JudgeUp(d) \/ JudgeDown(d)
    \/ Close
    \/ Abort

Spec == Init /\ [][Next]_vars
=============================================================================
