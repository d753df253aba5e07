----------------------------- MODULE CycleClock -----------------------------
(***************************************************************************)
(* How long main() and poll() (src/src/main.c) sleep.  Every sleep is what *)
(* is left of a period: the timeout of a round after its requests have     *)
(* been sent, PROBE_TIMEOUT after a cycle has been reported.  What is left *)
(* is computed as an int; sleep() takes it as an unsigned int, so that a   *)
(* period which is already over becomes a sleep of more than a century.    *)
(*                                                                         *)
(* Time is counted in seconds.  time(0) is the wall clock, which may be    *)
(* set ahead or back while the monitor runs; sleep() is not affected by    *)
(* that.  Only durations are kept, as they are and not as time(0) tells.   *)
(* Who answers is left open: after any round the list of devices may be    *)
(* empty.                                                                  *)
(***************************************************************************)
EXTENDS Integers

CONSTANTS
    Config,     \* the integers that the configuration file sets, by name
    Wrap,       \* the number of values of an unsigned int
    MaxSend,    \* bound on the seconds that it takes to send a round
    MaxQuery,   \* bound on those that the database takes for the devices,
                \* and again for a report
    Slack,      \* bound on those by which a sleep is late
    MaxShift    \* bound on those by which the clock is set in a cycle

ASSUME ConfigAssumption == \A key \in DOMAIN Config : Config[key] \in Int

(* get_int_from_config().                                                  *)
IntFromConfig(key) == IF key \in DOMAIN Config THEN Config[key] ELSE -1

(* set_global_constants(): a setting that is missing, zero, negative or    *)
(* not a number leaves the default in place.                               *)
Setting(key, default) ==
    IF IntFromConfig(key) > 0 THEN IntFromConfig(key) ELSE default

Retries      == Setting("RETRIES", 5)
Timeout      == Setting("TIMEOUT", 10)
AggrRetries  == Setting("AGGR_RETRIES", 5)
AggrTimeout  == Setting("AGGR_TIMEOUT", 5)
ProbeTimeout == Setting("PROBE_TIMEOUT", 300)

ASSUME WrapAssumption ==
    /\ Wrap \in Nat
    /\ Timeout + MaxShift < Wrap /\ AggrTimeout + MaxShift < Wrap
    /\ ProbeTimeout + MaxShift < Wrap
ASSUME DurationsAssumption ==
    MaxSend \in Nat /\ MaxQuery \in Nat /\ Slack \in Nat /\ MaxShift \in Nat

VARIABLES
    pc,       \* where the main thread is
    phase,    \* which of the two polls of the cycle is running
    round,    \* the loop counter i of poll()
    listed,   \* num_devices > 0
    elapsed,  \* the seconds since main() took its start_time
    inRound,  \* the seconds since poll() took its start_time
    shift,    \* by how much the clock is ahead of what it was at the
              \* start_time of main()
    used,     \* by how much it was set in this cycle, both ways (history)
    nap       \* the argument that sleep() was called with

vars == <<pc, phase, round, listed, elapsed, inRound, shift, used, nap>>

TypeOK ==
    /\ pc \in {"fetch", "poll", "nap", "report", "idle"}
    /\ phase \in {"normal", "aggressive"}
    /\ round \in Nat
    /\ listed \in BOOLEAN
    /\ elapsed \in Nat /\ inRound \in Nat
    /\ used \in 0..MaxShift /\ shift \in Int
    /\ nap \in 0..(Wrap - 1)

Init ==
    /\ pc = "fetch" /\ phase = "normal" /\ round = 0 /\ listed = FALSE
    /\ elapsed = 0 /\ inRound = 0 /\ shift = 0 /\ used = 0 /\ nap = 0

RoundsOf(p) == IF p = "normal" THEN Retries ELSE AggrRetries

TimeoutOf(p) == IF p = "normal" THEN Timeout ELSE AggrTimeout

(* int to unsigned int.                                                    *)
Unsigned(n) == n % Wrap

Shift == (-MaxShift)..MaxShift

(* Somebody sets the clock, or by = 0, when it was set before by shift0 in *)
(* a cycle that has used used0.                                            *)
SetClock(shift0, used0, by) ==
    /\ shift' = shift0 + by
    /\ used' = used0 + (IF by < 0 THEN -by ELSE by)
    /\ used' <= MaxShift

MoreRounds == round < RoundsOf(phase) /\ listed

(* start_time = time(0); get_devices_to_probe().                           *)
Fetch(took, by) ==
    /\ pc = "fetch"
    /\ SetClock(0, 0, by)
    /\ elapsed' = took
    /\ listed' = TRUE /\ phase' = "normal" /\ round' = 0
    /\ pc' = "poll"
    /\ UNCHANGED <<inRound, nap>>

(* The time that sending took is not subtracted: a mutation.               *)
SendRoundAndNapInFull(took, by) ==
    /\ pc = "poll" /\ MoreRounds
    /\ SetClock(shift, used, by)
    /\ inRound' = took /\ elapsed' = elapsed + took
    /\ nap' = Unsigned(TimeoutOf(phase))
    /\ pc' = "nap"
    /\ UNCHANGED <<phase, round, listed>>

(* A round is sent and joined, and sleep() is called with what is left.    *)
SendRound(took, by) ==
    /\ pc = "poll" /\ MoreRounds
    /\ SetClock(shift, used, by)
    /\ inRound' = took /\ elapsed' = elapsed + took
    /\ nap' = Unsigned(TimeoutOf(phase) - (took + by))
    /\ pc' = "nap"
    /\ UNCHANGED <<phase, round, listed>>

(* sleep() returns; some of the devices have answered, or all of them.     *)
WakeInRound(late, left, by) ==
    /\ pc = "nap"
    /\ SetClock(shift, used, by)
    /\ elapsed' = elapsed + nap + late
    /\ inRound' = inRound + nap + late
    /\ round' = round + 1
    /\ listed' = left
    /\ pc' = "poll"
    /\ UNCHANGED <<phase, nap>>

PollAggressively ==
    /\ pc = "poll" /\ ~MoreRounds
    /\ phase = "normal" /\ listed
    /\ phase' = "aggressive" /\ round' = 0
    /\ UNCHANGED <<pc, listed, elapsed, inRound, shift, used, nap>>

EndPolling ==
    /\ pc = "poll" /\ ~MoreRounds
    /\ phase = "aggressive" \/ ~listed
    /\ pc' = "report"
    /\ UNCHANGED <<phase, round, listed, elapsed, inRound, shift, used, nap>>

(* The start_time of the last round, not that of the cycle: a mutation.    *)
ReportByRound(took, by) ==
    /\ pc = "report"
    /\ SetClock(shift, used, by)
    /\ elapsed' = elapsed + took
    /\ nap' = Unsigned(ProbeTimeout - (inRound + took + shift'))
    /\ pc' = "idle"
    /\ UNCHANGED <<phase, round, listed, inRound>>

(* The report, reset_probe(), and sleep(probe_sleep) is called.            *)
Report(took, by) ==
    /\ pc = "report"
    /\ SetClock(shift, used, by)
    /\ elapsed' = elapsed + took
    /\ nap' = Unsigned(ProbeTimeout - (elapsed' + shift'))
    /\ pc' = "idle"
    /\ UNCHANGED <<phase, round, listed, inRound>>

WakeInCycle(late) ==
    /\ pc = "idle"
    /\ elapsed' = elapsed + nap + late
    /\ pc' = "fetch"
    /\ UNCHANGED <<phase, round, listed, inRound, shift, used, nap>>

Next ==
    \/ \E took \in 0..MaxQuery, by \in Shift : Fetch(took, by) \/ Report(took, by)
    \/ \E took \in 0..MaxSend, by \in Shift : SendRound(took, by)
    \/ \E late \in 0..Slack, left \in BOOLEAN, by \in Shift :
          WakeInRound(late, left, by)
    \/ PollAggressively
    \/ EndPolling
    \/ \E late \in 0..Slack : WakeInCycle(late)

Spec == Init /\ [][Next]_vars

-----------------------------------------------------------------------------
(* What a cycle may take at most before its final sleep.                   *)

LongestCycle ==
    2 * MaxQuery + Retries * (Timeout + Slack)
                 + AggrRetries * (AggrTimeout + Slack)

(* The condition on the settings, the load and the clock under which the   *)
(* sleeps are right.  Nothing in the program checks it: the settings are   *)
(* read one by one, and the time to send grows with the number of devices. *)
Budget ==
    /\ MaxSend + MaxShift <= Timeout /\ MaxSend + MaxShift <= AggrTimeout
    /\ LongestCycle + MaxShift <= ProbeTimeout

(* A round gives the devices that it asked its timeout to answer the first *)
(* of its requests: no more and no less, but for what the clock was set.   *)
RoundsLastTheirTimeout ==
    pc = "nap" =>
        /\ inRound + nap >= TimeoutOf(phase) - used
        /\ inRound + nap <= TimeoutOf(phase) + used

(* A cycle, its sleep included, takes PROBE_TIMEOUT seconds, however many  *)
(* rounds it needed; the clock can only lengthen or shorten it by what it  *)
(* was set, and never by the range of an unsigned int.                     *)
CyclesLastProbeTimeout ==
    pc = "idle" =>
        /\ elapsed + nap >= ProbeTimeout - used
        /\ elapsed + nap <= ProbeTimeout + used

-----------------------------------------------------------------------------
(* The inductive invariant: what time(0) shows of a cycle at most.         *)

RoundsUsed ==
    IF phase = "normal"
      THEN round * (Timeout + Slack)
      ELSE Retries * (Timeout + Slack) + round * (AggrTimeout + Slack)

WithinBudget ==
    /\ round <= RoundsOf(phase)
    /\ -used <= shift /\ shift <= used
    /\ pc = "poll" => elapsed + shift <= MaxQuery + RoundsUsed + used
    /\ pc = "nap" =>
          /\ round < RoundsOf(phase)
          /\ elapsed + shift + nap
                <= MaxQuery + RoundsUsed + TimeoutOf(phase) + used
    /\ pc = "report" => elapsed + shift <= LongestCycle - MaxQuery + used

IInv ==
    /\ TypeOK
    /\ WithinBudget
    /\ RoundsLastTheirTimeout
    /\ CyclesLastProbeTimeout

-----------------------------------------------------------------------------
(* "Reset the probe data structures for the next polling cycle"            *)
(* (main.c:210), whatever the settings: the next cycle comes in a period   *)
(* that the settings account for.                                          *)
NextCycleIsNear ==
    pc = "idle" =>
        elapsed + nap <= LongestCycle + ProbeTimeout
=============================================================================
