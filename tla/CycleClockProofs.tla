--------------------------- MODULE CycleClockProofs ---------------------------
(***************************************************************************)
(* Within the budget, and for all settings, no sleep is called with a      *)
(* negative number, and the clock of the monitor is exact.                 *)
(***************************************************************************)
EXTENDS CycleClock, TLAPS

(* Whatever the configuration file says, the settings that                 *)
(* set_global_constants() leaves (main.c:128-152) are usable.              *)
LEMMA SettingsArePositive ==
    /\ Retries \in Nat \ {0} /\ Timeout \in Nat \ {0}
    /\ AggrRetries \in Nat \ {0} /\ AggrTimeout \in Nat \ {0}
    /\ ProbeTimeout \in Nat \ {0}
<1>1. ASSUME NEW key, NEW default \in Nat \ {0}
      PROVE  Setting(key, default) \in Nat \ {0}
  BY ConfigAssumption DEF Setting, IntFromConfig
<1> QED BY <1>1 DEF Retries, Timeout, AggrRetries, AggrTimeout, ProbeTimeout

(* sleep() gets the int that it was given if that is not negative.         *)
LEMMA UnsignedIsSame ==
    ASSUME NEW n \in Nat, n < Wrap
    PROVE  Unsigned(n) = n
BY WrapAssumption DEF Unsigned

(* The arithmetic of one more round.                                       *)
LEMMA OneMoreRound ==
    ASSUME NEW n \in Nat, NEW period \in Nat
    PROVE  (n + 1) * period = n * period + period
OBVIOUS

(* Fewer rounds take less time.                                            *)
LEMMA NoMoreThan ==
    ASSUME NEW n \in Nat, NEW m \in Nat, NEW period \in Nat, n <= m
    PROVE  n * period <= m * period
OBVIOUS

(* What is less in each part is less as a whole.                           *)
LEMMA SumsAreOrdered ==
    \A a, b, c, d \in Int : a <= c /\ b <= d => a + b <= c + d
OBVIOUS

(* What the rounds have used is a number of seconds.                       *)
LEMMA UsedIsNat == TypeOK => RoundsUsed \in Nat
<1> SUFFICES ASSUME TypeOK PROVE RoundsUsed \in Nat
  OBVIOUS
<1>1. /\ round * (Timeout + Slack) \in Nat
      /\ Retries * (Timeout + Slack) \in Nat
      /\ round * (AggrTimeout + Slack) \in Nat
  BY SettingsArePositive, DurationsAssumption DEF TypeOK
<1> QED BY <1>1 DEF RoundsUsed

(* A round uses its timeout and the slack of one sleep.                    *)
LEMMA UsedByRound ==
    ASSUME TypeOK, round' = round + 1, UNCHANGED phase
    PROVE  RoundsUsed' = RoundsUsed + TimeoutOf(phase) + Slack
<1>1. /\ (round + 1) * (Timeout + Slack)
           = round * (Timeout + Slack) + (Timeout + Slack)
      /\ (round + 1) * (AggrTimeout + Slack)
           = round * (AggrTimeout + Slack) + (AggrTimeout + Slack)
  BY OneMoreRound, SettingsArePositive, DurationsAssumption DEF TypeOK
<1>2. /\ round * (Timeout + Slack) \in Nat
      /\ Retries * (Timeout + Slack) \in Nat
      /\ round * (AggrTimeout + Slack) \in Nat
  BY SettingsArePositive, DurationsAssumption DEF TypeOK
<1> QED BY <1>1, <1>2, SettingsArePositive, DurationsAssumption
        DEF TypeOK, RoundsUsed, TimeoutOf

(* The rounds of a cycle together stay within the longest cycle.           *)
LEMMA UsedAtMost ==
    ASSUME TypeOK, round <= RoundsOf(phase)
    PROVE  /\ RoundsUsed <= LongestCycle - 2 * MaxQuery
           /\ phase = "normal" => RoundsUsed <= Retries * (Timeout + Slack)
<1>1. phase = "normal" =>
         round * (Timeout + Slack) <= Retries * (Timeout + Slack)
  BY NoMoreThan, SettingsArePositive, DurationsAssumption DEF TypeOK, RoundsOf
<1>2. phase = "aggressive" =>
         round * (AggrTimeout + Slack) <= AggrRetries * (AggrTimeout + Slack)
  BY NoMoreThan, SettingsArePositive, DurationsAssumption DEF TypeOK, RoundsOf
<1>3. /\ round * (Timeout + Slack) \in Nat
      /\ Retries * (Timeout + Slack) \in Nat
      /\ round * (AggrTimeout + Slack) \in Nat
      /\ AggrRetries * (AggrTimeout + Slack) \in Nat
  BY SettingsArePositive, DurationsAssumption DEF TypeOK
<1> QED
  BY <1>1, <1>2, <1>3, DurationsAssumption
     DEF TypeOK, RoundsUsed, LongestCycle

(* The longest cycle is a number of seconds.                               *)
LEMMA BudgetIsNat == LongestCycle \in Nat
<1>1.
      /\ Retries * (Timeout + Slack) \in Nat
      /\ AggrRetries * (AggrTimeout + Slack) \in Nat
  BY SettingsArePositive, DurationsAssumption
<1> QED BY <1>1, DurationsAssumption DEF LongestCycle

(* main() enters its loop with the invariant.                              *)
THEOREM InitEstablishes == Init => IInv
<1> SUFFICES ASSUME Init PROVE IInv
  OBVIOUS
<1>1. 0 \in 0..(Wrap - 1) /\ 0 \in 0..MaxShift
  BY SettingsArePositive, WrapAssumption, DurationsAssumption
<1>2. TypeOK
  <2>1. used \in 0..MaxShift /\ shift \in Int /\ nap \in 0..(Wrap - 1)
    BY <1>1 DEF Init
  <2>2. round \in Nat /\ elapsed \in Nat /\ inRound \in Nat
    BY DEF Init
  <2> QED BY <2>1, <2>2 DEF Init, TypeOK
<1>3. WithinBudget /\ RoundsLastTheirTimeout /\ CyclesLastProbeTimeout
  BY SettingsArePositive DEF Init, WithinBudget, RoundsOf, RoundsLastTheirTimeout,
                            CyclesLastProbeTimeout
<1> QED BY <1>2, <1>3 DEF IInv

(* Within the budget every step of main() and poll() preserves the         *)
(* invariant.                                                              *)
THEOREM InductiveStep == Budget /\ IInv /\ [Next]_vars => IInv'
<1> SUFFICES ASSUME Budget, IInv, [Next]_vars PROVE IInv'
  OBVIOUS
<1> USE SettingsArePositive, DurationsAssumption DEF IInv
<1>0. /\ TimeoutOf(phase) \in Nat \ {0} /\ RoundsUsed \in Nat
      /\ LongestCycle \in Nat /\ \A by \in Shift : by \in Int
  BY UsedIsNat, BudgetIsNat DEF TimeoutOf, Shift
<1>1. ASSUME NEW took \in 0..MaxQuery, NEW by \in Shift, Fetch(took, by)
      PROVE  IInv'
  <2>1. /\ used' \in 0..MaxShift /\ shift' \in Int /\ -used' <= shift' /\ shift' <= used'
        /\ shift' = by /\ by <= used'
    BY <1>1 DEF Fetch, SetClock, Shift
  <2>2. TypeOK'
    BY <1>1, <2>1 DEF TypeOK, Fetch
  <2>3. WithinBudget'
    <3>1. RoundsUsed' = 0
      BY <1>1 DEF Fetch, RoundsUsed
    <3>2. elapsed' + shift' <= MaxQuery + used'
      <4>1. elapsed' \in Nat /\ elapsed' <= MaxQuery
        BY <1>1 DEF Fetch
      <4>2. shift' \in Int /\ used' \in Int /\ shift' <= used'
        BY <2>1
      <4>3. elapsed' \in Int /\ MaxQuery \in Int
        BY <4>1
      <4> QED BY <4>1, <4>2, <4>3, SumsAreOrdered
    <3>3. round' <= RoundsOf(phase)'
      BY <1>1 DEF Fetch, RoundsOf
    <3>4. elapsed' + shift' <= MaxQuery + RoundsUsed' + used'
      <4>1. MaxQuery + RoundsUsed' + used' = MaxQuery + used'
        BY <2>1, <3>1
      <4> QED BY <3>2, <4>1
    <3> QED BY <1>1, <2>1, <3>3, <3>4 DEF Fetch, WithinBudget
  <2>4. (RoundsLastTheirTimeout /\ CyclesLastProbeTimeout)'
    BY <1>1 DEF Fetch, RoundsLastTheirTimeout, CyclesLastProbeTimeout
  <2> QED BY <2>2, <2>3, <2>4
<1>2. ASSUME NEW took \in 0..MaxSend, NEW by \in Shift, SendRound(took, by)
      PROVE  IInv'
  <2>1. /\ used' \in 0..MaxShift /\ shift' \in Int /\ -used' <= shift' /\ shift' <= used'
        /\ -used' <= by /\ by <= used' /\ shift' = shift + by /\ used' >= used
    BY <1>2 DEF TypeOK, WithinBudget, SendRound, SetClock, Shift
  <2>2. /\ TimeoutOf(phase) - (took + by) \in Nat
        /\ TimeoutOf(phase) - (took + by) < Wrap
    BY <2>1, WrapAssumption DEF Budget, TypeOK, TimeoutOf, Shift
  <2>3. nap' = TimeoutOf(phase) - (took + by)
    BY <1>2, <2>2, UnsignedIsSame DEF SendRound
  <2>4. TypeOK'
    BY <1>2, <2>1, <2>2, <2>3, WrapAssumption DEF TypeOK, SendRound
  <2>5. WithinBudget'
    <3>1. RoundsUsed' = RoundsUsed /\ TimeoutOf(phase)' = TimeoutOf(phase)
      BY <1>2 DEF SendRound, RoundsUsed, TimeoutOf
    <3>2. elapsed + shift <= MaxQuery + RoundsUsed + used
      BY <1>2 DEF SendRound, WithinBudget
    <3>3. elapsed' + shift' + nap'
             <= MaxQuery + RoundsUsed + TimeoutOf(phase) + used'
      BY <1>0, <1>2, <2>1, <2>3, <3>2 DEF SendRound, TypeOK
    <3>4. round' < RoundsOf(phase)' /\ round' <= RoundsOf(phase)'
      BY <1>2 DEF SendRound, MoreRounds, RoundsOf, TypeOK
    <3> QED BY <1>2, <2>1, <3>1, <3>3, <3>4 DEF SendRound, WithinBudget
  <2>6. (RoundsLastTheirTimeout /\ CyclesLastProbeTimeout)'
    <3>1. TimeoutOf(phase)' = TimeoutOf(phase)
      BY <1>2 DEF SendRound, TimeoutOf
    <3>2. inRound' + nap' = TimeoutOf(phase) - by
      BY <1>0, <1>2, <2>3 DEF SendRound
    <3>3. /\ inRound' + nap' >= TimeoutOf(phase) - used'
          /\ inRound' + nap' <= TimeoutOf(phase) + used'
      BY <1>0, <2>1, <3>2
    <3> QED BY <1>2, <3>1, <3>3
            DEF SendRound, RoundsLastTheirTimeout, CyclesLastProbeTimeout
  <2> QED BY <2>4, <2>5, <2>6
<1>3. ASSUME NEW late \in 0..Slack, NEW left \in BOOLEAN, NEW by \in Shift,
             WakeInRound(late, left, by)
      PROVE  IInv'
  <2>1. /\ used' \in 0..MaxShift /\ shift' \in Int /\ -used' <= shift' /\ shift' <= used'
        /\ shift' = shift + by /\ used' - by >= used
    BY <1>3 DEF TypeOK, WithinBudget, WakeInRound, SetClock, Shift
  <2>2. TypeOK'
    BY <1>3, <2>1, WrapAssumption DEF TypeOK, WakeInRound
  <2>3. elapsed' + shift'
           <= MaxQuery + RoundsUsed + TimeoutOf(phase) + Slack + used'
    <3>1. elapsed + shift + nap
             <= MaxQuery + RoundsUsed + TimeoutOf(phase) + used
      BY <1>3 DEF WakeInRound, WithinBudget
    <3>2. elapsed' = elapsed + nap + late /\ nap \in Int
      BY <1>3, WrapAssumption DEF WakeInRound, TypeOK
    <3> QED BY <1>0, <2>1, <3>1, <3>2 DEF TypeOK
  <2>4. elapsed' + shift' <= MaxQuery + RoundsUsed' + used'
    BY <1>3, <2>1, <2>3, UsedByRound, UsedIsNat
       DEF WakeInRound, TypeOK, TimeoutOf
  <2>5. WithinBudget'
    <3>1. round' <= RoundsOf(phase)'
      BY <1>3 DEF WakeInRound, WithinBudget, RoundsOf, TypeOK
    <3> QED BY <1>3, <2>1, <2>4, <3>1 DEF WakeInRound, WithinBudget
  <2>6. (RoundsLastTheirTimeout /\ CyclesLastProbeTimeout)'
    BY <1>3 DEF WakeInRound, RoundsLastTheirTimeout, CyclesLastProbeTimeout
  <2> QED BY <2>2, <2>5, <2>6
<1>4. CASE PollAggressively
  <2>1. TypeOK'
    BY <1>4 DEF TypeOK, PollAggressively
  <2>2. elapsed + shift <= MaxQuery + Retries * (Timeout + Slack) + used
    BY <1>4, UsedAtMost, UsedIsNat DEF TypeOK, PollAggressively, WithinBudget
  <2>3. RoundsUsed' = Retries * (Timeout + Slack)
    BY <1>4 DEF PollAggressively, RoundsUsed
  <2>4. WithinBudget'
    BY <1>4, <2>2, <2>3 DEF PollAggressively, WithinBudget, RoundsOf
  <2>5. (RoundsLastTheirTimeout /\ CyclesLastProbeTimeout)'
    BY <1>4 DEF PollAggressively, RoundsLastTheirTimeout, CyclesLastProbeTimeout
  <2> QED BY <2>1, <2>4, <2>5
<1>5. CASE EndPolling
  <2>1. TypeOK'
    BY <1>5 DEF TypeOK, EndPolling
  <2>2. elapsed + shift <= LongestCycle - MaxQuery + used
    BY <1>5, UsedAtMost, UsedIsNat, BudgetIsNat
       DEF TypeOK, EndPolling, WithinBudget
  <2>3. WithinBudget'
    BY <1>5, <2>2 DEF EndPolling, WithinBudget, RoundsOf, LongestCycle
  <2>4. (RoundsLastTheirTimeout /\ CyclesLastProbeTimeout)'
    BY <1>5 DEF EndPolling, RoundsLastTheirTimeout, CyclesLastProbeTimeout
  <2> QED BY <2>1, <2>3, <2>4
<1>6. ASSUME NEW took \in 0..MaxQuery, NEW by \in Shift, Report(took, by)
      PROVE  IInv'
  <2>1. /\ used' \in 0..MaxShift /\ shift' \in Int /\ -used' <= shift' /\ shift' <= used'
        /\ shift' = shift + by /\ used' - by >= used
    BY <1>6 DEF TypeOK, WithinBudget, Report, SetClock, Shift
  <2>2. /\ elapsed' = elapsed + took /\ elapsed' \in Nat
        /\ elapsed' + shift' <= LongestCycle + used'
    <3>1. elapsed + shift <= LongestCycle - MaxQuery + used
      BY <1>6 DEF Report, WithinBudget
    <3>2. elapsed' = elapsed + took
      BY <1>6 DEF Report
    <3> QED BY <1>0, <2>1, <3>1, <3>2 DEF TypeOK
  <2>3. /\ ProbeTimeout - (elapsed' + shift') \in Nat
        /\ ProbeTimeout - (elapsed' + shift') < Wrap
    BY <2>1, <2>2, WrapAssumption, BudgetIsNat DEF Budget
  <2>4. nap' = ProbeTimeout - (elapsed' + shift')
    BY <1>6, <2>3, UnsignedIsSame DEF Report
  <2>5. TypeOK'
    BY <1>6, <2>1, <2>2, <2>3, <2>4, WrapAssumption DEF TypeOK, Report
  <2>6. WithinBudget'
    BY <1>6, <2>1 DEF Report, WithinBudget, RoundsOf
  <2>7. (RoundsLastTheirTimeout /\ CyclesLastProbeTimeout)'
    BY <1>6, <2>1, <2>2, <2>4
       DEF TypeOK, Report, RoundsLastTheirTimeout, CyclesLastProbeTimeout
  <2> QED BY <2>5, <2>6, <2>7
<1>7. ASSUME NEW late \in 0..Slack, WakeInCycle(late) PROVE IInv'
  <2>1. TypeOK'
    BY <1>7, WrapAssumption DEF TypeOK, WakeInCycle
  <2>2. (WithinBudget /\ RoundsLastTheirTimeout /\ CyclesLastProbeTimeout)'
    BY <1>7 DEF WakeInCycle, WithinBudget, RoundsOf, RoundsLastTheirTimeout,
                CyclesLastProbeTimeout
  <2> QED BY <2>1, <2>2
<1>8. CASE UNCHANGED vars
  BY <1>8 DEF vars, TypeOK, WithinBudget, RoundsOf, RoundsUsed,
              RoundsLastTheirTimeout, CyclesLastProbeTimeout, TimeoutOf
<1> QED BY <1>1, <1>2, <1>3, <1>4, <1>5, <1>6, <1>7, <1>8 DEF Next

(* Within the budget the invariant holds for ever.                         *)
THEOREM Invariance == ASSUME Budget PROVE Spec => []IInv
<1>1. IInv /\ [Next]_vars => IInv'
  BY Budget, InductiveStep
<1> QED BY InitEstablishes, <1>1, PTL DEF Spec

(* Within the budget every round lasts its TIMEOUT or AGGR_TIMEOUT         *)
(* (main.c:314-315), give or take what the clock was set.                  *)
THEOREM RoundsAreExact == ASSUME Budget PROVE Spec => []RoundsLastTheirTimeout
<1>1. IInv => RoundsLastTheirTimeout
  BY DEF IInv
<1> QED BY Budget, Invariance, <1>1, PTL

(* Within the budget every cycle lasts PROBE_TIMEOUT (main.c:213-214),     *)
(* however many of its rounds were needed, give or take the same.          *)
THEOREM CyclesAreExact == ASSUME Budget PROVE Spec => []CyclesLastProbeTimeout
<1>1. IInv => CyclesLastProbeTimeout
  BY DEF IInv
<1> QED BY Budget, Invariance, <1>1, PTL
=============================================================================
