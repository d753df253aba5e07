---------------------------- MODULE MonitorProofs ----------------------------
(***************************************************************************)
(* Proofs about the polling cycle, for every set of addresses, every       *)
(* number of rounds and every behaviour of the devices, first by itself    *)
(* and then together with the statistics, for any MAC addresses and number *)
(* of polls.                                                               *)
(*                                                                         *)
(* IInv is the inductive invariant of the cycle; each of its properties    *)
(* follows from it, and so does that a cycle keeps the contract of a poll. *)
(* The invariant of the statistics is the one of DeviceStatsProofs.        *)
(***************************************************************************)
EXTENDS Monitor, FiniteSetTheorems, TLAPS

-----------------------------------------------------------------------------
(* The cycle by itself: ProbeCycle.                                        *)

(* The monitor enters its loop (main.c:188) with the invariant.            *)
THEOREM InitEstablishes == Init => IInv
BY RetriesAssumption, WakeAssumption
   DEF Init, IInv, TypeOK, LoopsInRange, Accounted, Requests, Asleep,
       Verdicts, EveryDeviceJudged, DownOnlyAfterAllProbes,
       AwakeDevicesAreUp, NoNeedlessProbe, Polling, Reporting, Locations,
       RoundsOf

(* Every step of the main thread, of the sending thread, of the listening  *)
(* thread and of the network preserves the invariant.                      *)
THEOREM Inductive == IInv /\ [Next]_vars => IInv'
<1> SUFFICES ASSUME IInv, [Next]_vars PROVE IInv'
  OBVIOUS
<1>1. ASSUME NEW found \in SUBSET IP, GetDevices(found) PROVE IInv'
  <2>1. TypeOK'
    BY <1>1 DEF IInv, GetDevices, TypeOK, Polling, Locations
  <2>2. LoopsInRange'
    BY <1>1, RetriesAssumption
       DEF GetDevices, LoopsInRange, RoundsOf, Polling, Reporting
  <2>3. Accounted'
    BY <1>1 DEF GetDevices, Accounted
  <2>4. Requests'
    BY <1>1 DEF IInv, GetDevices, TypeOK, Requests, SentBefore
  <2>5. Asleep'
    BY <1>1, WakeAssumption DEF IInv, GetDevices, TypeOK, Asleep, SentBefore
  <2>6. Verdicts'
    BY <1>1 DEF GetDevices, Verdicts
  <2>7. EveryDeviceJudged'
    BY <1>1 DEF GetDevices, EveryDeviceJudged
  <2>8. DownOnlyAfterAllProbes'
    BY <1>1 DEF GetDevices, DownOnlyAfterAllProbes
  <2>9. AwakeDevicesAreUp'
    BY <1>1 DEF GetDevices, AwakeDevicesAreUp
  <2>10. NoNeedlessProbe'
    BY <1>1, WakeAssumption DEF GetDevices, NoNeedlessProbe
  <2> QED BY <2>1, <2>2, <2>3, <2>4, <2>5, <2>6, <2>7, <2>8, <2>9, <2>10
             DEF IInv
<1>2. CASE StartRound
  <2>1. LoopsInRange'
    BY <1>2
       DEF IInv, StartRound, LoopsInRange, MoreRounds, pollVars, Polling,
           Reporting
  <2>2. Accounted'
    BY <1>2 DEF IInv, StartRound, Accounted, pollVars, Polling
  <2>3. Requests'
    BY <1>2 DEF IInv, StartRound, Requests, SentBefore, pollVars, netVars
  <2>4. Asleep'
    BY <1>2 DEF IInv, StartRound, Asleep, SentBefore, pollVars, netVars
  <2>5. Verdicts'
    BY <1>2 DEF IInv, StartRound, Verdicts, Polling
  <2>6. (TypeOK /\ EveryDeviceJudged /\ DownOnlyAfterAllProbes /\
         AwakeDevicesAreUp /\ NoNeedlessProbe)'
    BY <1>2
       DEF IInv, StartRound, TypeOK, EveryDeviceJudged,
           DownOnlyAfterAllProbes, AwakeDevicesAreUp, NoNeedlessProbe,
           pollVars, netVars, Polling, Locations
  <2> QED BY <2>1, <2>2, <2>3, <2>4, <2>5, <2>6 DEF IInv
<1>3. ASSUME NEW d \in IP, Send(d) PROVE IInv'
  <2>1. TypeOK'
    BY <1>3 DEF IInv, Send, TypeOK, pollVars
  <2>2. LoopsInRange'
    BY <1>3 DEF IInv, Send, LoopsInRange, pollVars
  <2>3. Requests'
    BY <1>3 DEF IInv, Send, TypeOK, Requests, SentBefore, pollVars
  <2>4. Asleep'
    BY <1>3 DEF IInv, Send, Asleep, SentBefore, pollVars
  <2>5. DownOnlyAfterAllProbes'
    BY <1>3 DEF IInv, Send, Verdicts, DownOnlyAfterAllProbes, Polling
  <2>6. NoNeedlessProbe'
    <3>1. d \in devices /\ sent[d] = SentBefore
      BY <1>3 DEF IInv, LoopsInRange, Requests, Send
    <3>2. SentBefore < Wake[d]
      BY <1>3, <3>1 DEF IInv, Asleep
    <3>3. sent[d] \in Nat /\ Wake[d] \in Nat
      BY WakeAssumption DEF IInv, TypeOK
    <3>4. sent'[d] = sent[d] + 1 /\ \A e \in IP \ {d} : sent'[e] = sent[e]
      BY <1>3 DEF IInv, TypeOK, Send
    <3>5. sent'[d] <= Wake[d]
      BY <3>1, <3>2, <3>3, <3>4
    <3> QED BY <3>4, <3>5 DEF IInv, NoNeedlessProbe
  <2>7. Accounted'
    BY <1>3 DEF IInv, Send, Accounted, pollVars
  <2>8. Verdicts'
    BY <1>3 DEF IInv, Send, Verdicts
  <2>9. EveryDeviceJudged'
    BY <1>3 DEF Send, EveryDeviceJudged
  <2>10. AwakeDevicesAreUp'
    BY <1>3 DEF Send, AwakeDevicesAreUp
  <2> QED BY <2>1, <2>2, <2>3, <2>4, <2>5, <2>6, <2>7, <2>8, <2>9, <2>10
             DEF IInv
<1>4. CASE JoinSender
  <2>1. LoopsInRange'
    BY <1>4 DEF IInv, JoinSender, LoopsInRange, pollVars, Polling, Reporting
  <2>2. Accounted'
    BY <1>4 DEF IInv, JoinSender, Accounted, pollVars, Polling
  <2>3. Requests'
    BY <1>4 DEF IInv, JoinSender, Requests, SentBefore, pollVars, netVars
  <2>4. Asleep'
    BY <1>4 DEF IInv, JoinSender, Asleep, SentBefore, pollVars, netVars
  <2>5. Verdicts'
    BY <1>4 DEF IInv, JoinSender, Verdicts, Polling
  <2>6. (TypeOK /\ EveryDeviceJudged /\ DownOnlyAfterAllProbes /\
         AwakeDevicesAreUp /\ NoNeedlessProbe)'
    BY <1>4
       DEF IInv, JoinSender, TypeOK, EveryDeviceJudged,
           DownOnlyAfterAllProbes, AwakeDevicesAreUp, NoNeedlessProbe,
           pollVars, netVars, Polling, Locations
  <2> QED BY <2>1, <2>2, <2>3, <2>4, <2>5, <2>6 DEF IInv
<1>5. CASE SleepRound
  <2>1. LoopsInRange'
    BY <1>5 DEF IInv, SleepRound, LoopsInRange, pollVars, Polling, Reporting
  <2>2. Accounted'
    BY <1>5 DEF IInv, SleepRound, Accounted, pollVars, Polling
  <2>3. Requests'
    BY <1>5 DEF IInv, SleepRound, Requests, SentBefore, pollVars, netVars
  <2>4. Asleep'
    BY <1>5 DEF IInv, SleepRound, Asleep, SentBefore, pollVars, netVars
  <2>5. Verdicts'
    BY <1>5 DEF IInv, SleepRound, Verdicts, Polling
  <2>6. (TypeOK /\ EveryDeviceJudged /\ DownOnlyAfterAllProbes /\
         AwakeDevicesAreUp /\ NoNeedlessProbe)'
    BY <1>5
       DEF IInv, SleepRound, TypeOK, EveryDeviceJudged,
           DownOnlyAfterAllProbes, AwakeDevicesAreUp, NoNeedlessProbe,
           pollVars, netVars, Polling, Locations
  <2> QED BY <2>1, <2>2, <2>3, <2>4, <2>5, <2>6 DEF IInv
<1>6. CASE UpdateDevices
  <2>1. TypeOK'
    BY <1>6 DEF IInv, UpdateDevices, TypeOK, netVars, Polling, Locations
  <2>2. LoopsInRange'
    BY <1>6, RetriesAssumption
       DEF IInv, UpdateDevices, TypeOK, LoopsInRange, RoundsOf, Polling,
           Reporting
  <2>3. Accounted'
    BY <1>6 DEF IInv, UpdateDevices, Accounted, Polling
  <2>4. Requests'
    BY <1>6, RetriesAssumption
       DEF IInv, UpdateDevices, TypeOK, Requests, SentBefore, netVars
  <2>5. Asleep'
    BY <1>6, RetriesAssumption, WakeAssumption
       DEF IInv, UpdateDevices, TypeOK, Requests, Asleep, SentBefore,
           netVars
  <2>6. (Verdicts /\ EveryDeviceJudged /\ DownOnlyAfterAllProbes /\
         AwakeDevicesAreUp /\ NoNeedlessProbe)'
    BY <1>6
       DEF IInv, UpdateDevices, Verdicts, EveryDeviceJudged,
           DownOnlyAfterAllProbes, AwakeDevicesAreUp, NoNeedlessProbe,
           netVars, Polling
  <2> QED BY <2>1, <2>2, <2>3, <2>4, <2>5, <2>6 DEF IInv
<1>7. CASE PollAggressively
  <2>1. LoopsInRange'
    BY <1>7, RetriesAssumption
       DEF PollAggressively, LoopsInRange, RoundsOf, Polling, Reporting
  <2>2. Requests'
    BY <1>7, RetriesAssumption, WakeAssumption
       DEF IInv, PollAggressively, TypeOK, LoopsInRange, Accounted,
           Requests, Asleep, Verdicts, EveryDeviceJudged,
           DownOnlyAfterAllProbes, AwakeDevicesAreUp, NoNeedlessProbe,
           Total, RoundsOf, MoreRounds, SentBefore, pollVars, netVars,
           Polling, Reporting, Locations
  <2>3. Asleep'
    BY <1>7, RetriesAssumption, WakeAssumption
       DEF IInv, PollAggressively, TypeOK, Asleep, RoundsOf, MoreRounds,
           SentBefore, netVars
  <2>4. (TypeOK /\ Accounted /\ Verdicts /\ EveryDeviceJudged /\
         DownOnlyAfterAllProbes /\ AwakeDevicesAreUp /\ NoNeedlessProbe)'
    BY <1>7
       DEF IInv, PollAggressively, TypeOK, Accounted, Verdicts,
           EveryDeviceJudged, DownOnlyAfterAllProbes, AwakeDevicesAreUp,
           NoNeedlessProbe, netVars
  <2> QED BY <2>1, <2>2, <2>3, <2>4 DEF IInv
<1>8. CASE EndPolling
  <2>1. LoopsInRange'
    BY <1>8, RetriesAssumption
       DEF IInv, EndPolling, TypeOK, LoopsInRange, RoundsOf, MoreRounds,
           pollVars, Reporting
  <2>2. Accounted'
    BY <1>8 DEF IInv, EndPolling, Accounted, pollVars, Polling
  <2>3. Requests'
    BY <1>8 DEF IInv, EndPolling, Requests, SentBefore, pollVars, netVars
  <2>4. Asleep'
    BY <1>8 DEF IInv, EndPolling, Asleep, SentBefore, pollVars, netVars
  <2>5. Verdicts'
    BY <1>8 DEF IInv, EndPolling, Verdicts, Polling
  <2>6. TypeOK'
    BY <1>8
       DEF IInv, EndPolling, TypeOK, pollVars, netVars, Reporting, Locations
  <2>7. EveryDeviceJudged'
    BY <1>8 DEF EndPolling, EveryDeviceJudged
  <2>8. DownOnlyAfterAllProbes'
    BY <1>8 DEF IInv, EndPolling, DownOnlyAfterAllProbes, netVars
  <2>9. AwakeDevicesAreUp'
    BY <1>8 DEF EndPolling, AwakeDevicesAreUp
  <2>10. NoNeedlessProbe'
    BY <1>8 DEF IInv, EndPolling, NoNeedlessProbe, netVars
  <2> QED BY <2>1, <2>2, <2>3, <2>4, <2>5, <2>6, <2>7, <2>8, <2>9, <2>10
             DEF IInv
<1>9. CASE LockReport
  <2>1. TypeOK'
    BY <1>9
       DEF IInv, LockReport, TypeOK, pollVars, netVars, Reporting, Locations
  <2>2. LoopsInRange'
    BY <1>9 DEF IInv, LockReport, LoopsInRange, pollVars, Reporting
  <2>3. Accounted'
    BY <1>9 DEF IInv, LockReport, Accounted, pollVars
  <2>4. Requests'
    BY <1>9 DEF IInv, LockReport, Requests, SentBefore, pollVars, netVars
  <2>5. Verdicts'
    BY <1>9 DEF IInv, LockReport, TypeOK, Verdicts
  <2>6. (Asleep /\ EveryDeviceJudged /\ DownOnlyAfterAllProbes /\
         AwakeDevicesAreUp /\ NoNeedlessProbe)'
    BY <1>9
       DEF IInv, LockReport, Asleep, EveryDeviceJudged,
           DownOnlyAfterAllProbes, AwakeDevicesAreUp, NoNeedlessProbe,
           SentBefore, pollVars, netVars
  <2> QED BY <2>1, <2>2, <2>3, <2>4, <2>5, <2>6 DEF IInv
<1>10. ASSUME NEW d \in IP, ReportUp(d) PROVE IInv'
  <2>1. TypeOK'
    BY <1>10 DEF IInv, ReportUp, TypeOK, pollVars, netVars
  <2>2. LoopsInRange'
    BY <1>10 DEF IInv, ReportUp, LoopsInRange, pollVars
  <2>3. Accounted'
    BY <1>10 DEF IInv, ReportUp, TypeOK, Accounted, Verdicts, pollVars
  <2>4. Verdicts'
    BY <1>10 DEF IInv, ReportUp, Verdicts, Polling
  <2>5. DownOnlyAfterAllProbes'
    BY <1>10 DEF IInv, ReportUp, DownOnlyAfterAllProbes, netVars
  <2>6. (Requests /\ Asleep /\ EveryDeviceJudged /\ AwakeDevicesAreUp /\
         NoNeedlessProbe)'
    BY <1>10
       DEF IInv, ReportUp, Requests, Asleep, EveryDeviceJudged,
           AwakeDevicesAreUp, NoNeedlessProbe, SentBefore, pollVars, netVars
  <2> QED BY <2>1, <2>2, <2>3, <2>4, <2>5, <2>6 DEF IInv
<1>11. CASE ReportUnresponsive
  <2>1. LoopsInRange'
    BY <1>11 DEF IInv, ReportUnresponsive, LoopsInRange, pollVars, Reporting
  <2>2. Accounted'
    BY <1>11 DEF IInv, ReportUnresponsive, Accounted, pollVars, Polling
  <2>3. Requests'
    BY <1>11
       DEF IInv, ReportUnresponsive, Requests, SentBefore, pollVars, netVars
  <2>4. Verdicts'
    BY <1>11, RetriesAssumption, WakeAssumption
       DEF IInv, ReportUnresponsive, TypeOK, LoopsInRange, Accounted,
           Asleep, Verdicts, Total, SentBefore, pollVars, Polling
  <2>5. (TypeOK /\ Asleep /\ EveryDeviceJudged /\ DownOnlyAfterAllProbes /\
         AwakeDevicesAreUp /\ NoNeedlessProbe)'
    BY <1>11
       DEF IInv, ReportUnresponsive, TypeOK, Asleep, EveryDeviceJudged,
           DownOnlyAfterAllProbes, AwakeDevicesAreUp, NoNeedlessProbe,
           SentBefore, pollVars, netVars, Reporting, Locations
  <2> QED BY <2>1, <2>2, <2>3, <2>4, <2>5 DEF IInv
<1>12. ASSUME NEW d \in IP, ReportDown(d) PROVE IInv'
  <2>1. TypeOK'
    BY <1>12 DEF IInv, ReportDown, TypeOK, pollVars, netVars
  <2>2. LoopsInRange'
    BY <1>12 DEF IInv, ReportDown, LoopsInRange, pollVars
  <2>3. Accounted'
    BY <1>12 DEF IInv, ReportDown, TypeOK, Accounted, pollVars
  <2>4. Verdicts'
    <3>1. d \in devices /\ SentBefore = Total
      BY <1>12
         DEF IInv, LoopsInRange, ReportDown, SentBefore, Total, Reporting
    <3>2. ~(Wake[d] <= Total)
      BY <1>12, <3>1, RetriesAssumption, WakeAssumption
         DEF IInv, Asleep, Total
    <3> QED BY <1>12, <3>1, <3>2, RetriesAssumption, WakeAssumption
               DEF IInv, ReportDown, Asleep, Verdicts, Total, pollVars,
                   Polling
  <2>5. DownOnlyAfterAllProbes'
    BY <1>12
       DEF IInv, ReportDown, LoopsInRange, Requests, DownOnlyAfterAllProbes,
           Total, SentBefore, netVars, Reporting
  <2>6. Requests'
    BY <1>12 DEF IInv, ReportDown, Requests, SentBefore, pollVars, netVars
  <2>7. Asleep'
    BY <1>12 DEF IInv, ReportDown, Asleep, SentBefore, pollVars, netVars
  <2>8. EveryDeviceJudged'
    BY <1>12 DEF ReportDown, EveryDeviceJudged
  <2>9. AwakeDevicesAreUp'
    BY <1>12 DEF ReportDown, AwakeDevicesAreUp
  <2>10. NoNeedlessProbe'
    BY <1>12 DEF IInv, ReportDown, NoNeedlessProbe, netVars
  <2> QED BY <2>1, <2>2, <2>3, <2>4, <2>5, <2>6, <2>7, <2>8, <2>9, <2>10
             DEF IInv
<1>13. CASE UnlockReport
  <2>1. TypeOK'
    BY <1>13 DEF IInv, UnlockReport, TypeOK, pollVars, netVars, Locations
  <2>2. LoopsInRange'
    BY <1>13
       DEF IInv, UnlockReport, LoopsInRange, pollVars, Polling, Reporting
  <2>3. Accounted'
    BY <1>13 DEF IInv, UnlockReport, Accounted, pollVars, Polling
  <2>4. EveryDeviceJudged'
    BY <1>13 DEF IInv, UnlockReport, Accounted, EveryDeviceJudged, pollVars
  <2>5. AwakeDevicesAreUp'
    BY <1>13 DEF IInv, UnlockReport, Verdicts, AwakeDevicesAreUp, pollVars
  <2>6. (Requests /\ Asleep /\ Verdicts /\ DownOnlyAfterAllProbes /\
         NoNeedlessProbe)'
    BY <1>13
       DEF IInv, UnlockReport, Requests, Asleep, Verdicts, SentBefore,
           DownOnlyAfterAllProbes, NoNeedlessProbe, pollVars, netVars,
           Polling
  <2> QED BY <2>1, <2>2, <2>3, <2>4, <2>5, <2>6 DEF IInv
<1>14. CASE ResetProbe
  <2>1. LoopsInRange'
    BY <1>14
       DEF IInv, ResetProbe, LoopsInRange, pollVars, Polling, Reporting
  <2>2. EveryDeviceJudged'
    BY <1>14 DEF ResetProbe, EveryDeviceJudged
  <2>3. AwakeDevicesAreUp'
    BY <1>14 DEF ResetProbe, AwakeDevicesAreUp
  <2>4. (TypeOK /\ Accounted /\ Requests /\ Asleep /\ Verdicts /\
         DownOnlyAfterAllProbes /\ NoNeedlessProbe)'
    BY <1>14, WakeAssumption
       DEF IInv, ResetProbe, TypeOK, Accounted, Requests, Asleep, Verdicts,
           DownOnlyAfterAllProbes, NoNeedlessProbe, SentBefore, pollVars,
           netVars, Polling, Locations
  <2> QED BY <2>1, <2>2, <2>3, <2>4 DEF IInv
<1>15. CASE SleepCycle
  <2>1. LoopsInRange'
    BY <1>15
       DEF IInv, SleepCycle, LoopsInRange, pollVars, Polling, Reporting
  <2>2. (TypeOK /\ Accounted /\ Requests /\ Asleep /\ Verdicts /\
         EveryDeviceJudged /\ DownOnlyAfterAllProbes /\ AwakeDevicesAreUp /\
         NoNeedlessProbe)'
    BY <1>15
       DEF IInv, SleepCycle, TypeOK, Accounted, Requests, Asleep, Verdicts,
           EveryDeviceJudged, DownOnlyAfterAllProbes, AwakeDevicesAreUp,
           NoNeedlessProbe, SentBefore, pollVars, netVars, Polling,
           Locations
  <2> QED BY <2>1, <2>2 DEF IInv
<1>16. ASSUME NEW d \in IP, Reply(d) PROVE IInv'
  <2>1. TypeOK'
    BY <1>16 DEF IInv, Reply, TypeOK, pollVars
  <2>2. (LoopsInRange /\ Accounted /\ Requests /\ Asleep /\ Verdicts /\
         EveryDeviceJudged /\ DownOnlyAfterAllProbes /\ AwakeDevicesAreUp /\
         NoNeedlessProbe)'
    BY <1>16
       DEF IInv, Reply, LoopsInRange, Accounted, Requests, Asleep, Verdicts,
           EveryDeviceJudged, DownOnlyAfterAllProbes, AwakeDevicesAreUp,
           NoNeedlessProbe, SentBefore, pollVars
  <2> QED BY <2>1, <2>2 DEF IInv
<1>17. ASSUME NEW d \in IP, Receive(d) PROVE IInv'
  <2>1. TypeOK'
    BY <1>17 DEF IInv, Receive, TypeOK, pollVars
  <2>2. Accounted'
    BY <1>17 DEF IInv, Receive, Accounted, pollVars
  <2>3. Asleep'
    BY <1>17, RetriesAssumption, WakeAssumption
       DEF IInv, Receive, TypeOK, LoopsInRange, Accounted, Requests, Asleep,
           Verdicts, EveryDeviceJudged, DownOnlyAfterAllProbes,
           AwakeDevicesAreUp, NoNeedlessProbe, Total, RoundsOf, MoreRounds,
           SentBefore, pollVars, netVars, Polling, Reporting, Locations
  <2>4. (LoopsInRange /\ Requests /\ Verdicts /\ EveryDeviceJudged /\
         DownOnlyAfterAllProbes /\ AwakeDevicesAreUp /\ NoNeedlessProbe)'
    BY <1>17
       DEF IInv, Receive, LoopsInRange, Requests, Verdicts,
           EveryDeviceJudged, DownOnlyAfterAllProbes, AwakeDevicesAreUp,
           NoNeedlessProbe, SentBefore, pollVars
  <2> QED BY <2>1, <2>2, <2>3, <2>4 DEF IInv
<1>18. CASE Exit
  <2>1. TypeOK'
    BY <1>18 DEF IInv, Exit, TypeOK, Locations
  <2>2. LoopsInRange'
    BY <1>18, RetriesAssumption DEF Exit, LoopsInRange, RoundsOf
  <2>3. Accounted'
    BY <1>18 DEF Exit, Accounted
  <2>4. Requests'
    BY <1>18 DEF Exit, Requests
  <2>5. Asleep'
    BY <1>18 DEF Exit, Asleep
  <2>6. Verdicts'
    BY <1>18 DEF Exit, Verdicts, Polling
  <2>7. (EveryDeviceJudged /\ DownOnlyAfterAllProbes /\ AwakeDevicesAreUp /\
         NoNeedlessProbe)'
    BY <1>18
       DEF IInv, Exit, EveryDeviceJudged, DownOnlyAfterAllProbes,
           AwakeDevicesAreUp, NoNeedlessProbe
  <2> QED BY <2>1, <2>2, <2>3, <2>4, <2>5, <2>6, <2>7 DEF IInv
<1>19. ASSUME NEW kept \in SUBSET wire, Restart(kept) PROVE IInv'
  <2>1. TypeOK'
    BY <1>19 DEF IInv, Restart, TypeOK, pollVars, Locations
  <2>2. LoopsInRange'
    BY <1>19 DEF IInv, Restart, LoopsInRange, pollVars, Polling, Reporting
  <2>3. (Accounted /\ Requests /\ Asleep /\ Verdicts /\ EveryDeviceJudged /\
         DownOnlyAfterAllProbes /\ AwakeDevicesAreUp /\ NoNeedlessProbe)'
    BY <1>19
       DEF IInv, Restart, Accounted, Requests, Asleep, Verdicts,
           EveryDeviceJudged, DownOnlyAfterAllProbes, AwakeDevicesAreUp,
           NoNeedlessProbe, SentBefore, pollVars, Polling
  <2> QED BY <2>1, <2>2, <2>3 DEF IInv
<1>20. CASE UNCHANGED vars
  BY <1>20
     DEF vars, IInv, TypeOK, LoopsInRange, Accounted, Requests, Asleep,
         Verdicts, EveryDeviceJudged, DownOnlyAfterAllProbes,
         AwakeDevicesAreUp, NoNeedlessProbe, SentBefore
<1> QED BY <1>1, <1>2, <1>3, <1>4, <1>5, <1>6, <1>7, <1>8, <1>9, <1>10,
           <1>11, <1>12, <1>13, <1>14, <1>15, <1>16, <1>17, <1>18, <1>19,
           <1>20 DEF Next, MainStep

(* The invariant holds as long as the monitor runs.                        *)
THEOREM Invariance == Spec => []IInv
BY InitEstablishes, Inductive, PTL DEF Spec

(* The variables keep their types; in particular only addresses get on the *)
(* list of devices and in the table of answers.                            *)
THEOREM Types == Spec => []TypeOK
<1>1. IInv => TypeOK
  BY DEF IInv
<1> QED BY <1>1, Invariance, PTL

(* No device of a cycle escapes both loops of its report                   *)
(* (monitor_db_api.c:194 and 235).                                         *)
THEOREM EveryDeviceIsJudged == Spec => []EveryDeviceJudged
<1>1. IInv => EveryDeviceJudged
  BY DEF IInv
<1> QED BY <1>1, Invariance, PTL

(* A device is reported as not responding only after all the rounds of     *)
(* poll_normally() and poll_aggressively() have asked it.                  *)
THEOREM DownIsAfterAllProbes == Spec => []DownOnlyAfterAllProbes
<1>1. IInv => DownOnlyAfterAllProbes
  BY DEF IInv
<1> QED BY <1>1, Invariance, PTL

(* A device that answers one of the requests of a cycle in time is         *)
(* reported as responding and not as unresponsive.                         *)
THEOREM AwakeAreReportedUp == Spec => []AwakeDevicesAreUp
<1>1. IInv => AwakeDevicesAreUp
  BY DEF IInv
<1> QED BY <1>1, Invariance, PTL

(* update_devices_to_probe() spares who has answered all further requests. *)
THEOREM NobodyIsAskedAgain == Spec => []NoNeedlessProbe
<1>1. IInv => NoNeedlessProbe
  BY DEF IInv
<1> QED BY <1>1, Invariance, PTL

(* Between two answers with devices the map is that of the first.          *)
Current == configured # {} => registry = configured

(* Only Send asks and only the two loops of the report judge, and all of   *)
(* them take devices of ip_ids.                                            *)
LEMMA StaysConfigured ==
    IInv /\ Current /\ OnlyConfigured /\ [Next]_vars => (Current /\ OnlyConfigured)'
<1> SUFFICES ASSUME IInv, Current, OnlyConfigured, [Next]_vars
             PROVE  (Current /\ OnlyConfigured)'
  OBVIOUS
<1> USE DEF Current, OnlyConfigured, pollVars, netVars
<1>1. ASSUME NEW found \in SUBSET IP, GetDevices(found)
      PROVE  (Current /\ OnlyConfigured)'
  BY <1>1 DEF GetDevices
<1>2. ASSUME NEW d \in IP, Send(d) PROVE (Current /\ OnlyConfigured)'
  <2>1. d \in registry
    BY <1>2 DEF Send, IInv, LoopsInRange, Accounted
  <2>2. \A e \in IP \ {d} : sent'[e] = sent[e]
    BY <1>2 DEF Send, IInv, TypeOK
  <2> QED BY <1>2, <2>1, <2>2 DEF Send
<1>3. ASSUME NEW d \in IP, ReportUp(d) \/ ReportDown(d)
      PROVE  (Current /\ OnlyConfigured)'
  <2>1. d \in registry
    BY <1>3 DEF ReportUp, ReportDown, IInv, LoopsInRange, Accounted
  <2>2. \A e \in IP \ {d} : outcome'[e] = outcome[e]
    BY <1>3 DEF ReportUp, ReportDown, IInv, TypeOK
  <2> QED BY <1>3, <2>1, <2>2 DEF ReportUp, ReportDown
<1>4. CASE Exit
  BY <1>4 DEF Exit
<1>5. CASE UNCHANGED <<configured, registry, sent, outcome>>
  BY <1>5
<1>6. CASE \/ StartRound \/ JoinSender \/ SleepRound \/ UpdateDevices
           \/ PollAggressively \/ EndPolling \/ LockReport
           \/ ReportUnresponsive \/ UnlockReport \/ ResetProbe \/ SleepCycle
           \/ \E d \in IP : Reply(d) \/ Receive(d)
           \/ \E kept \in SUBSET wire : Restart(kept)
           \/ UNCHANGED vars
  <2>1. UNCHANGED <<configured, registry, sent, outcome>>
    BY <1>6 DEF StartRound, JoinSender, SleepRound, UpdateDevices,
         PollAggressively, EndPolling, LockReport, ReportUnresponsive,
         UnlockReport, ResetProbe, SleepCycle, Reply, Receive, Restart, vars
  <2> QED BY <1>5, <2>1
<1> QED BY <1>1, <1>2, <1>3, <1>4, <1>6 DEF Next, MainStep

(* After an answer of the database with devices, the cycle is about these  *)
(* and nobody else (monitor_db_api.c:96-109).                              *)
THEOREM OthersAreLeftAlone == Spec => []OnlyConfigured
<1>1. Init => Current /\ OnlyConfigured
  BY DEF Init, Current, OnlyConfigured
<1> QED BY <1>1, Invariance, StaysConfigured, PTL DEF Spec

-----------------------------------------------------------------------------
(* The monitor starts with no poll open (main.c:161-186).                  *)
LEMMA InitRefines == Init => Contract!Init
BY DEF Init, Contract!Init, Contract!NoVerdicts, Polling, Reporting

(* Each step of the cycle is a step of the contract, or changes nothing    *)
(* that the contract speaks of.                                            *)
LEMMA StepRefines ==
    IInv /\ IInv' /\ [Next]_vars => [Contract!Next]_(Contract!vars)
<1> SUFFICES ASSUME IInv, IInv', [Next]_vars
             PROVE  Contract!Next \/ UNCHANGED Contract!vars
  OBVIOUS
<1> USE DEF Polling, Reporting
<1>1. ASSUME NEW found \in SUBSET IP, GetDevices(found)
      PROVE  Contract!Begin(registry') /\ registry' \in SUBSET IP
  <2>1. registry' \in SUBSET IP
    BY <1>1 DEF IInv, TypeOK, GetDevices
  <2>2. Contract!Begin(registry')
    BY <1>1 DEF GetDevices, Contract!Begin, Contract!NoVerdicts
  <2> QED BY <2>1, <2>2
<1>2. ASSUME NEW d \in IP, ReportUp(d) PROVE Contract!JudgeUp(d)
  BY <1>2
     DEF ReportUp, pollVars, Contract!JudgeUp, IInv, LoopsInRange, Verdicts
<1>3. ASSUME NEW d \in IP, ReportDown(d) PROVE Contract!JudgeDown(d)
  BY <1>3 DEF ReportDown, pollVars, Contract!JudgeDown, IInv, TypeOK,
              LoopsInRange, Accounted, Verdicts
<1>4. CASE UnlockReport
  <2>1. Contract!Close
    BY <1>4 DEF UnlockReport, pollVars, Contract!Close, IInv, Accounted
  <2> QED BY <2>1 DEF Contract!Next
<1>5. CASE Exit
  <2>1. Contract!Abort
    BY <1>5 DEF Exit, Contract!Abort
  <2> QED BY <2>1 DEF Contract!Next
<1>6. CASE \/ StartRound \/ JoinSender \/ SleepRound \/ UpdateDevices
           \/ PollAggressively \/ EndPolling \/ LockReport
           \/ ReportUnresponsive \/ ResetProbe \/ SleepCycle
           \/ \E d \in IP : Send(d) \/ Reply(d) \/ Receive(d)
           \/ \E kept \in SUBSET wire : Restart(kept)
           \/ UNCHANGED vars
  BY <1>6 DEF StartRound, JoinSender, SleepRound, UpdateDevices,
       PollAggressively, EndPolling, LockReport, ReportUnresponsive,
       ResetProbe, SleepCycle, Send, Reply, Receive, Restart, vars, pollVars,
       Contract!vars
<1>7. Next \/ UNCHANGED vars
  OBVIOUS
<1> QED
  BY <1>1, <1>2, <1>3, <1>4, <1>5, <1>6, <1>7
     DEF Next, MainStep, Contract!Next

(* A cycle, from get_devices_to_probe() (main.c:192) to the end of its     *)
(* report (main.c:204), implements the contract of a poll.                 *)
THEOREM Implements == Spec => KeepsContract
<1>1. Spec => []IInv
  BY Invariance
<1> QED BY InitRefines, StepRefines, <1>1, PTL
           DEF Spec, KeepsContract, Contract!Spec
-----------------------------------------------------------------------------
(* Why a cycle comes to its end.                                           *)

(* The main thread holds the mutex in the loops of the report and nowhere  *)
(* else: it never asks for what it has already.                            *)
LockIsKept == mux = "main" <=> pc \in {"up", "down"}

THEOREM LockIsKeptAlways == Spec => []LockIsKept
<1>1. Init => LockIsKept
  BY DEF Init, LockIsKept
<1>2. LockIsKept /\ [Next]_vars => LockIsKept'
  <2> SUFFICES ASSUME LockIsKept, [Next]_vars PROVE LockIsKept'
    OBVIOUS
  <2>1. CASE MainStep
    BY <2>1
       DEF MainStep, GetDevices, StartRound, Send, JoinSender, SleepRound,
           UpdateDevices, PollAggressively, EndPolling, LockReport, ReportUp,
           ReportUnresponsive, ReportDown, UnlockReport, ResetProbe,
           SleepCycle, LockIsKept
  <2>2. CASE \/ \E d \in IP : Reply(d) \/ Receive(d)
             \/ Exit \/ \E kept \in SUBSET wire : Restart(kept)
             \/ UNCHANGED vars
    BY <2>2 DEF Reply, Receive, Exit, Restart, vars, pollVars, LockIsKept
  <2> QED BY <2>1, <2>2 DEF Next
<1> QED BY <1>1, <1>2, PTL DEF Spec

(* What is left of a cycle: its rounds, the way to the end of the round or *)
(* of the cycle, and the turns of the loop that is running.                *)
RoundsLeft ==
    IF phase = "normal" THEN (Retries - round) + AggrRetries + 1
                        ELSE AggrRetries - round

WayLeft ==
    [poll |-> 9, send |-> 8, sleep |-> 7, check |-> 6, report |-> 5,
     up |-> 4, down |-> 3, reset |-> 2, idle |-> 1, fetch |-> 0,
     dead |-> 0][pc]

TurnsLeft == Cardinality(todo)

Measured == RoundsLeft \in Nat /\ WayLeft \in Nat /\ TurnsLeft \in Nat

Nearer ==
    \/ RoundsLeft' < RoundsLeft
    \/ RoundsLeft' = RoundsLeft /\ WayLeft' < WayLeft
    \/ /\ RoundsLeft' = RoundsLeft /\ WayLeft' = WayLeft
       /\ TurnsLeft' < TurnsLeft

LEMMA MeasureIsNatural == ASSUME IInv, IsFiniteSet(IP) PROVE Measured
<1>1. RoundsLeft \in Nat
  BY RetriesAssumption DEF RoundsLeft, IInv, TypeOK, LoopsInRange, RoundsOf
<1>2. WayLeft \in Nat
  BY DEF WayLeft, IInv, TypeOK, Locations, Polling, Reporting
<1>3. todo \in SUBSET IP
  BY DEF IInv, TypeOK
<1> QED BY <1>1, <1>2, <1>3, FS_Subset, FS_CardinalityType
       DEF Measured, TurnsLeft

(* A turn of a loop takes one off what the loop has left.                  *)
LEMMA TurnIsNearer ==
    ASSUME IInv, IsFiniteSet(IP), UNCHANGED <<pc, phase, round>>,
           NEW d \in todo, todo' = todo \ {d}
    PROVE  Nearer
<1>1. IsFiniteSet(todo)
  <2>1. todo \in SUBSET IP
    BY DEF IInv, TypeOK
  <2> QED BY <2>1, FS_Subset
<1>2. Cardinality(todo \ {d}) = Cardinality(todo) - 1
  BY <1>1, FS_RemoveElement
<1>3. Cardinality(todo) \in Nat
  BY <1>1, FS_CardinalityType
<1>4. TurnsLeft' < TurnsLeft
  BY <1>2, <1>3 DEF TurnsLeft
<1> QED BY <1>4 DEF Nearer, RoundsLeft, WayLeft

(* Between one reading of the devices and the next, every step of the main *)
(* and of the sending thread brings the end of the cycle nearer, in an     *)
(* order without infinite descent, and neither the network nor the         *)
(* receiving thread puts it off, whatever they do.                         *)
Progress ==
    /\ MainStep /\ pc # "fetch" => Nearer
    /\ \A d \in IP : Reply(d) \/ Receive(d) =>
          UNCHANGED <<RoundsLeft, WayLeft, TurnsLeft>>

THEOREM CyclesMakeProgress ==
    ASSUME IsFiniteSet(IP)
    PROVE  Spec => []Measured /\ [][Progress]_vars
<1>1. IInv => Measured
  BY MeasureIsNatural
<1>2. IInv => Progress
  <2> SUFFICES ASSUME IInv PROVE Progress
    OBVIOUS
  <2>1. ASSUME NEW d \in IP, Reply(d) \/ Receive(d)
        PROVE  UNCHANGED <<RoundsLeft, WayLeft, TurnsLeft>>
    BY <2>1 DEF Reply, Receive, pollVars, RoundsLeft, WayLeft, TurnsLeft
  <2>2. ASSUME MainStep, pc # "fetch" PROVE Nearer
    <3>1. CASE \E d \in IP : Send(d) \/ ReportUp(d) \/ ReportDown(d)
      BY <3>1, TurnIsNearer DEF Send, ReportUp, ReportDown, pollVars
    <3>2. CASE \/ StartRound \/ JoinSender \/ SleepRound \/ EndPolling
               \/ LockReport \/ ReportUnresponsive \/ UnlockReport
               \/ ResetProbe \/ SleepCycle
      <4>1. RoundsLeft' = RoundsLeft
        BY <3>2
           DEF StartRound, JoinSender, SleepRound, EndPolling, LockReport,
               ReportUnresponsive, UnlockReport, ResetProbe, SleepCycle,
               pollVars, RoundsLeft
      <4>2. WayLeft' < WayLeft
        BY <3>2
           DEF StartRound, JoinSender, SleepRound, EndPolling, LockReport,
               ReportUnresponsive, UnlockReport, ResetProbe, SleepCycle,
               WayLeft
      <4> QED BY <4>1, <4>2 DEF Nearer
    <3>3. CASE UpdateDevices
      <4>1. round \in Nat /\ phase' = phase /\ round' = round + 1
        BY <3>3 DEF UpdateDevices, IInv, TypeOK
      <4>2. RoundsLeft' < RoundsLeft
        BY <4>1, RetriesAssumption DEF RoundsLeft
      <4> QED BY <4>2 DEF Nearer
    <3>4. CASE PollAggressively
      <4>1. round \in Nat /\ round <= Retries
        BY <3>4 DEF PollAggressively, IInv, TypeOK, LoopsInRange, RoundsOf
      <4>2. RoundsLeft' < RoundsLeft
        BY <3>4, <4>1, RetriesAssumption DEF PollAggressively, RoundsLeft
      <4> QED BY <4>2 DEF Nearer
    <3>5. CASE \E found \in SUBSET IP : GetDevices(found)
      BY <2>2, <3>5 DEF GetDevices
    <3> QED BY <2>2, <3>1, <3>2, <3>3, <3>4, <3>5 DEF MainStep
  <2> QED BY <2>1, <2>2 DEF Progress
<1> QED BY <1>1, <1>2, Invariance, PTL DEF Spec

-----------------------------------------------------------------------------
(* The cycle and the statistics: Monitor.                                  *)

Kept == INSTANCE DeviceStatsProofs WITH
            Device <- IP,
            pc     <- IF pc \in {"fetch", "idle"} THEN "idle"
                      ELSE IF pc \in Polling \cup {"report"} THEN "probing"
                      ELSE IF pc = "reset" THEN "done"
                      ELSE pc,
            known  <- registry,
            silent <- IF Loops \/ pc = "reset" THEN devices ELSE {},
            todo   <- IF Loops THEN todo ELSE {}

(* With the database beside it, the cycle takes no step that it would not  *)
(* take alone.                                                             *)
LEMMA CycleStep == [MonitorNext]_monitorVars => [Next]_vars
BY DEF MonitorNext, MainThread, StartPoll, StartReport, RecordUp, RecordDown,
       EndCycle, Probe, Hear, Die, Revive, monitorVars, Next, MainStep

(* The invariant of the cycle holds in the whole.                          *)
THEOREM CycleInvariance == MonitorSpec => []IInv
<1>1. MonitorInit => IInv
  BY InitEstablishes DEF MonitorInit
<1>2. IInv /\ [MonitorNext]_monitorVars => IInv'
  BY CycleStep, Inductive
<1> QED BY <1>1, <1>2, PTL DEF MonitorSpec

(* So does everything that was proved of it: with the queries and their    *)
(* failures in between, one poll after the other still keeps its contract. *)
THEOREM WholeKeepsContract == MonitorSpec => KeepsContract
<1>1. MonitorInit => Contract!Init
  BY InitRefines DEF MonitorInit
<1>2. IInv /\ IInv' /\ [MonitorNext]_monitorVars
         => [Contract!Next]_(Contract!vars)
  BY CycleStep, StepRefines
<1> QED BY <1>1, <1>2, CycleInvariance, PTL
           DEF MonitorSpec, KeepsContract, Contract!Spec

(* Before the first poll the statistics are as DeviceStats starts them.    *)
LEMMA StatsInit == MonitorInit => Stats!Init
BY DEF MonitorInit, Init, NoAnswers, Loops, Polling, Stats!Init

(* Where the cycle moves, the statistics stay or make a step of theirs.    *)
LEMMA StatsStep ==
    IInv /\ [MonitorNext]_monitorVars => [Stats!Next]_(Stats!vars)
<1> SUFFICES ASSUME IInv, [MonitorNext]_monitorVars
             PROVE  Stats!Next \/ UNCHANGED Stats!vars
  OBVIOUS
<1> USE DEF Loops, Polling
<1>1. ASSUME NEW ips \in SUBSET IP, StartPoll(ips) PROVE Stats!StartPoll(ips)
  BY <1>1 DEF StartPoll, GetDevices, record, Stats!StartPoll
<1>2. CASE StartReport
  <2>1. answers' \in Stats!Answers
    BY <1>2 DEF StartReport, Stats!Answers, IInv, TypeOK
  <2>2. registry \subseteq devices \cup DOMAIN answers' /\ devices \subseteq registry
    BY <1>2 DEF StartReport, LockReport, IInv, Accounted
  <2>3. Stats!StartReport(answers', devices)
    BY <1>2, <2>2
       DEF StartReport, LockReport, pollVars, record, Stats!StartReport
  <2> QED BY <2>1, <2>2, <2>3 DEF Stats!Next
<1>3. ASSUME NEW d \in IP, RecordUp(d) PROVE Stats!RecordUp(d)
  BY <1>3 DEF RecordUp, ReportUp, pollVars, Stats!RecordUp, Stats!Record
<1>4. ASSUME NEW d \in IP, RecordDown(d) PROVE Stats!RecordDown(d)
  BY <1>4 DEF RecordDown, ReportDown, pollVars, Stats!RecordDown, Stats!Record
<1>5. CASE EndCycle
  <2>1. Stats!EndCycle
    BY <1>5 DEF EndCycle, ResetProbe, NoAnswers, pollVars, record,
                Stats!EndCycle
  <2> QED BY <2>1 DEF Stats!Next
<1>6. CASE Probe
  <2>1. CASE ReportUnresponsive
    <3>1. Stats!TurnToSilent
      BY <1>6, <2>1 DEF Probe, ReportUnresponsive, pollVars, record,
                        Stats!TurnToSilent
    <3> QED BY <3>1 DEF Stats!Next
  <2>2. CASE UnlockReport
    <3>1. Stats!EndReport
      BY <1>6, <2>2 DEF Probe, UnlockReport, pollVars, record,
                        Stats!EndReport
    <3> QED BY <3>1 DEF Stats!Next
  <2>3. CASE \/ StartRound \/ JoinSender \/ SleepRound \/ UpdateDevices
             \/ PollAggressively \/ EndPolling \/ SleepCycle
             \/ \E d \in IP : Send(d)
    BY <1>6, <2>3
       DEF Probe, StartRound, JoinSender, SleepRound, UpdateDevices,
           PollAggressively, EndPolling, SleepCycle, Send, pollVars, record,
           Stats!vars
  <2> QED BY <1>6, <2>1, <2>2, <2>3 DEF Probe
<1>7. ASSUME NEW d \in IP, Hear(d) PROVE UNCHANGED Stats!vars
  BY <1>7 DEF Hear, Reply, Receive, pollVars, record, Stats!vars
<1>8. CASE Die
  <2>1. Stats!Crash
    BY <1>8 DEF Die, Exit, NoAnswers, record, Stats!Crash
  <2> QED BY <2>1 DEF Stats!Next
<1>9. CASE Revive
  <2>1. Stats!Restart
    BY <1>9 DEF Revive, Restart, pollVars, record, Stats!Restart
  <2> QED BY <2>1 DEF Stats!Next
<1>10. CASE UNCHANGED monitorVars
  BY <1>10 DEF monitorVars, vars, record, Stats!vars
<1> QED BY <1>1, <1>2, <1>3, <1>4, <1>5, <1>6, <1>7, <1>8, <1>9, <1>10
           DEF MonitorNext, MainThread, Stats!Next

(* What the cycle leaves behind for each report is what the statistics     *)
(* were proved about.                                                      *)
THEOREM StatsAreKept == MonitorSpec => KeepsStats
BY StatsInit, StatsStep, CycleInvariance, PTL DEF MonitorSpec, KeepsStats

(* The same of the instance whose theorems are cited below.                *)
LEMMA StatsBehave == MonitorSpec => Kept!Init /\ [][Kept!Next]_(Kept!vars)
<1>1. Stats!Init => Kept!Init
  BY DEF Stats!Init, Kept!Init
<1>2. [Stats!Next]_(Stats!vars) => [Kept!Next]_(Kept!vars)
  BY DEF Stats!Next, Stats!vars, Kept!Next, Kept!vars,
         Stats!StartPoll, Kept!StartPoll, Stats!StartReport,
         Kept!StartReport, Stats!Answers, Kept!Answers, Stats!RecordUp,
         Kept!RecordUp, Stats!RecordDown, Kept!RecordDown, Stats!Record,
         Kept!Record, Stats!Store, Kept!Store, Stats!RowCount,
         Kept!RowCount, Stats!Written, Kept!Written, Stats!Updated,
         Kept!Updated, Stats!TurnToSilent, Kept!TurnToSilent,
         Stats!EndReport, Kept!EndReport, Stats!EndCycle, Kept!EndCycle,
         Stats!Crash, Kept!Crash, Stats!Restart, Kept!Restart
<1> QED BY <1>1, <1>2, StatsAreKept, PTL DEF KeepsStats

(* So their invariant holds here.                                          *)
THEOREM StatsInvariance == MonitorSpec => []Kept!IInv
<1>1. Kept!Init /\ [][Kept!Next]_(Kept!vars) => []Kept!IInv
  <2>1. Kept!Spec => []Kept!IInv
    BY Kept!Invariance, NullAssumption, PollsAssumption
  <2> QED BY <2>1 DEF Kept!Spec
<1> QED BY <1>1, StatsBehave, PTL

(* Whatever the threads and the network do, and wherever the process ends, *)
(* the rows of a device are the run-length code of the verdicts of its     *)
(* polls that reached the database.                                        *)
THEOREM WholeIsCoded == MonitorSpec => []Stats!HistoryIsRunLengthCoded
<1>1. Kept!Init /\ [][Kept!Next]_(Kept!vars) => []Kept!HistoryIsRunLengthCoded
  <2>1. Kept!Spec => []Kept!HistoryIsRunLengthCoded
    BY Kept!HistoriesAreCoded, NullAssumption, PollsAssumption
  <2> QED BY <2>1 DEF Kept!Spec
<1>2. Kept!HistoryIsRunLengthCoded => Stats!HistoryIsRunLengthCoded
  <2>1. \A s : Kept!RunEnds(s) = Stats!RunEnds(s)
    BY DEF Kept!RunEnds, Stats!RunEnds
  <2>2. \A S : Kept!Cardinality(S) = Stats!Cardinality(S)
    BY DEF Kept!Cardinality, Stats!Cardinality
  <2>3. ASSUME NEW s, NEW i PROVE Kept!RunOf(s, i) = Stats!RunOf(s, i)
    <3>1. {j \in Kept!RunEnds(s) : j < i} = {j \in Stats!RunEnds(s) : j < i}
      BY <2>1
    <3> QED BY <2>2, <3>1 DEF Kept!RunOf, Stats!RunOf
  <2>4. ASSUME NEW history, NEW s, Kept!Codes(history, s)
        PROVE  Stats!Codes(history, s)
    BY <2>1, <2>2, <2>3, <2>4 DEF Kept!Codes, Stats!Codes
  <2> QED BY <2>4
          DEF Kept!HistoryIsRunLengthCoded, Stats!HistoryIsRunLengthCoded
<1> QED BY <1>1, <1>2, StatsBehave, PTL

(* And no step of the monitor rewrites what an earlier poll has recorded.  *)
THEOREM WholeNeverRewrites == MonitorSpec => Stats!RecordsStay
<1>1. Kept!Init /\ [][Kept!Next]_(Kept!vars) => Kept!RecordsStay
  <2>1. Kept!Spec => Kept!RecordsStay
    BY Kept!HistoryIsNeverRewritten, NullAssumption, PollsAssumption
  <2> QED BY <2>1 DEF Kept!Spec
<1>2. [\A d \in IP : Kept!Extends(rows'[d], rows[d])]_(Kept!vars)
         => [\A d \in IP : Stats!Extends(rows'[d], rows[d])]_(Stats!vars)
  BY DEF Kept!Extends, Stats!Extends, Kept!vars, Stats!vars
<1> QED BY <1>1, <1>2, StatsBehave, PTL DEF Kept!RecordsStay, Stats!RecordsStay

(* A device that answers one of its requests in time has a success of this *)
(* poll as its last row when update_device_stats() is over.                *)
THEOREM AwakeDevicesAreOnRecord == MonitorSpec => []AwakeDevicesOnRecord
<1>1. IInv /\ Kept!IInv => AwakeDevicesOnRecord
  <2> SUFFICES ASSUME IInv, Kept!IInv, pc = "reset",
                      NEW d \in registry \ lost, Wake[d] <= Total
               PROVE  Stats!OnRecord(d, TRUE)
    BY DEF AwakeDevicesOnRecord
  <2>1. d \notin devices
    <3> SUFFICES ASSUME d \in devices PROVE FALSE
      OBVIOUS
    <3>1. SentBefore = Total /\ SentBefore < Wake[d] /\ d \in IP
      BY DEF IInv, TypeOK, LoopsInRange, Asleep, SentBefore, Total
    <3> QED BY <3>1, RetriesAssumption, WakeAssumption DEF Total
  <2>2. Kept!OnRecord(d, d \notin devices)
    BY DEF Kept!IInv, Kept!ReportIsOnRecord, Polling
  <2> QED BY <2>1, <2>2 DEF Kept!OnRecord, Stats!OnRecord
<1> QED BY <1>1, CycleInvariance, StatsInvariance, PTL

-----------------------------------------------------------------------------
(* The times of rows are numbers.                                          *)
LEMMA TimesAreNumbers ==
    ASSUME Kept!IInv, NEW d \in IP, NEW i \in DOMAIN rows[d]
    PROVE  rows[d][i].time \in Nat /\ rows[d][i].time <= now /\ now \in Nat
<1>1. rows[d] \in Seq(Kept!Row) /\ now \in Nat
  BY PollsAssumption DEF Kept!IInv, Kept!TypeOK
<1>2. rows[d][i] \in Kept!Row
  BY <1>1
<1> QED BY <1>1, <1>2 DEF Kept!IInv, Kept!TimesPast, Kept!Row

(* No row has the time of the poll before its report.                      *)
NothingYet ==
    pc \in Polling => \A d \in IP : \A i \in DOMAIN rows[d] : rows[d][i].time < now

(* What a turn of a loop does to the rows of failures.                     *)
LEMMA StoredFailures ==
    ASSUME Kept!IInv, NEW d \in IP, NEW ok \in BOOLEAN, NEW mac,
           Stats!Store(d, ok, mac), now' = now
    PROVE  \A e \in IP : (e = d => ok) =>
              \A i \in DOMAIN rows'[e] : ~rows'[e][i].ok =>
                 i \in DOMAIN rows[e] /\ rows'[e][i] = rows[e][i]
<1>1. rows \in [IP -> Seq(Kept!Row)]
  BY DEF Kept!IInv, Kept!TypeOK
<1>2. CASE UNCHANGED rows
  BY <1>2
<1>3. ASSUME NEW count \in Stats!RowCount(d),
             rows' = [rows EXCEPT ![d] = Stats!Written(@, count, ok, mac)]
      PROVE  \A e \in IP : (e = d => ok) =>
                \A i \in DOMAIN rows'[e] : ~rows'[e][i].ok =>
                   i \in DOMAIN rows[e] /\ rows'[e][i] = rows[e][i]
  <2> DEFINE old == rows[d]
             new == Stats!Written(old, count, ok, mac)
  <2>1. rows'[d] = new /\ \A e \in IP \ {d} : rows'[e] = rows[e]
    BY <1>1, <1>3
  <2>2. ASSUME ok, NEW i \in DOMAIN new, ~new[i].ok
        PROVE  i \in DOMAIN old /\ new[i] = old[i]
    <3>1. old \in Seq(Kept!Row) /\ count \in {Len(old), 0}
      BY <1>1 DEF Stats!RowCount
    <3> HIDE DEF old
    <3>2. CASE count > 0 /\ old[count].ok = ok
      <4>1. count = Len(old)
            /\ new = [old EXCEPT ![count] = Stats!Updated(@, mac)]
        BY <3>1, <3>2 DEF Stats!Written
      <4>2. old[count] \in Kept!Row
        BY <3>1, <3>2, <4>1
      <4>3. Stats!Updated(old[count], mac).ok = ok
        BY <3>2, <4>2 DEF Stats!Updated, Kept!Row
      <4> HIDE DEF new
      <4> QED BY <2>2, <3>1, <4>1, <4>3
    <3>3. CASE ~(count > 0 /\ old[count].ok = ok)
      <4>1. new = Append(old, [ok |-> ok, time |-> now, mac |-> mac,
                              first |-> IF count = 0 THEN now ELSE 0])
        BY <3>3 DEF Stats!Written
      <4> HIDE DEF new
      <4> QED BY <2>2, <3>1, <4>1
    <3> QED BY <3>2, <3>3
  <2> QED BY <2>1, <2>2
<1> QED BY <1>2, <1>3 DEF Stats!Store

(* A device that the database calls unresponsive at some poll's time was   *)
(* sent all the requests of that poll.                                     *)
THEOREM FailuresAreProbed == MonitorSpec => []FailuresWereProbed
<1> DEFINE Paid == FailuresWereProbed /\ NothingYet
<1>1. MonitorInit => Paid
  BY DEF MonitorInit, Init, FailuresWereProbed, NothingYet, Polling
<1>2. IInv /\ IInv' /\ Kept!IInv /\ [MonitorNext]_monitorVars /\ Paid => Paid'
  <2> SUFFICES ASSUME IInv, IInv', Kept!IInv, [MonitorNext]_monitorVars, Paid
               PROVE  FailuresWereProbed' /\ NothingYet'
    OBVIOUS
  <2>1. ASSUME NEW ips \in SUBSET IP, StartPoll(ips)
        PROVE  FailuresWereProbed' /\ NothingYet'
    <3>1. ASSUME NEW d \in IP, NEW i \in DOMAIN rows[d]
          PROVE  rows[d][i].time < now'
      <4>1. rows[d][i].time \in Nat /\ rows[d][i].time <= now /\ now \in Nat
        BY TimesAreNumbers
      <4> QED BY <2>1, <4>1 DEF StartPoll
    <3>2. rows' = rows /\ now' = now + 1 /\ now \in Nat
      BY <2>1, PollsAssumption
         DEF StartPoll, record, Kept!IInv, Kept!TypeOK
    <3>3. ASSUME NEW d \in IP, NEW i \in DOMAIN rows[d]
          PROVE  rows[d][i].time # now'
      <4>1. rows[d][i].time \in Nat
        BY TimesAreNumbers
      <4> QED BY <3>1, <3>2, <4>1
    <3> QED BY <3>1, <3>2, <3>3 DEF FailuresWereProbed, NothingYet
  <2>2. ASSUME NEW d \in IP, RecordUp(d)
        PROVE  FailuresWereProbed' /\ NothingYet'
    <3>1. Stats!Store(d, TRUE, answers[d]) /\ UNCHANGED <<pc, now, sent>>
          /\ pc = "up"
      BY <2>2 DEF RecordUp, ReportUp, netVars
    <3>2. \A e \in IP : \A i \in DOMAIN rows'[e] : ~rows'[e][i].ok =>
             i \in DOMAIN rows[e] /\ rows'[e][i] = rows[e][i]
      BY <3>1, StoredFailures
    <3> QED BY <3>1, <3>2 DEF FailuresWereProbed, NothingYet, Polling
  <2>3. ASSUME NEW d \in IP, RecordDown(d)
        PROVE  FailuresWereProbed' /\ NothingYet'
    <3>1. Stats!Store(d, FALSE, NoMac) /\ UNCHANGED <<pc, now, sent>>
          /\ pc = "down"
      BY <2>3 DEF RecordDown, ReportDown, netVars
    <3>2. "down" \in outcome'[d]
      BY <2>3 DEF RecordDown, ReportDown, IInv, TypeOK
    <3>3. sent'[d] = Total
      BY <3>2 DEF IInv, DownOnlyAfterAllProbes
    <3>4. \A e \in IP \ {d} : \A i \in DOMAIN rows'[e] : ~rows'[e][i].ok =>
             i \in DOMAIN rows[e] /\ rows'[e][i] = rows[e][i]
      BY <3>1, StoredFailures
    <3> QED BY <3>1, <3>3, <3>4 DEF FailuresWereProbed, NothingYet, Polling
  <2>4. CASE Probe
    <3>1. UNCHANGED <<rows, now>>
      BY <2>4 DEF Probe, record
    <3>2. ASSUME NEW d \in IP, Send(d)
          PROVE  FailuresWereProbed' /\ NothingYet'
      <4>1. pc \in Polling /\ pc' = pc
        BY <3>2 DEF Send, Polling
      <4>2. \A e \in IP : \A i \in DOMAIN rows[e] : rows[e][i].time # now
        <5>1. ASSUME NEW e \in IP, NEW i \in DOMAIN rows[e]
              PROVE  rows[e][i].time # now
          <6>1. rows[e][i].time \in Nat /\ now \in Nat /\ rows[e][i].time < now
            BY <4>1, TimesAreNumbers DEF NothingYet
          <6> QED BY <6>1
        <5> QED BY <5>1
      <4> QED BY <3>1, <4>1, <4>2 DEF FailuresWereProbed, NothingYet
    <3>3. CASE ~\E d \in IP : Send(d)
      <4>1. UNCHANGED sent /\ (pc' \in Polling => pc \in Polling)
        BY <2>4, <3>3
           DEF Probe, StartRound, JoinSender, SleepRound, UpdateDevices,
               PollAggressively, EndPolling, ReportUnresponsive,
               UnlockReport, SleepCycle, netVars, Polling
      <4> QED BY <3>1, <4>1 DEF FailuresWereProbed, NothingYet
    <3> QED BY <3>2, <3>3
  <2>5. CASE StartReport \/ EndCycle \/ Die \/ Revive \/ UNCHANGED monitorVars
             \/ \E d \in IP : Hear(d)
    <3>1. UNCHANGED <<rows, now, sent>> /\ (pc' \in Polling => pc' = pc)
      BY <2>5 DEF StartReport, LockReport, EndCycle, ResetProbe, Die, Exit,
                  Revive, Restart, Hear, Reply, Receive, monitorVars, vars,
                  record, netVars, Polling
    <3> QED BY <3>1 DEF FailuresWereProbed, NothingYet
  <2> QED BY <2>1, <2>2, <2>3, <2>4, <2>5 DEF MonitorNext, MainThread
<1>3. Paid => FailuresWereProbed
  OBVIOUS
<1> HIDE DEF Paid
<1> QED BY <1>1, <1>2, <1>3, CycleInvariance, StatsInvariance, PTL
           DEF MonitorSpec
=============================================================================
