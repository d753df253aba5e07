------------------------------- MODULE Monitor -------------------------------
(***************************************************************************)
(* The whole of a poll: the cycle of ProbeCycle with the records of        *)
(* DeviceStats.  The report of the cycle is the one that the statistics    *)
(* are made of: each turn of its loops reads and writes device_stats, for  *)
(* the devices that the threads left in the table and on the list.         *)
(*                                                                         *)
(* An answer has its MAC again, chosen when the report locks the table, as *)
(* nothing before that looks at it.                                        *)
(***************************************************************************)
EXTENDS ProbeCycle, Sequences

CONSTANTS
    Mac,       \* MAC addresses
    NoMac,     \* the NULL of the mac_address column
    MaxPolls   \* bound on the number of polls that are started

ASSUME NullAssumption == NoMac \notin Mac
ASSUME PollsAssumption == MaxPolls \in Nat

VARIABLES
    now,       \* start_time of the cycle
    answers,   \* ips_to_macs as the report finds it
    rows,      \* device_stats: the rows of each device, by id
    seen,      \* the verdicts that reached the database (history)
    lost,      \* devices with a failed write in this report (history)
    misread    \* devices whose rows were once not read back (history)

record == <<rows, seen, misread>>

monitorVars == <<vars, now, answers, record, lost>>

NoAnswers == [d \in {} |-> NoMac]

(* What the statistics see of the cycle.                                   *)
Loops == pc \in {"up", "down"}

Stats == INSTANCE DeviceStats WITH
            Device <- IP,
            pc     <- IF pc \in {"fetch", "idle"} THEN "idle"
                      ELSE IF pc \in Polling \cup {"report"} THEN "probing"
                      ELSE IF pc = "reset" THEN "done"
                      ELSE pc,
            known  <- registry,
            silent <- IF Loops \/ pc = "reset" THEN devices ELSE {},
            todo   <- IF Loops THEN todo ELSE {}

MonitorInit ==
    /\ Init
    /\ now = 0 /\ answers = NoAnswers
    /\ rows = [d \in IP |-> <<>>] /\ seen = [d \in IP |-> <<>>]
    /\ lost = {} /\ misread = {}

-----------------------------------------------------------------------------
(* start_time is taken once, before the loop: a mutation.                  *)
StartPollAtFirstTime(ips) ==
    /\ now < MaxPolls
    /\ now' = IF now = 0 THEN 1 ELSE now
    /\ GetDevices(ips)
    /\ UNCHANGED <<answers, record, lost>>

(* start_time = time(0); get_devices_to_probe().                           *)
StartPoll(ips) ==
    /\ now < MaxPolls
    /\ now' = now + 1
    /\ GetDevices(ips)
    /\ UNCHANGED <<answers, record, lost>>

(* update_db_after_probing(): the table, under its lock, is what           *)
(* update_device_stats() is called with.                                   *)
StartReport ==
    /\ LockReport
    /\ answers' \in [table -> Mac]
    /\ lost' = {}
    /\ UNCHANGED <<now, record>>

RecordUp(d) ==
    /\ ReportUp(d)
    /\ Stats!Store(d, TRUE, answers[d])
    /\ UNCHANGED <<now, answers>>

RecordDown(d) ==
    /\ ReportDown(d)
    /\ Stats!Store(d, FALSE, NoMac)
    /\ UNCHANGED <<now, answers>>

EndCycle ==
    /\ ResetProbe
    /\ answers' = NoAnswers
    /\ UNCHANGED <<now, record, lost>>

(* What the cycle does without the database.                               *)
Probe ==
    /\ \/ StartRound \/ JoinSender \/ SleepRound \/ UpdateDevices
       \/ PollAggressively \/ EndPolling \/ ReportUnresponsive
       \/ UnlockReport \/ SleepCycle
       \/ \E d \in IP : Send(d)
    /\ UNCHANGED <<now, answers, record, lost>>

MainThread ==
    \/ \E ips \in SUBSET IP : StartPoll(ips)
    \/ Probe
    \/ StartReport
    \/ \E d \in IP : RecordUp(d) \/ RecordDown(d)
    \/ EndCycle

Hear(d) ==
    /\ Reply(d) \/ Receive(d)
    /\ UNCHANGED <<now, answers, record, lost>>

Die ==
    /\ Exit
    /\ answers' = NoAnswers
    /\ UNCHANGED <<now, record, lost>>

Revive ==
    /\ \E kept \in SUBSET wire : Restart(kept)
    /\ UNCHANGED <<now, answers, record, lost>>

MonitorNext ==
    \/ MainThread
    \/ \E d \in IP : Hear(d)
    \/ Die
    \/ Revive

(* The fairness of the cycle, query by query.                              *)
MonitorFairness ==
    /\ WF_monitorVars(MainThread)
    /\ \A d \in IP : /\ WF_monitorVars(d \in owed /\ Reply(d) /\ Hear(d))
                     /\ WF_monitorVars(Receive(d) /\ Hear(d))
    /\ WF_monitorVars(Revive)

MonitorSpec == MonitorInit /\ [][MonitorNext]_monitorVars /\ MonitorFairness

-----------------------------------------------------------------------------
(* The statistics that the cycle feeds are those of DeviceStats: above     *)
(* all, what the polls leave behind for the report is what DeviceStats     *)
(* assumes of it, whenever answers come and wherever the process ends.     *)
KeepsStats == Stats!Init /\ [][Stats!Next]_(Stats!vars)

(* A failure in the database has been paid for: a row that says a device   *)
(* did not respond at this poll's time exists only after every request of  *)
(* both polls was sent to it.                                              *)
FailuresWereProbed ==
    \A d \in IP : \A i \in DOMAIN rows[d] :
        ~rows[d][i].ok /\ rows[d][i].time = now => sent[d] = Total

(* From the wake-up request to the database: when a report is over, the    *)
(* last row of a device that answers some request of the cycle in time is  *)
(* a success of this poll, unless one of its writes was lost.              *)
AwakeDevicesOnRecord ==
    pc = "reset" =>
        \A d \in registry \ lost : Wake[d] <= Total => Stats!OnRecord(d, TRUE)

(* Such a device gets there in the end, unless the process does not.       *)
AwakeDevicesGetRecorded ==
    \A d \in IP :
        pc = "poll" /\ d \in registry /\ Wake[d] <= Total ~>
            Stats!OnRecord(d, TRUE) \/ (pc = "reset" /\ d \in lost) \/ pc = "dead"
=============================================================================
