----------------------------- MODULE ProbeCycle -----------------------------
(***************************************************************************)
(* The polling cycle of the monitor (src/src/main.c) running beside the    *)
(* thread that listens for ARP replies (src/src/arp/arp_recv.c).  The two  *)
(* share the table of answers ips_to_macs, protected by the mutex mux      *)
(* (src/src/shared.c).                                                     *)
(*                                                                         *)
(* A cycle reads the devices to probe from the database, sends them ARP    *)
(* requests in rounds, first "normal" and then "aggressive", drops from    *)
(* the list whoever has answered after each round, and finally reports     *)
(* both the answers and the devices still on the list to the database.     *)
(*                                                                         *)
(* Abstractions: an answer is the IP address it comes from (its MAC is     *)
(* payload); arrays and hash tables whose order the code does not rely on  *)
(* are sets; a critical section that neither blocks nor calls out is one   *)
(* step; the report, which talks to the database while it holds mux, is    *)
(* many.                                                                   *)
(***************************************************************************)
EXTENDS Naturals

CONSTANTS
    IP,           \* every address that a frame or a database row may carry
    Retries,      \* rounds of a normal poll (RETRIES)
    AggrRetries,  \* rounds of an aggressive poll (AGGR_RETRIES)
    Wake          \* Wake[d]: from its Wake[d]-th request of a cycle on,
                  \* device d answers before the round's timeout

ASSUME RetriesAssumption == Retries \in Nat /\ AggrRetries \in Nat
ASSUME WakeAssumption == Wake \in [IP -> Nat \ {0}]

VARIABLES
    pc,          \* where the main thread is
    phase,       \* which of the two polls of the cycle is running
    round,       \* the loop counter i of poll()
    configured,  \* the addresses the database returned for this cycle
    registry,    \* the keys of ip_ids; {} while ip_ids is still NULL
    devices,     \* the array *devices: who still has to answer
    todo,        \* what is left of the loop the main or the send thread is in
    mux,         \* who holds the mutex across more than one step
    table,       \* the keys of ips_to_macs
    wire,        \* replies emitted and not yet in the table
    sent,        \* requests sent to each address in this cycle
    owed,        \* awake devices that were asked and are not in the table yet
    heard,       \* whose replies were received since the cycle began (history)
    outcome      \* the verdicts reported for each address in this cycle

vars == <<pc, phase, round, configured, registry, devices, todo, mux, table,
          wire, sent, owed, heard, outcome>>

pollVars == <<phase, round, configured, registry>>
netVars  == <<wire, sent, owed, heard>>

Total == Retries + AggrRetries

Polling   == {"poll", "send", "sleep", "check"}
Reporting == {"report", "up", "down"}
Locations == Polling \cup Reporting \cup {"fetch", "reset", "idle", "dead"}

TypeOK ==
    /\ pc \in Locations
    /\ phase \in {"normal", "aggressive"}
    /\ round \in Nat
    /\ configured \subseteq IP /\ registry \subseteq IP
    /\ devices \subseteq IP /\ todo \subseteq IP
    /\ mux \in {"free", "main"}
    /\ table \subseteq IP /\ wire \subseteq IP
    /\ owed \subseteq IP /\ heard \subseteq IP
    /\ sent \in [IP -> Nat]
    /\ outcome \in [IP -> SUBSET {"up", "down"}]

-----------------------------------------------------------------------------
(* The state in which main() enters its loop: reset_probe() has run and    *)
(* the receiving thread has been created.                                  *)

Init ==
    /\ pc = "fetch" /\ phase = "normal" /\ round = 0
    /\ configured = {} /\ registry = {} /\ devices = {} /\ todo = {}
    /\ mux = "free" /\ table = {}
    /\ wire = {} /\ owed = {} /\ heard = {}
    /\ sent = [d \in IP |-> 0]
    /\ outcome = [d \in IP |-> {}]

RoundsOf(p) == IF p = "normal" THEN Retries ELSE AggrRetries

(* The loop of poll() runs once less than it should: a mutation.           *)
MoreRoundsButOne == round + 1 < RoundsOf(phase) /\ devices # {}

MoreRounds == round < RoundsOf(phase) /\ devices # {}

-----------------------------------------------------------------------------
(* Mutations of the actions below: mistakes that the properties notice.    *)

(* Who has answered is not taken off the list.                             *)
UpdateNoDevices ==
    /\ pc = "check" /\ mux = "free"
    /\ round' = round + 1
    /\ pc' = "poll"
    /\ UNCHANGED <<phase, configured, registry, devices, todo, mux, table,
                   netVars, outcome>>

(* The aggressive poll is left out.                                        *)
EndNormalPolling ==
    /\ pc = "poll" /\ ~MoreRounds
    /\ pc' = "report"
    /\ UNCHANGED <<pollVars, devices, todo, mux, table, netVars, outcome>>

(* The table is reset before the report instead of after it.               *)
ResetAndEndPolling ==
    /\ pc = "poll" /\ ~MoreRounds
    /\ phase = "aggressive" \/ devices = {}
    /\ table' = {}
    /\ pc' = "report"
    /\ UNCHANGED <<pollVars, devices, todo, mux, netVars, outcome>>

(* Addresses of the table that are not devices are not skipped.            *)
LockReportOfAll ==
    /\ pc = "report" /\ mux = "free"
    /\ mux' = "main"
    /\ todo' = table
    /\ pc' = "up"
    /\ UNCHANGED <<pollVars, devices, table, netVars, outcome>>

(* The mutex is never given back.                                          *)
KeepLock ==
    /\ pc = "down" /\ todo = {}
    /\ pc' = "reset"
    /\ UNCHANGED <<pollVars, devices, todo, mux, table, netVars, outcome>>

(* The list is not freed: it survives into the sleep of the cycle.         *)
ResetProbeKeepingList ==
    /\ pc = "reset" /\ mux = "free"
    /\ table' = {}
    /\ pc' = "idle"
    /\ UNCHANGED <<pollVars, devices, todo, mux, netVars, outcome>>

-----------------------------------------------------------------------------
(* The main thread.                                                        *)

(* The map of the previous cycle is filled on: a mutation.                 *)
GetDevicesToo(rows) ==
    /\ pc = "fetch"
    /\ configured' = rows
    /\ registry' = rows \cup registry
    /\ registry' # {}
    /\ devices' = registry'
    /\ phase' = "normal" /\ round' = 0 /\ pc' = "poll"
    /\ sent' = [d \in IP |-> 0]
    /\ owed' = {}
    /\ outcome' = [d \in IP |-> {}]
    /\ UNCHANGED <<todo, mux, table, wire, heard>>

(* get_devices_to_probe(): an empty answer leaves the map of the previous  *)
(* cycle in place.  When there is none yet, the map is a null pointer and  *)
(* the only continuation is Exit.                                          *)
GetDevices(rows) ==
    /\ pc = "fetch"
    /\ configured' = rows
    /\ registry' = IF rows # {} THEN rows ELSE registry
    /\ registry' # {}
    /\ devices' = registry'
    /\ phase' = "normal" /\ round' = 0 /\ pc' = "poll"
    /\ sent' = [d \in IP |-> 0]
    /\ owed' = {}
    /\ outcome' = [d \in IP |-> {}]
    /\ UNCHANGED <<todo, mux, table, wire, heard>>

(* poll(): one more round, carried out by a thread created for it.         *)
StartRound ==
    /\ pc = "poll" /\ MoreRounds
    /\ todo' = devices
    /\ pc' = "send"
    /\ UNCHANGED <<pollVars, devices, mux, table, netVars, outcome>>

(* start_send_loop() calls arp_send() on each address of the array.        *)
Send(d) ==
    /\ pc = "send" /\ d \in todo
    /\ todo' = todo \ {d}
    /\ sent' = [sent EXCEPT ![d] = @ + 1]
    /\ owed' = IF sent'[d] >= Wake[d] THEN owed \cup {d} ELSE owed
    /\ UNCHANGED <<pc, pollVars, devices, mux, table, wire, heard, outcome>>

JoinSender ==
    /\ pc = "send" /\ todo = {}
    /\ pc' = "sleep"
    /\ UNCHANGED <<pollVars, devices, todo, mux, table, netVars, outcome>>

(* sleep(sleep_period): a timeout is long enough for the answers of the    *)
(* devices that are awake to reach the table.                              *)
SleepRound ==
    /\ pc = "sleep" /\ owed = {}
    /\ pc' = "check"
    /\ UNCHANGED <<pollVars, devices, todo, mux, table, netVars, outcome>>

(* update_devices_to_probe(): under the mutex get_ips_that_responded()     *)
(* copies the keys, which then leave the array of devices.                 *)
UpdateDevices ==
    /\ pc = "check" /\ mux = "free"
    /\ devices' = devices \ table
    /\ round' = round + 1
    /\ pc' = "poll"
    /\ UNCHANGED <<phase, configured, registry, todo, mux, table, netVars,
                   outcome>>

(* poll_normally() is over and somebody has not answered.                  *)
PollAggressively ==
    /\ pc = "poll" /\ ~MoreRounds
    /\ phase = "normal" /\ devices # {}
    /\ phase' = "aggressive" /\ round' = 0
    /\ UNCHANGED <<pc, configured, registry, devices, todo, mux, table,
                   netVars, outcome>>

EndPolling ==
    /\ pc = "poll" /\ ~MoreRounds
    /\ phase = "aggressive" \/ devices = {}
    /\ pc' = "report"
    /\ UNCHANGED <<pollVars, devices, todo, mux, table, netVars, outcome>>

(* update_db_after_probing() keeps mux for the whole of                    *)
(* update_device_stats(), whose first loop runs over the table and skips   *)
(* the addresses that are not devices ...                                  *)
LockReport ==
    /\ pc = "report" /\ mux = "free"
    /\ mux' = "main"
    /\ todo' = table \cap registry
    /\ pc' = "up"
    /\ UNCHANGED <<pollVars, devices, table, netVars, outcome>>

ReportUp(d) ==
    /\ pc = "up" /\ d \in todo
    /\ todo' = todo \ {d}
    /\ outcome' = [outcome EXCEPT ![d] = @ \cup {"up"}]
    /\ UNCHANGED <<pc, pollVars, devices, mux, table, netVars>>

(* ... and whose second loop runs over the list of unresponsive devices.   *)
ReportUnresponsive ==
    /\ pc = "up" /\ todo = {}
    /\ todo' = devices \cap registry
    /\ pc' = "down"
    /\ UNCHANGED <<pollVars, devices, mux, table, netVars, outcome>>

ReportDown(d) ==
    /\ pc = "down" /\ d \in todo
    /\ todo' = todo \ {d}
    /\ outcome' = [outcome EXCEPT ![d] = @ \cup {"down"}]
    /\ UNCHANGED <<pc, pollVars, devices, mux, table, netVars>>

UnlockReport ==
    /\ pc = "down" /\ todo = {}
    /\ mux' = "free"
    /\ pc' = "reset"
    /\ UNCHANGED <<pollVars, devices, todo, table, netVars, outcome>>

(* The list is freed; reset_probe(): a new, empty table.                   *)
ResetProbe ==
    /\ pc = "reset" /\ mux = "free"
    /\ devices' = {} /\ table' = {}
    /\ pc' = "idle"
    /\ UNCHANGED <<pollVars, todo, mux, netVars, outcome>>

(* sleep(probe_sleep); the next cycle begins (main.c:190).                 *)
SleepCycle ==
    /\ pc = "idle"
    /\ pc' = "fetch"
    /\ heard' = {}
    /\ UNCHANGED <<pollVars, devices, todo, mux, table, wire, sent, owed,
                   outcome>>

MainStep ==
    \/ \E rows \in SUBSET IP : GetDevices(rows)
    \/ StartRound
    \/ \E d \in IP : Send(d)
    \/ JoinSender
    \/ SleepRound
    \/ UpdateDevices
    \/ PollAggressively
    \/ EndPolling
    \/ LockReport
    \/ \E d \in IP : ReportUp(d)
    \/ ReportUnresponsive
    \/ \E d \in IP : ReportDown(d)
    \/ UnlockReport
    \/ ResetProbe
    \/ SleepCycle

-----------------------------------------------------------------------------
(* The network and the receiving thread.                                   *)

(* Any host may emit an ARP reply at any time: asked or not, late, or      *)
(* twice.  The raw socket sees them all.                                   *)
Reply(d) ==
    /\ wire' = wire \cup {d}
    /\ UNCHANGED <<pc, pollVars, devices, todo, mux, table, sent, owed, heard,
                   outcome>>

(* The body of arp_recv()'s loop, ending in received_mac_for_ip(), which   *)
(* waits for the mutex.                                                    *)
Receive(d) ==
    /\ pc # "dead" /\ mux = "free"
    /\ d \in wire
    /\ wire' = wire \ {d}
    /\ table' = table \cup {d}
    /\ owed' = owed \ {d}
    /\ heard' = heard \cup {d}
    /\ UNCHANGED <<pc, pollVars, devices, todo, mux, sent, outcome>>

-----------------------------------------------------------------------------
(* The process: exit() in either thread, a failed query or a signal ends   *)
(* it at any point; systemd starts it again (Restart=always).  Memory is   *)
(* lost, and with the socket any of the replies that it had queued.        *)

Exit ==
    /\ pc # "dead"
    /\ pc' = "dead" /\ mux' = "free"
    /\ phase' = "normal" /\ round' = 0
    /\ configured' = {} /\ registry' = {} /\ devices' = {} /\ todo' = {}
    /\ table' = {} /\ owed' = {}
    /\ UNCHANGED <<wire, sent, heard, outcome>>

Restart(kept) ==
    /\ pc = "dead"
    /\ kept \subseteq wire
    /\ wire' = kept
    /\ pc' = "fetch"
    /\ heard' = {}
    /\ UNCHANGED <<pollVars, devices, todo, mux, table, sent, owed, outcome>>

Next ==
    \/ MainStep
    \/ \E d \in IP : Reply(d) \/ Receive(d)
    \/ Exit
    \/ \E kept \in SUBSET wire : Restart(kept)

(* The main thread is scheduled and its sleeps end; an awake device that   *)
(* was asked answers; the receiving thread handles every reply queued on   *)
(* its socket; systemd restarts the process.                               *)
Fairness ==
    /\ WF_vars(MainStep)
    /\ \A d \in IP : WF_vars(d \in owed /\ Reply(d)) /\ WF_vars(Receive(d))
    /\ WF_vars(\E kept \in SUBSET wire : Restart(kept))

Spec == Init /\ [][Next]_vars /\ Fairness

-----------------------------------------------------------------------------
(* What a cycle guarantees.                                                *)

(* No device falls between the two lists: when the report of a cycle is    *)
(* over, each device of ip_ids has been reported, although the table grew  *)
(* and the list of devices shrank concurrently all along.                  *)
EveryDeviceJudged ==
    pc = "reset" => \A d \in registry : outcome[d] # {}

(* A device is only reported as not responding after every request of      *)
(* both polls has been sent to it.                                         *)
DownOnlyAfterAllProbes ==
    \A d \in IP : "down" \in outcome[d] => sent[d] = Total

(* "wake up sleepy devices" (main.c:200): a device that answers from some  *)
(* request of the cycle on, be it the last of the aggressive poll, is      *)
(* reported as responding and as nothing else.                             *)
AwakeDevicesAreUp ==
    pc = "reset" =>
        \A d \in registry : Wake[d] <= Total => outcome[d] = {"up"}

(* A device whose answer has arrived in time is left alone by the          *)
(* following rounds.                                                       *)
NoNeedlessProbe ==
    \A d \in IP : sent[d] <= Wake[d]

(* The service "ARP queries devices specified in the database"             *)
(* (automation_stack_monitor.service:14): after an answer with devices the *)
(* others are neither asked nor judged, although the map of the registry   *)
(* and the table outlive the cycles.  (After an empty one they are.)       *)
OnlyConfigured ==
    configured # {} =>
        \A d \in IP \ configured : sent[d] = 0 /\ outcome[d] = {}

(* Every cycle that is started ends, unless the process does.              *)
CycleEnds ==
    pc = "poll" ~> pc \in {"idle", "dead"}

(***************************************************************************)
(* Why it does: the inductive invariant behind the safety properties.      *)
(***************************************************************************)

(* The requests that a listed device had been sent when the round under    *)
(* way, or about to start, began.                                          *)
SentBefore == IF phase = "normal" THEN round ELSE Retries + round

(* Where the loops stand, and over what they run.                          *)
LoopsInRange ==
    /\ round <= RoundsOf(phase)
    /\ pc \in {"send", "sleep", "check"} => round < RoundsOf(phase)
    /\ pc \in Reporting \cup {"reset"} /\ devices # {} =>
          phase = "aggressive" /\ round = AggrRetries
    /\ pc \notin Polling \cup Reporting \cup {"reset"} => devices = {}
    /\ pc \in {"send", "down"} => todo \subseteq devices
    /\ pc = "up" => todo \subseteq registry

(* A device is on the list, in the table, or reported.                     *)
Accounted ==
    /\ devices \subseteq registry
    /\ pc \in Polling \cup {"report"} => registry \subseteq table \cup devices
    /\ pc = "up" => \A d \in registry :
          d \in todo \/ d \in devices \/ outcome[d] = {"up"}
    /\ pc = "down" => \A d \in registry : d \in todo \/ outcome[d] # {}

(* Listed devices have been sent the same number of requests.              *)
Requests ==
    \A d \in devices :
        sent[d] = IF pc \in {"sleep", "check"} \/ (pc = "send" /\ d \notin todo)
                    THEN SentBefore + 1
                    ELSE SentBefore

(* A listed device was still asleep when the round began; once awake and   *)
(* asked, it is in the table at the latest when the table is looked at.    *)
Asleep ==
    /\ \A d \in devices : SentBefore < Wake[d]
    /\ \A d \in devices : sent[d] >= Wake[d] => d \in owed \cup table
    /\ pc = "check" => owed = {}

(* Verdicts are given in the report, each once, the "up" ones first.       *)
Verdicts ==
    /\ pc \in Polling \cup {"report"} => \A d \in IP : outcome[d] = {}
    /\ pc = "up" => \A d \in IP : "down" \notin outcome[d]
    /\ pc = "up" => \A d \in todo : outcome[d] = {}
    /\ pc = "down" => \A d \in todo : "down" \notin outcome[d]
    /\ pc = "down" => \A d \in registry :
                         Wake[d] <= Total => outcome[d] = {"up"}

IInv ==
    /\ TypeOK
    /\ LoopsInRange
    /\ Accounted
    /\ Requests
    /\ Asleep
    /\ Verdicts
    /\ EveryDeviceJudged
    /\ DownOnlyAfterAllProbes
    /\ AwakeDevicesAreUp
    /\ NoNeedlessProbe

-----------------------------------------------------------------------------
(* The cycle implements PollContract: a poll is open from the moment the   *)
(* devices have been read to the moment their report is over.              *)
Contract == INSTANCE PollContract WITH
                open    <- pc \in Polling \cup Reporting,
                subject <- registry,
                verdict <- outcome

KeepsContract == Contract!Spec

-----------------------------------------------------------------------------
(* What the code and its documentation say, and a cycle does not do.       *)

(* The report prints one list of devices "that responded" and one of       *)
(* devices "that did not respond during probing cycle"                     *)
(* (monitor_db_api.c:190 and 231): no device is on both.                   *)
OneVerdictPerDevice ==
    \A d \in IP : outcome[d] # {"up", "down"}

(* "Reset the probe data structures for the next polling cycle"            *)
(* (main.c:210): a device reported as responding to a polling cycle has    *)
(* been heard during that cycle, from its start_time on (main.c:190), not  *)
(* in the sleep between the reset and the next start_time.                 *)
UpMeansAnswered ==
    pc = "reset" => \A d \in IP : "up" \in outcome[d] => d \in heard
=============================================================================
