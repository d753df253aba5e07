----------------------------- MODULE DeviceStats -----------------------------
(***************************************************************************)
(* How the verdicts of one poll after another become the history of each   *)
(* device in the table device_stats: update_device_stats() and             *)
(* get_last_stat_for_device() of src/src/monitor_db_api.c.                 *)
(*                                                                         *)
(* The history of a device is run-length coded.  A row stands for a run of *)
(* equal verdicts: polltime is moved forward while the verdict stays the   *)
(* same, and a new row is inserted when it changes.  Which of the two      *)
(* happens is decided by reading the device's last row back.  The result   *)
(* of no write is looked at, the one of the read is used even if it        *)
(* failed, and the process may end between any two queries.                *)
(*                                                                         *)
(* Abstractions: a poll is known by the number of its start_time, which    *)
(* the sleeps of main() keep increasing; an ip stands for its device_id;   *)
(* what a poll may conclude is taken from ProbeCycle's invariant at the    *)
(* location "report"; the read and the write of one device are one step,   *)
(* as nobody else writes the table: a process that ends between them has   *)
(* the same effect as one that ends before the read.                       *)
(***************************************************************************)
EXTENDS Naturals, Sequences, FiniteSets

CONSTANTS
    Device,    \* the devices of the database
    Mac,       \* MAC addresses
    NoMac,     \* the NULL of the mac_address column
    MaxPolls   \* bound on the number of polls that are started

ASSUME NoMacAssumption == NoMac \notin Mac
ASSUME MaxPollsAssumption == MaxPolls \in Nat

VARIABLES
    pc,        \* where the main thread is
    now,       \* start_time of the poll
    known,     \* the keys of ip_ids
    answers,   \* ips_to_macs: the MAC of everybody who answered
    silent,    \* the array of unresponsive devices
    todo,      \* what is left of the loop of update_device_stats()
    rows,      \* device_stats: the rows of each device, by id
    seen,      \* the verdicts that reached the database (history)
    lost,      \* devices with a failed write in this report (history)
    misread    \* devices whose rows were once not read back (history)

vars == <<pc, now, known, answers, silent, todo, rows, seen, lost, misread>>

Row == [ok : BOOLEAN, time : Nat, mac : Mac \cup {NoMac}, first : Nat]

Verdict == [ok : BOOLEAN, time : Nat, mac : Mac \cup {NoMac}]

Answers == UNION {[S -> Mac] : S \in SUBSET Device}

TypeOK ==
    /\ pc \in {"idle", "probing", "up", "down", "done", "dead"}
    /\ now \in 0..MaxPolls
    /\ known \subseteq Device /\ silent \subseteq Device
    /\ todo \subseteq Device
    /\ answers \in Answers
    /\ rows \in [Device -> Seq(Row)]
    /\ seen \in [Device -> Seq(Verdict)]
    /\ lost \subseteq Device /\ misread \subseteq Device

Init ==
    /\ pc = "idle" /\ now = 0
    /\ known = {} /\ silent = {} /\ todo = {}
    /\ answers = [d \in {} |-> NoMac]
    /\ rows = [d \in Device |-> <<>>]
    /\ seen = [d \in Device |-> <<>>]
    /\ lost = {} /\ misread = {}

-----------------------------------------------------------------------------
(* The main thread around the report.                                      *)

(* start_time = time(0); get_devices_to_probe(): no rows leave the ip_ids  *)
(* of the poll before; without any the process cannot but end.             *)
StartPoll(ips) ==
    /\ pc = "idle" /\ now < MaxPolls
    /\ now' = now + 1
    /\ known' = IF ips # {} THEN ips ELSE known
    /\ known' # {}
    /\ pc' = "probing"
    /\ UNCHANGED <<answers, silent, todo, rows, seen, lost, misread>>

(* The polls are over: each device is in the table, on the list, or, when  *)
(* its answer came late, on both.  The first loop of the report takes the  *)
(* keys of the table and skips those that have no device_id.               *)
StartReport(table, devices) ==
    /\ pc = "probing"
    /\ devices \subseteq known /\ known \subseteq devices \cup DOMAIN table
    /\ answers' = table
    /\ silent' = devices
    /\ todo' = known \cap DOMAIN table
    /\ lost' = {}
    /\ pc' = "up"
    /\ UNCHANGED <<now, known, rows, seen, misread>>

(* UPDATE_DEVICE_STAT in either loop: the MAC is never renewed; a mutation.*)
UpdatedTimeOnly(row, mac) == [row EXCEPT !.time = now]

(* UPDATE_DEVICE_STAT_MAC, UPDATE_DEVICE_STAT.                             *)
Updated(row, mac) ==
    [row EXCEPT !.time = now, !.mac = IF row.ok THEN mac ELSE @]

(* Mutations of Written: every inserted row has a firstpoll; all rows of   *)
(* the device are updated.                                                 *)
WrittenAlwaysFirst(history, count, ok, mac) ==
    IF count > 0 /\ history[count].ok = ok
      THEN [history EXCEPT ![count] = Updated(@, mac)]
      ELSE Append(history, [ok |-> ok, time |-> now, mac |-> mac,
                            first |-> now])

WrittenToAllRows(history, count, ok, mac) ==
    IF count > 0 /\ history[count].ok = ok
      THEN [i \in DOMAIN history |-> Updated(history[i], mac)]
      ELSE Append(history, [ok |-> ok, time |-> now, mac |-> mac,
                            first |-> IF count = 0 THEN now ELSE 0])

(* What the statement makes of a device's rows, count of which were read:  *)
(* the update of the last one, or INSERT_NEW_..., or INSERT_FIRST_....     *)
Written(history, count, ok, mac) ==
    IF count > 0 /\ history[count].ok = ok
      THEN [history EXCEPT ![count] = Updated(@, mac)]
      ELSE Append(history, [ok |-> ok, time |-> now, mac |-> mac,
                            first |-> IF count = 0 THEN now ELSE 0])

(* get_last_stat_for_device(): when the query fails, results is whatever   *)
(* the stack holds; the outcomes that leave the heap in order are the end  *)
(* of the process (Crash) and a row_count of 0.                            *)
RowCount(d) == {Len(rows[d]), 0}

(* Read the last row, then write.  The write may fail unnoticed.           *)
Store(d, ok, mac) ==
    \/ /\ \E count \in RowCount(d) :
              /\ rows' = [rows EXCEPT ![d] = Written(@, count, ok, mac)]
              /\ misread' = IF count # Len(rows[d]) THEN misread \cup {d}
                                                    ELSE misread
       /\ seen' = [seen EXCEPT ![d] = Append(@, [ok |-> ok, time |-> now,
                                                 mac |-> mac])]
       /\ lost' = lost
    \/ /\ lost' = lost \cup {d}
       /\ UNCHANGED <<rows, seen, misread>>

(* One turn of either loop.                                                *)
Record(d, ok, mac) ==
    /\ d \in todo
    /\ todo' = todo \ {d}
    /\ Store(d, ok, mac)
    /\ UNCHANGED <<pc, now, known, answers, silent>>

RecordUp(d) == pc = "up" /\ d \in todo /\ Record(d, TRUE, answers[d])

(* Who is in the table is not on the list, late answers or not: a mutation.*)
TurnToUnanswered ==
    /\ pc = "up" /\ todo = {}
    /\ todo' = known \ DOMAIN answers
    /\ pc' = "down"
    /\ UNCHANGED <<now, known, answers, silent, rows, seen, lost, misread>>

TurnToSilent ==
    /\ pc = "up" /\ todo = {}
    /\ todo' = known \cap silent
    /\ pc' = "down"
    /\ UNCHANGED <<now, known, answers, silent, rows, seen, lost, misread>>

RecordDown(d) == pc = "down" /\ Record(d, FALSE, NoMac)

EndReport ==
    /\ pc = "down" /\ todo = {}
    /\ pc' = "done"
    /\ UNCHANGED <<now, known, answers, silent, todo, rows, seen, lost,
                   misread>>

(* The list is freed, the table reset; then the sleep of probe_sleep.      *)
EndCycle ==
    /\ pc = "done"
    /\ pc' = "idle"
    /\ answers' = [d \in {} |-> NoMac] /\ silent' = {}
    /\ UNCHANGED <<now, known, todo, rows, seen, lost, misread>>

-----------------------------------------------------------------------------
(* The process ends at any point, as it does when a device that has been   *)
(* disconnected has no row for GET_DEVICE_INFO, and is restarted: what it  *)
(* had not written yet is never written.                                   *)

Crash ==
    /\ pc # "dead"
    /\ pc' = "dead"
    /\ known' = {} /\ silent' = {} /\ todo' = {}
    /\ answers' = [d \in {} |-> NoMac]
    /\ UNCHANGED <<now, rows, seen, lost, misread>>

Restart ==
    /\ pc = "dead"
    /\ pc' = "idle"
    /\ UNCHANGED <<now, known, answers, silent, todo, rows, seen, lost,
                   misread>>

Next ==
    \/ \E ips \in SUBSET Device : StartPoll(ips)
    \/ \E table \in Answers, devices \in SUBSET known :
          StartReport(table, devices)
    \/ \E d \in Device : RecordUp(d) \/ RecordDown(d)
    \/ TurnToSilent
    \/ EndReport
    \/ EndCycle
    \/ Crash
    \/ Restart

Spec == Init /\ [][Next]_vars

-----------------------------------------------------------------------------
(* What the table says afterwards.                                         *)

(* The verdicts with which a run of equal verdicts ends, and the number of *)
(* the run that a verdict belongs to.                                      *)
RunEnds(s) == {i \in DOMAIN s : i = Len(s) \/ s[i + 1].ok # s[i].ok}

RunOf(s, i) == Cardinality({j \in RunEnds(s) : j < i}) + 1

Codes(history, s) ==
    /\ Len(history) = Cardinality(RunEnds(s))
    /\ \A i \in RunEnds(s) :
          LET row == history[RunOf(s, i)]
          IN  [ok |-> row.ok, time |-> row.time, mac |-> row.mac] = s[i]

(* The rows of a device are the run-length code of the verdicts that       *)
(* reached the database, through crashes, lost writes and polls that gave  *)
(* two verdicts: a row per run, with the time and the MAC of its last      *)
(* verdict.                                                                *)
HistoryIsRunLengthCoded ==
    \A d \in Device \ misread : Codes(rows[d], seen[d])

(* Adjacent rows of a device have different verdicts, and are in the order *)
(* of their polltimes.                                                     *)
Alternating(history) ==
    \A i \in 1..(Len(history) - 1) :
        /\ history[i].ok # history[i + 1].ok
        /\ history[i].time <= history[i + 1].time

RowsAlternate == \A d \in Device \ misread : Alternating(rows[d])

(* firstpoll is set on the first row of a device, whatever poll, before or *)
(* after a restart, inserts it, and on no other; it is the first time the  *)
(* database learned anything of the device.                                *)
FirstPollMarksTheStart ==
    \A d \in Device \ misread :
        \A i \in DOMAIN rows[d] :
            rows[d][i].first = IF i = 1 THEN seen[d][1].time ELSE 0

OnRecord(d, ok) ==
    /\ rows[d] # <<>>
    /\ rows[d][Len(rows[d])].time = now
    /\ rows[d][Len(rows[d])].ok = ok

(* When a report is over, the last row of each of its devices is of this   *)
(* poll and says whether the device was on the list of the unresponsive,   *)
(* even if it had been reported as responding before that, unless a write  *)
(* for the device was lost.                                                *)
ReportIsOnRecord ==
    pc = "done" => \A d \in known \ lost : OnRecord(d, d \notin silent)

(* What has been recorded stays: a step of the program adds a row at the   *)
(* end or moves the time of the last row forward, without changing its     *)
(* verdict; in particular it leaves all earlier rows alone.                *)
Extends(new, old) ==
    /\ Len(new) \in {Len(old), Len(old) + 1}
    /\ \A i \in DOMAIN old :
          /\ new[i].ok = old[i].ok /\ new[i].first = old[i].first
          /\ new[i].time >= old[i].time
          /\ new[i] # old[i] => i = Len(old) /\ Len(new) = Len(old)

RecordsStay == [][\A d \in Device : Extends(rows'[d], rows[d])]_vars

(***************************************************************************)
(* The inductive invariant behind these properties.                        *)
(***************************************************************************)

TimesPast == \A d \in Device : \A i \in DOMAIN rows[d] : rows[d][i].time <= now

NothingUnseen == \A d \in Device : rows[d] = <<>> <=> seen[d] = <<>>

(* While the loops run, whoever is neither left to do nor lost is on       *)
(* record; the loops between them reach every device.                      *)
ReportSoFar ==
    /\ pc = "up" =>
          /\ todo \subseteq known \cap DOMAIN answers
          /\ known \subseteq silent \cup DOMAIN answers
          /\ \A d \in (known \cap DOMAIN answers) \ (todo \cup lost) :
                OnRecord(d, TRUE)
    /\ pc = "down" =>
          /\ todo \subseteq known \cap silent
          /\ \A d \in known \ (todo \cup lost) : OnRecord(d, d \notin silent)

IInv ==
    /\ TypeOK
    /\ TimesPast
    /\ NothingUnseen
    /\ ReportSoFar
    /\ RowsAlternate
    /\ FirstPollMarksTheStart
    /\ ReportIsOnRecord
=============================================================================
