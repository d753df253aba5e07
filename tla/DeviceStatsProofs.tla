------------------------- MODULE DeviceStatsProofs -------------------------
(***************************************************************************)
(* What the table device_stats says about each device, for every number of *)
(* devices, MAC addresses and polls.                                       *)
(***************************************************************************)
EXTENDS DeviceStats, SequenceTheorems, FiniteSetTheorems, TLAPS

(* UPDATE_DEVICE_STAT(_MAC) moves a row to this poll and leaves its        *)
(* verdict and firstpoll alone.                                            *)
LEMMA UpdatedRow ==
    ASSUME NEW row \in Row, NEW mac \in Mac \cup {NoMac}, now \in Nat
    PROVE  /\ Updated(row, mac) \in Row
           /\ Updated(row, mac).ok = row.ok
           /\ Updated(row, mac).time = now
           /\ Updated(row, mac).first = row.first
BY DEF Updated, Row

(* Whatever was read back, the statement that update_device_stats()        *)
(* chooses leaves a table of rows.                                         *)
LEMMA WrittenIsRows ==
    ASSUME NEW history \in Seq(Row), NEW count \in {Len(history), 0},
           NEW ok \in BOOLEAN, NEW mac \in Mac \cup {NoMac}, now \in Nat
    PROVE  Written(history, count, ok, mac) \in Seq(Row)
<1>1. CASE count > 0 /\ history[count].ok = ok
  BY <1>1, UpdatedRow DEF Written
<1>2. CASE ~(count > 0 /\ history[count].ok = ok)
  <2> DEFINE row == [ok |-> ok, time |-> now, mac |-> mac,
                     first |-> IF count = 0 THEN now ELSE 0]
  <2>1. row \in Row
    BY DEF Row
  <2>2. Written(history, count, ok, mac) = Append(history, row)
    BY <1>2 DEF Written
  <2> HIDE DEF row
  <2> QED BY <2>1, <2>2
<1> QED BY <1>1, <1>2

(* The last row is of this poll and has its verdict; no other is changed.  *)
RecordsVerdict(w, history, ok) ==
    /\ w # <<>>
    /\ w[Len(w)].ok = ok /\ w[Len(w)].time = now
    /\ Len(w) \in {Len(history), Len(history) + 1}
    /\ \A i \in 1..Len(history) : i # Len(w) => w[i] = history[i]
    /\ \A i \in 1..Len(history) :
          w[i].ok = history[i].ok /\ w[i].first = history[i].first

(* That is what the write does, whichever of the statements is chosen.     *)
LEMMA WrittenLast ==
    ASSUME NEW history \in Seq(Row), NEW count \in {Len(history), 0},
           NEW ok \in BOOLEAN, NEW mac \in Mac \cup {NoMac}, now \in Nat
    PROVE  RecordsVerdict(Written(history, count, ok, mac), history, ok)
<1>1. CASE count > 0 /\ history[count].ok = ok
  BY <1>1, UpdatedRow DEF Written, RecordsVerdict
<1>2. CASE ~(count > 0 /\ history[count].ok = ok)
  BY <1>2 DEF Written, Row, RecordsVerdict
<1> QED BY <1>1, <1>2

(* A history that is left alone is extended, by nothing.                   *)
LEMMA ExtendsItself ==
    ASSUME NEW s \in Seq(Row)
    PROVE  Extends(s, s)
<1>1. ASSUME NEW i \in DOMAIN s PROVE s[i].time >= s[i].time
  <2>1. s[i] \in Row
    OBVIOUS
  <2> QED BY <2>1 DEF Row
<1> QED BY <1>1 DEF Extends

(* Updating the last row when the verdict is the same, and inserting one   *)
(* when it is not, keeps adjacent rows different and in order              *)
(* (monitor_db_api.c:210-222, 250-263).                                    *)
LEMMA WrittenAlternates ==
    ASSUME NEW history \in Seq(Row), NEW ok \in BOOLEAN,
           NEW mac \in Mac \cup {NoMac}, now \in Nat,
           Alternating(history),
           \A i \in DOMAIN history : history[i].time <= now
    PROVE  Alternating(Written(history, Len(history), ok, mac))
<1> DEFINE n == Len(history)
           w == Written(history, n, ok, mac)
<1>1. CASE n > 0 /\ history[n].ok = ok
  <2>1. w = [history EXCEPT ![n] = Updated(@, mac)]
    BY <1>1 DEF Written
  <2>2. /\ Updated(history[n], mac).ok = history[n].ok
        /\ Updated(history[n], mac).time = now
    BY <1>1, UpdatedRow
  <2> QED BY <1>1, <2>1, <2>2 DEF Alternating, Row
<1>2. CASE ~(n > 0 /\ history[n].ok = ok)
  <2> DEFINE row == [ok |-> ok, time |-> now, mac |-> mac,
                     first |-> IF n = 0 THEN now ELSE 0]
  <2>1. w = Append(history, row)
    BY <1>2 DEF Written
  <2>2. row.ok = ok /\ row.time = now
    OBVIOUS
  <2>3. n > 0 => history[n].ok # ok
    BY <1>2 DEF Row
  <2>4. row \in Row
    BY DEF Row
  <2> HIDE DEF row, w
  <2>5. /\ Len(w) = n + 1 /\ w[n + 1] = row
        /\ \A i \in 1..n : w[i] = history[i]
    BY <2>1, <2>4
  <2>6. ASSUME NEW i \in 1..n
        PROVE  w[i].ok # w[i + 1].ok /\ w[i].time <= w[i + 1].time
    <3>1. CASE i = n
      BY <2>2, <2>3, <2>5, <3>1
    <3>2. CASE i \in 1..(n - 1)
      BY <2>5, <3>2 DEF Alternating
    <3> QED BY <3>1, <3>2
  <2>7. Alternating(w)
    BY <2>5, <2>6 DEF Alternating
  <2> QED BY <2>7 DEF w
<1> QED BY <1>1, <1>2

(* One turn of either loop of update_device_stats(), its lost write and    *)
(* its failed read included: what it preserves, and that its device is on  *)
(* record unless the write is lost.                                        *)
LEMMA RecordEffect ==
    ASSUME IInv, NEW d \in Device, NEW ok \in BOOLEAN,
           NEW mac \in Mac \cup {NoMac}, Record(d, ok, mac),
           pc \in {"up", "down"}
    PROVE  /\ TypeOK'
           /\ TimesPast'
           /\ NothingUnseen'
           /\ RowsAlternate'
           /\ FirstPollMarksTheStart'
           /\ d \in lost' \/ OnRecord(d, ok)'
           /\ lost \subseteq lost'
           /\ \A e \in Device \ {d} : rows'[e] = rows[e]
           /\ \A e \in Device : Extends(rows'[e], rows[e])
<1>0. now \in Nat /\ rows[d] \in Seq(Row) /\ seen[d] \in Seq(Verdict)
  BY MaxPollsAssumption DEF IInv, TypeOK
<1>1. CASE UNCHANGED <<rows, seen, misread>> /\ lost' = lost \cup {d}
  <2>1. TypeOK'
    BY <1>1 DEF IInv, Record, TypeOK
  <2>2. (TimesPast /\ NothingUnseen /\ RowsAlternate /\ FirstPollMarksTheStart)'
    BY <1>1 DEF IInv, Record, TimesPast, NothingUnseen, RowsAlternate,
                FirstPollMarksTheStart
  <2>3. \A e \in Device : rows[e] \in Seq(Row)
    BY DEF IInv, TypeOK
  <2>4. \A e \in Device : Extends(rows'[e], rows[e])
    BY <1>1, <2>3, ExtendsItself
  <2> QED BY <1>1, <2>1, <2>2, <2>4
<1>2. ASSUME NEW count \in RowCount(d),
             rows' = [rows EXCEPT ![d] = Written(@, count, ok, mac)],
             misread' = IF count # Len(rows[d]) THEN misread \cup {d}
                                                 ELSE misread,
             seen' = [seen EXCEPT ![d] = Append(@, [ok |-> ok, time |-> now,
                                                    mac |-> mac])],
             lost' = lost
      PROVE  /\ TypeOK'
             /\ TimesPast'
             /\ NothingUnseen'
             /\ RowsAlternate'
             /\ FirstPollMarksTheStart'
             /\ OnRecord(d, ok)'
             /\ \A e \in Device \ {d} : rows'[e] = rows[e]
             /\ \A e \in Device : Extends(rows'[e], rows[e])
  <2> DEFINE w == Written(rows[d], count, ok, mac)
             verdict == [ok |-> ok, time |-> now, mac |-> mac]
  <2>1. count \in {Len(rows[d]), 0} /\ now' = now
    BY <1>2 DEF RowCount, Record
  <2>2. w \in Seq(Row)
    BY <1>0, <2>1, WrittenIsRows
  <2>3. /\ w # <<>>
        /\ w[Len(w)].ok = ok /\ w[Len(w)].time = now
        /\ Len(w) \in {Len(rows[d]), Len(rows[d]) + 1}
        /\ \A i \in 1..Len(rows[d]) : i # Len(w) => w[i] = rows[d][i]
        /\ \A i \in 1..Len(rows[d]) :
              w[i].ok = rows[d][i].ok /\ w[i].first = rows[d][i].first
    <3>1. rows[d] \in Seq(Row) /\ now \in Nat
      BY <1>0
    <3>2. RecordsVerdict(w, rows[d], ok)
      BY <2>1, <3>1, WrittenLast
    <3> HIDE DEF w
    <3> QED BY <3>2 DEF RecordsVerdict
  <2>4. rows'[d] = w /\ \A e \in Device \ {d} : rows'[e] = rows[e]
    BY <1>2 DEF IInv, TypeOK
  <2>5. /\ seen'[d] = Append(seen[d], verdict)
        /\ \A e \in Device \ {d} : seen'[e] = seen[e]
    BY <1>2 DEF IInv, TypeOK
  <2>6. misread \subseteq misread'
    BY <1>2
  <2>7. TypeOK'
    <3>1. verdict \in Verdict
      BY <1>0 DEF Verdict
    <3>2. seen' \in [Device -> Seq(Verdict)]
      <4> HIDE DEF verdict
      <4> QED BY <1>0, <1>2, <3>1 DEF IInv, TypeOK, verdict
    <3>3. rows' \in [Device -> Seq(Row)]
      BY <1>2, <2>2 DEF IInv, TypeOK
    <3> QED BY <1>2, <3>2, <3>3 DEF IInv, TypeOK, Record
  <2> HIDE DEF w
  <2>8. TimesPast'
    <3>1. \A i \in DOMAIN w : w[i].time <= now
      BY <1>0, <2>2, <2>3 DEF IInv, TimesPast
    <3> QED BY <2>1, <2>4, <3>1 DEF IInv, TimesPast
  <2>9. NothingUnseen'
    BY <1>0, <2>3, <2>4, <2>5 DEF IInv, NothingUnseen
  <2>10. RowsAlternate'
    <3>1. ASSUME d \notin misread' PROVE Alternating(w)
      <4>1. d \notin misread /\ count = Len(rows[d])
        BY <1>2, <3>1
      <4> QED
        BY <1>0, <4>1, WrittenAlternates
           DEF IInv, RowsAlternate, TimesPast, w
    <3> QED BY <2>4, <2>6, <3>1 DEF IInv, RowsAlternate
  <2>11. FirstPollMarksTheStart'
    <3>1. ASSUME d \notin misread', NEW i \in DOMAIN w
          PROVE  w[i].first = IF i = 1 THEN seen'[d][1].time ELSE 0
      <4>1. d \notin misread /\ count = Len(rows[d])
        BY <1>2, <3>1
      <4>2. CASE i \in DOMAIN rows[d]
        <5>1. rows[d] # <<>> /\ seen[d] # <<>>
          BY <1>0, <4>2 DEF IInv, NothingUnseen
        <5>2. seen'[d][1] = seen[d][1]
          BY <1>0, <2>5, <5>1
        <5> QED BY <1>0, <2>3, <4>1, <4>2, <5>2 DEF IInv, FirstPollMarksTheStart
      <4>3. CASE i \notin DOMAIN rows[d]
        <5>1. Len(w) = Len(rows[d]) + 1 /\ i = Len(w)
          BY <1>0, <2>2, <2>3, <4>3
        <5>2. w = Append(rows[d], [ok |-> ok, time |-> now, mac |-> mac,
                                   first |-> IF count = 0 THEN now ELSE 0])
          BY <1>0, <4>1, <5>1 DEF w, Written
        <5>3. w[i].first = IF count = 0 THEN now ELSE 0
          BY <1>0, <5>1, <5>2
        <5>4. CASE count = 0
          <6>1. i = 1 /\ seen[d] = <<>>
            <7>1. rows[d] = <<>>
              BY <1>0, <4>1, <5>4, EmptySeq
            <7> QED BY <4>1, <5>1, <5>4, <7>1 DEF IInv, NothingUnseen
          <6> QED BY <1>0, <2>5, <5>3, <5>4, <6>1
        <5>5. CASE count # 0
          BY <1>0, <4>1, <5>1, <5>3, <5>5
        <5> QED BY <5>4, <5>5
      <4> QED BY <4>2, <4>3
    <3> QED BY <2>4, <2>5, <2>6, <3>1 DEF IInv, FirstPollMarksTheStart
  <2>12. OnRecord(d, ok)'
    BY <2>1, <2>3, <2>4 DEF OnRecord
  <2>13. \A e \in Device : Extends(rows'[e], rows[e])
    <3>1. Extends(w, rows[d])
      <4>1. ASSUME NEW i \in DOMAIN rows[d]
            PROVE  /\ w[i].ok = rows[d][i].ok /\ w[i].first = rows[d][i].first
                   /\ w[i].time >= rows[d][i].time
                   /\ w[i] # rows[d][i] =>
                         i = Len(rows[d]) /\ Len(w) = Len(rows[d])
        <5>1. rows[d][i] \in Row /\ rows[d][i].time <= now
          BY <1>0 DEF IInv, TimesPast
        <5>2. w[i] = rows[d][i] \/ i = Len(w)
          BY <1>0, <2>3
        <5> QED BY <1>0, <2>3, <5>1, <5>2 DEF Row
      <4> QED BY <2>3, <4>1 DEF Extends
    <3>2. \A e \in Device \ {d} : Extends(rows[e], rows[e])
      BY ExtendsItself DEF IInv, TypeOK
    <3> QED BY <2>4, <3>1, <3>2
  <2> QED BY <2>4, <2>7, <2>8, <2>9, <2>10, <2>11, <2>12, <2>13
<1> QED BY <1>1, <1>2 DEF Record, Store

(* An empty table of device_stats, before the monitor is first started,    *)
(* satisfies the invariant.                                                *)
THEOREM InitEstablishes == Init => IInv
<1> SUFFICES ASSUME Init PROVE IInv
  OBVIOUS
<1>1. TypeOK
  <2>1. answers \in [{} -> Mac]
    BY DEF Init
  <2>2. answers \in Answers
    BY <2>1 DEF Answers
  <2> QED BY <2>2, MaxPollsAssumption DEF Init, TypeOK
<1>2. TimesPast /\ NothingUnseen /\ RowsAlternate /\ FirstPollMarksTheStart
  BY DEF Init, TimesPast, NothingUnseen, RowsAlternate, Alternating,
         FirstPollMarksTheStart
<1>3. ReportSoFar /\ ReportIsOnRecord
  BY DEF Init, ReportSoFar, ReportIsOnRecord
<1> QED BY <1>1, <1>2, <1>3 DEF IInv

(* Steps outside the loops of the report leave the histories in order.     *)
LEMMA Unreported ==
    ASSUME IInv, UNCHANGED <<rows, seen, misread>>, now' \in {now, now + 1}
    PROVE  (TimesPast /\ NothingUnseen /\ RowsAlternate
              /\ FirstPollMarksTheStart)'
<1>1. ASSUME NEW d \in Device, NEW i \in DOMAIN rows[d]
      PROVE  rows[d][i].time <= now'
  <2>1. rows[d][i] \in Row /\ rows[d][i].time <= now /\ now \in Nat
    BY MaxPollsAssumption DEF IInv, TypeOK, TimesPast
  <2> QED BY <2>1 DEF Row
<1>2. TimesPast'
  BY <1>1 DEF TimesPast
<1>3. (NothingUnseen /\ RowsAlternate /\ FirstPollMarksTheStart)'
  BY DEF IInv, NothingUnseen, RowsAlternate, FirstPollMarksTheStart
<1> QED BY <1>2, <1>3

(* An emptied table of answers is a table of answers.                      *)
LEMMA Forgotten == answers' = [d \in {} |-> NoMac] => answers' \in Answers
<1>1. ASSUME answers' = [d \in {} |-> NoMac] PROVE answers' \in [{} -> Mac]
  BY <1>1
<1> QED BY <1>1 DEF Answers

(* The first loop of the report finds a MAC for each address it takes      *)
(* (monitor_db_api.c:200).                                                 *)
LEMMA AnswerIsMac ==
    ASSUME IInv, pc = "up", NEW d \in todo
    PROVE  answers[d] \in Mac
<1>1. PICK S \in SUBSET Device : answers \in [S -> Mac]
  BY DEF IInv, TypeOK, Answers
<1> QED BY <1>1 DEF IInv, ReportSoFar

(* Every step of the cycle, a crash at any point and a restart preserve    *)
(* the invariant.                                                          *)
THEOREM InductiveStep == IInv /\ [Next]_vars => IInv'
<1> SUFFICES ASSUME IInv, [Next]_vars PROVE IInv'
  OBVIOUS
<1> USE DEF IInv
<1>1. ASSUME NEW ips \in SUBSET Device, StartPoll(ips) PROVE IInv'
  <2>1. TypeOK'
    BY <1>1, MaxPollsAssumption DEF TypeOK, StartPoll
  <2>2. (ReportSoFar /\ ReportIsOnRecord)'
    BY <1>1 DEF StartPoll, ReportSoFar, ReportIsOnRecord
  <2> QED BY <1>1, <2>1, <2>2, Unreported DEF StartPoll
<1>2. ASSUME NEW table \in Answers, NEW devices \in SUBSET known,
             StartReport(table, devices)
      PROVE  IInv'
  <2>1. TypeOK'
    BY <1>2 DEF TypeOK, StartReport
  <2>2. (ReportSoFar /\ ReportIsOnRecord)'
    BY <1>2 DEF StartReport, ReportSoFar, ReportIsOnRecord
  <2> QED BY <1>2, <2>1, <2>2, Unreported DEF StartReport
<1>3. ASSUME NEW d \in Device, RecordUp(d) PROVE IInv'
  <2>1. answers[d] \in Mac
    BY <1>3, AnswerIsMac DEF RecordUp
  <2>2. /\ (TypeOK /\ TimesPast /\ NothingUnseen /\ RowsAlternate
              /\ FirstPollMarksTheStart)'
        /\ d \in lost' \/ OnRecord(d, TRUE)'
        /\ lost \subseteq lost'
        /\ \A e \in Device \ {d} : rows'[e] = rows[e]
    BY <1>3, <2>1, RecordEffect DEF RecordUp
  <2>3. ReportSoFar'
    BY <1>3, <2>2 DEF TypeOK, RecordUp, Record, ReportSoFar, OnRecord
  <2>4. ReportIsOnRecord'
    BY <1>3 DEF RecordUp, Record, ReportIsOnRecord
  <2> QED BY <2>2, <2>3, <2>4
<1>4. CASE TurnToSilent
  <2>1. TypeOK'
    BY <1>4 DEF TypeOK, TurnToSilent
  <2>2. ReportSoFar'
    BY <1>4 DEF TypeOK, TurnToSilent, ReportSoFar, OnRecord
  <2>3. ReportIsOnRecord'
    BY <1>4 DEF TurnToSilent, ReportIsOnRecord
  <2> QED BY <1>4, <2>1, <2>2, <2>3, Unreported DEF TurnToSilent
<1>5. ASSUME NEW d \in Device, RecordDown(d) PROVE IInv'
  <2>1. /\ (TypeOK /\ TimesPast /\ NothingUnseen /\ RowsAlternate
              /\ FirstPollMarksTheStart)'
        /\ d \in lost' \/ OnRecord(d, FALSE)'
        /\ lost \subseteq lost'
        /\ \A e \in Device \ {d} : rows'[e] = rows[e]
    BY <1>5, RecordEffect DEF RecordDown
  <2>2. ReportSoFar'
    <3>1. pc' = "down" /\ todo' = todo \ {d} /\ UNCHANGED <<now, known, silent>>
      BY <1>5 DEF RecordDown, Record
    <3>2. d \in silent /\ todo \subseteq known \cap silent
      BY <1>5 DEF RecordDown, Record, ReportSoFar
    <3>3. ASSUME NEW e \in known \ (todo' \cup lost')
          PROVE  OnRecord(e, e \notin silent)'
      <4>1. CASE e = d
        BY <2>1, <3>1, <3>2, <3>3, <4>1 DEF OnRecord
      <4>2. CASE e # d
        <5>1. OnRecord(e, e \notin silent)
          BY <1>5, <2>1, <3>1, <4>2 DEF RecordDown, ReportSoFar
        <5>2. rows'[e] = rows[e]
          BY <2>1, <4>2 DEF TypeOK
        <5> QED BY <3>1, <5>1, <5>2 DEF OnRecord
      <4> QED BY <4>1, <4>2
    <3> QED BY <3>1, <3>2, <3>3 DEF ReportSoFar
  <2>3. ReportIsOnRecord'
    BY <1>5 DEF RecordDown, Record, ReportIsOnRecord
  <2> QED BY <2>1, <2>2, <2>3
<1>6. CASE EndReport
  <2>1. TypeOK'
    BY <1>6 DEF TypeOK, EndReport
  <2>2. (ReportSoFar /\ ReportIsOnRecord)'
    BY <1>6 DEF TypeOK, EndReport, ReportSoFar, ReportIsOnRecord, OnRecord
  <2> QED BY <1>6, <2>1, <2>2, Unreported DEF EndReport
<1>7. CASE EndCycle
  <2>1. TypeOK'
    BY <1>7, Forgotten DEF TypeOK, EndCycle
  <2>2. (ReportSoFar /\ ReportIsOnRecord)'
    BY <1>7 DEF EndCycle, ReportSoFar, ReportIsOnRecord
  <2> QED BY <1>7, <2>1, <2>2, Unreported DEF EndCycle
<1>8. CASE Crash
  <2>1. TypeOK'
    BY <1>8, Forgotten DEF TypeOK, Crash
  <2>2. (ReportSoFar /\ ReportIsOnRecord)'
    BY <1>8 DEF Crash, ReportSoFar, ReportIsOnRecord
  <2> QED BY <1>8, <2>1, <2>2, Unreported DEF Crash
<1>9. CASE Restart
  <2>1. TypeOK'
    BY <1>9 DEF TypeOK, Restart
  <2>2. (ReportSoFar /\ ReportIsOnRecord)'
    BY <1>9 DEF Restart, ReportSoFar, ReportIsOnRecord
  <2> QED BY <1>9, <2>1, <2>2, Unreported DEF Restart
<1>10. CASE UNCHANGED vars
  BY <1>10 DEF vars, TypeOK, TimesPast, NothingUnseen, ReportSoFar, OnRecord,
               RowsAlternate, FirstPollMarksTheStart, ReportIsOnRecord
<1> QED BY <1>1, <1>2, <1>3, <1>4, <1>5, <1>6, <1>7, <1>8, <1>9, <1>10 DEF Next

(* The invariant holds for ever, over any number of restarts.              *)
THEOREM Invariance == Spec => []IInv
BY InitEstablishes, InductiveStep, PTL DEF Spec

(* The variables keep their types: in particular the table device_stats    *)
(* holds well-formed rows only.                                            *)
THEOREM Types == Spec => []TypeOK
<1>1. IInv => TypeOK
  BY DEF IInv
<1> QED BY Invariance, <1>1, PTL

(* The rows of a device stand for runs of verdicts: two rows in sequence   *)
(* never say the same (as long as the last row could be read back).        *)
THEOREM RowsAlternateAlways == Spec => []RowsAlternate
<1>1. IInv => RowsAlternate
  BY DEF IInv
<1> QED BY Invariance, <1>1, PTL

(* INSERT_FIRST_... writes firstpoll once for each device, and with the    *)
(* time of the first verdict on record.                                    *)
THEOREM FirstPollIsFirst == Spec => []FirstPollMarksTheStart
<1>1. IInv => FirstPollMarksTheStart
  BY DEF IInv
<1> QED BY Invariance, <1>1, PTL

(* After update_device_stats() each device of the poll has a last row with *)
(* the time and the final verdict of the poll, unless one of its writes    *)
(* was lost.                                                               *)
THEOREM ReportsAreOnRecord == Spec => []ReportIsOnRecord
<1>1. IInv => ReportIsOnRecord
  BY DEF IInv
<1> QED BY Invariance, <1>1, PTL

(* The UPDATE statements only ever touch the time and the MAC of the last  *)
(* row of their device.                                                    *)
THEOREM HistoryIsNeverRewritten == Spec => RecordsStay
<1>1. IInv /\ [Next]_vars => [\A d \in Device : Extends(rows'[d], rows[d])]_vars
  <2> SUFFICES ASSUME IInv, Next
               PROVE  \A d \in Device : Extends(rows'[d], rows[d])
    OBVIOUS
  <2>1. ASSUME NEW d \in Device, RecordUp(d)
        PROVE  \A e \in Device : Extends(rows'[e], rows[e])
    <3>1. answers[d] \in Mac
      BY <2>1, AnswerIsMac DEF RecordUp
    <3> QED BY <2>1, <3>1, RecordEffect DEF RecordUp
  <2>2. ASSUME NEW d \in Device, RecordDown(d)
        PROVE  \A e \in Device : Extends(rows'[e], rows[e])
    BY <2>2, RecordEffect DEF RecordDown
  <2>3. CASE UNCHANGED rows
    BY <2>3, ExtendsItself DEF IInv, TypeOK
  <2>4. Next => \/ \E d \in Device : RecordUp(d) \/ RecordDown(d)
                \/ UNCHANGED rows
    BY DEF Next, StartPoll, StartReport, TurnToSilent, EndReport, EndCycle,
           Crash, Restart
  <2> QED BY <2>1, <2>2, <2>3, <2>4
<1> QED BY Invariance, <1>1, PTL DEF Spec, RecordsStay

-----------------------------------------------------------------------------
(* The run-length code.  Runs are counted by their ends.                   *)
LEMMA EndsAreFinite ==
    ASSUME NEW s \in Seq(Verdict)
    PROVE  /\ IsFiniteSet(RunEnds(s)) /\ Cardinality(RunEnds(s)) \in Nat
           /\ \A i : IsFiniteSet({j \in RunEnds(s) : j < i})
<1>1. IsFiniteSet(1..Len(s))
  <2>1. 1 \in Int /\ Len(s) \in Int
    OBVIOUS
  <2> QED BY <2>1, FS_Interval
<1>2. IsFiniteSet(RunEnds(s))
  <2>1. RunEnds(s) \in SUBSET (1..Len(s))
    BY DEF RunEnds
  <2> QED BY <1>1, <2>1, FS_Subset
<1>3. \A i : {j \in RunEnds(s) : j < i} \in SUBSET RunEnds(s)
  OBVIOUS
<1> QED BY <1>2, <1>3, FS_Subset, FS_CardinalityType

(* The last verdict ends the last run, and no other verdict does.          *)
LEMMA LastRun ==
    ASSUME NEW s \in Seq(Verdict), NEW i \in RunEnds(s)
    PROVE  /\ i \in 1..Len(s) /\ RunOf(s, i) \in 1..Cardinality(RunEnds(s))
           /\ i = Len(s) => RunOf(s, i) = Cardinality(RunEnds(s))
           /\ i # Len(s) => RunOf(s, i) < Cardinality(RunEnds(s))
<1> DEFINE ends == RunEnds(s)
           before == {j \in ends : j < i}
           n == Len(s)
<1>1. /\ i \in 1..n /\ n \in ends /\ ends \subseteq 1..n
      /\ n \in Nat
  BY DEF RunEnds
<1>2. /\ IsFiniteSet(ends) /\ Cardinality(ends) \in Nat
      /\ IsFiniteSet(before) /\ Cardinality(before) \in Nat
  BY EndsAreFinite, FS_CardinalityType
<1>3. RunOf(s, i) = Cardinality(before) + 1
  BY DEF RunOf
<1> HIDE DEF ends
<1>4. IsFiniteSet(ends \ {i}) /\ Cardinality(ends \ {i}) = Cardinality(ends) - 1
  BY <1>2, FS_RemoveElement DEF ends
<1>5. CASE i = n
  <2>1. \A j \in ends : j < i <=> j # i
    BY <1>1, <1>5
  <2>2. before = ends \ {i}
    BY <2>1
  <2>3. RunOf(s, i) = Cardinality(ends)
    <3>1. Cardinality(before) = Cardinality(ends \ {i})
      BY <2>2
    <3> HIDE DEF before
    <3> QED BY <1>2, <1>3, <1>4, <3>1
  <2>4. Cardinality(ends) \in Nat \ {0}
    BY <1>2, <1>3, <2>3
  <2> QED BY <1>1, <1>5, <2>3, <2>4 DEF ends
<1>6. CASE i # n
  <2>1. Cardinality((ends \ {i}) \ {n}) = Cardinality(ends \ {i}) - 1
        /\ IsFiniteSet((ends \ {i}) \ {n})
    BY <1>1, <1>4, <1>6, FS_RemoveElement
  <2>2. before \in SUBSET ((ends \ {i}) \ {n})
    BY <1>1
  <2>3. Cardinality(before) <= Cardinality((ends \ {i}) \ {n})
    BY <2>1, <2>2, FS_Subset
  <2> QED BY <1>1, <1>2, <1>3, <1>4, <1>6, <2>1, <2>3 DEF ends
<1> QED BY <1>5, <1>6

(* A verdict like the one before it prolongs its run, another one begins a *)
(* run; the runs before that remain.                                       *)
LEMMA OneMoreVerdict ==
    ASSUME NEW s \in Seq(Verdict), NEW v \in Verdict
    PROVE  LET n    == Len(s)
               t    == Append(s, v)
               same == n > 0 /\ s[n].ok = v.ok
           IN  /\ RunEnds(t) = (IF same THEN RunEnds(s) \ {n} ELSE RunEnds(s))
                                  \cup {n + 1}
               /\ Cardinality(RunEnds(t)) =
                     Cardinality(RunEnds(s)) + (IF same THEN 0 ELSE 1)
               /\ \A i \in RunEnds(t) \ {n + 1} : RunOf(t, i) = RunOf(s, i)
<1> DEFINE n    == Len(s)
           t    == Append(s, v)
           same == n > 0 /\ s[n].ok = v.ok
           kept == IF same THEN RunEnds(s) \ {n} ELSE RunEnds(s)
<1>1. /\ t \in Seq(Verdict) /\ Len(t) = n + 1 /\ t[n + 1] = v
      /\ \A i \in 1..n : t[i] = s[i]
      /\ n \in Nat
  OBVIOUS
<1>2. RunEnds(t) = kept \cup {n + 1}
  <2> HIDE DEF t
  <2>1. \A i \in 1..n : i \in RunEnds(t) <=> t[i + 1].ok # s[i].ok
    BY <1>1 DEF RunEnds
  <2>2. \A i \in 1..n : i # n => (i \in RunEnds(t) <=> i \in RunEnds(s))
    BY <1>1, <2>1 DEF RunEnds
  <2>3. n > 0 => n \in RunEnds(s) /\ (n \in RunEnds(t) <=> v.ok # s[n].ok)
    BY <1>1, <2>1 DEF RunEnds
  <2>4. n + 1 \in RunEnds(t) /\ RunEnds(t) \subseteq 1..(n + 1)
        /\ RunEnds(s) \subseteq 1..n
    BY <1>1 DEF RunEnds
  <2> QED BY <1>1, <2>2, <2>3, <2>4
<1>3. IsFiniteSet(RunEnds(s)) /\ Cardinality(RunEnds(s)) \in Nat
      /\ RunEnds(s) \subseteq 1..n /\ (n > 0 => n \in RunEnds(s))
  BY EndsAreFinite DEF RunEnds
<1>4. Cardinality(RunEnds(t)) = Cardinality(RunEnds(s)) + (IF same THEN 0 ELSE 1)
  <2>1. IsFiniteSet(kept) /\ n + 1 \notin kept
    BY <1>1, <1>3, FS_RemoveElement
  <2>2. Cardinality(kept) = Cardinality(RunEnds(s)) - (IF same THEN 1 ELSE 0)
    <3>1. Cardinality(RunEnds(s) \ {n}) =
             IF n \in RunEnds(s) THEN Cardinality(RunEnds(s)) - 1
                                 ELSE Cardinality(RunEnds(s))
      BY <1>3, FS_RemoveElement
    <3>2. CASE same
      BY <1>3, <3>1, <3>2
    <3>3. CASE ~same
      BY <1>3, <3>3
    <3> QED BY <3>2, <3>3
  <2>3. Cardinality(kept \cup {n + 1}) = Cardinality(kept) + 1
    BY <2>1, FS_AddElement
  <2> QED BY <1>2, <1>3, <2>2, <2>3
<1>5. ASSUME NEW i \in RunEnds(t) \ {n + 1} PROVE RunOf(t, i) = RunOf(s, i)
  <2>1. i \in 1..n
    BY <1>2, <1>3
  <2>2. {j \in RunEnds(t) : j < i} = {j \in RunEnds(s) : j < i}
    BY <1>1, <1>2, <1>3, <2>1
  <2> QED BY <2>2 DEF RunOf
<1> QED BY <1>2, <1>4, <1>5

(* What the statements make of a coded history codes one verdict more.     *)
LEMMA WrittenCodes ==
    ASSUME NEW history \in Seq(Row), NEW s \in Seq(Verdict),
           NEW ok \in BOOLEAN, NEW mac \in Mac \cup {NoMac}, now \in Nat,
           Codes(history, s), ~ok => mac = NoMac,
           \A i \in DOMAIN s : ~s[i].ok => s[i].mac = NoMac
    PROVE  Codes(Written(history, Len(history), ok, mac),
                 Append(s, [ok |-> ok, time |-> now, mac |-> mac]))
<1> DEFINE n == Len(s)
           k == Len(history)
           v == [ok |-> ok, time |-> now, mac |-> mac]
           t == Append(s, v)
           w == Written(history, k, ok, mac)
           Is(row, verdict) ==
              [ok |-> row.ok, time |-> row.time, mac |-> row.mac] = verdict
<1>1. v \in Verdict /\ n \in Nat /\ k \in Nat
  BY DEF Verdict
<1>2. k = Cardinality(RunEnds(s))
      /\ \A i \in RunEnds(s) : Is(history[RunOf(s, i)], s[i])
  BY DEF Codes
<1>3. n > 0 => n \in RunEnds(s) /\ RunOf(s, n) = k /\ k > 0
  <2>1. n > 0 => n \in RunEnds(s)
    BY DEF RunEnds
  <2> QED BY <1>1, <1>2, <2>1, LastRun
<1>4. n > 0 => /\ history[k].ok = s[n].ok /\ history[k].mac = s[n].mac
                /\ s[n] \in Verdict /\ history[k] \in Row
  <2> SUFFICES ASSUME n > 0
               PROVE  /\ history[k].ok = s[n].ok /\ history[k].mac = s[n].mac
                      /\ s[n] \in Verdict /\ history[k] \in Row
    OBVIOUS
  <2>1. [ok |-> history[k].ok, time |-> history[k].time,
         mac |-> history[k].mac] = s[n]
    BY <1>2, <1>3
  <2>2. s[n] \in Verdict /\ history[k] \in Row
    BY <1>1, <1>3
  <2> QED BY <2>1, <2>2
<1>5. n = 0 => k = 0
  <2>1. n = 0 => RunEnds(s) = {}
    BY DEF RunEnds
  <2> QED BY <1>2, <2>1, FS_EmptySet
<1>6. \A i \in 1..n : t[i] = s[i]
  OBVIOUS
<1>7. t[n + 1] = v /\ n + 1 \in RunEnds(t) /\ t \in Seq(Verdict) /\ Len(t) = n + 1
  BY <1>1 DEF RunEnds
<1>8. RunOf(t, n + 1) = Cardinality(RunEnds(t))
  BY <1>7, LastRun
<1>9. CASE n > 0 /\ s[n].ok = ok
  <2>1. history[k].ok = ok /\ history[k].mac = s[n].mac
    BY <1>9, <1>4
  <2>2. w = [history EXCEPT ![k] = Updated(@, mac)]
    BY <1>3, <1>9, <2>1 DEF Written
  <2>3. Is(Updated(history[k], mac), v)
    <3>1. history[k] \in Row
      BY <1>1, <1>3, <1>9
    <3>2. ~ok => history[k].mac = NoMac
      BY <1>1, <1>9, <2>1
    <3> QED BY <2>1, <3>1, <3>2 DEF Updated, Row
  <2>4. RunEnds(t) = (RunEnds(s) \ {n}) \cup {n + 1}
        /\ Cardinality(RunEnds(t)) = k
        /\ \A i \in RunEnds(t) \ {n + 1} : RunOf(t, i) = RunOf(s, i)
    BY <1>1, <1>2, <1>9, OneMoreVerdict
  <2> HIDE DEF w, t, Is
  <2>5. Len(w) = k /\ w[k] = Updated(history[k], mac)
        /\ \A r \in 1..k : r # k => w[r] = history[r]
    BY <1>1, <1>3, <1>9, <2>2
  <2>6. ASSUME NEW i \in RunEnds(t) PROVE Is(w[RunOf(t, i)], t[i])
    <3>1. CASE i = n + 1
      BY <1>7, <1>8, <2>3, <2>4, <2>5, <3>1
    <3>2. CASE i # n + 1
      <4>1. i \in RunEnds(s) /\ i # n
        BY <1>1, <2>4, <3>2 DEF RunEnds
      <4>2. RunOf(s, i) \in 1..k /\ RunOf(s, i) # k /\ i \in 1..n
        BY <1>1, <1>2, <4>1, LastRun
      <4> QED BY <1>2, <1>6, <2>4, <2>5, <3>2, <4>1, <4>2
    <3> QED BY <3>1, <3>2
  <2>7. Codes(w, t)
    BY <2>4, <2>5, <2>6 DEF Codes, Is
  <2> QED BY <2>7 DEF w, t
<1>10. CASE ~(n > 0 /\ s[n].ok = ok)
  <2> DEFINE row == [ok |-> ok, time |-> now, mac |-> mac,
                     first |-> IF k = 0 THEN now ELSE 0]
  <2>1. ~(k > 0 /\ history[k].ok = ok)
    BY <1>1, <1>5, <1>10, <1>4
  <2>2. w = Append(history, row)
    BY <2>1 DEF Written
  <2>3. Is(row, v) /\ row \in Row
    BY DEF Row
  <2>4. RunEnds(t) = RunEnds(s) \cup {n + 1}
        /\ Cardinality(RunEnds(t)) = k + 1
        /\ \A i \in RunEnds(t) \ {n + 1} : RunOf(t, i) = RunOf(s, i)
    BY <1>1, <1>2, <1>10, OneMoreVerdict
  <2> HIDE DEF w, t, Is, row
  <2>5. Len(w) = k + 1 /\ w[k + 1] = row /\ \A r \in 1..k : w[r] = history[r]
    BY <1>1, <2>2, <2>3
  <2>6. ASSUME NEW i \in RunEnds(t) PROVE Is(w[RunOf(t, i)], t[i])
    <3>1. CASE i = n + 1
      BY <1>7, <1>8, <2>3, <2>4, <2>5, <3>1
    <3>2. CASE i # n + 1
      <4>1. i \in RunEnds(s)
        BY <2>4, <3>2
      <4>2. RunOf(s, i) \in 1..k /\ i \in 1..n
        BY <1>2, <4>1, LastRun
      <4> QED BY <1>2, <1>6, <2>4, <2>5, <3>2, <4>1, <4>2
    <3> QED BY <3>1, <3>2
  <2>7. Codes(w, t)
    BY <2>4, <2>5, <2>6 DEF Codes, Is
  <2> QED BY <2>7 DEF w, t
<1> QED BY <1>9, <1>10

(* A device that did not respond has no MAC.                               *)
FailuresHaveNoMac ==
    \A d \in Device : \A i \in DOMAIN seen[d] :
        ~seen[d][i].ok => seen[d][i].mac = NoMac

(* The statistics of a device are the run-length code of what reached the  *)
(* database, over any number of polls, crashes and lost writes.            *)
THEOREM HistoriesAreCoded == Spec => []HistoryIsRunLengthCoded
<1> DEFINE Good == HistoryIsRunLengthCoded /\ FailuresHaveNoMac
<1>1. Init => Good
  <2>1. RunEnds(<<>>) = {} /\ Len(<<>>) = 0
    BY DEF RunEnds
  <2>2. Codes(<<>>, <<>>)
    BY <2>1, FS_EmptySet DEF Codes
  <2> QED BY <2>2 DEF Init, HistoryIsRunLengthCoded, FailuresHaveNoMac
<1>2. IInv /\ IInv' /\ Good /\ [Next]_vars => Good'
  <2> SUFFICES ASSUME IInv, Good, [Next]_vars
               PROVE  HistoryIsRunLengthCoded' /\ FailuresHaveNoMac'
    OBVIOUS
  <2>1. ASSUME NEW d \in Device, NEW ok \in BOOLEAN,
               NEW mac \in Mac \cup {NoMac}, ~ok => mac = NoMac,
               Record(d, ok, mac)
        PROVE  HistoryIsRunLengthCoded' /\ FailuresHaveNoMac'
    <3> DEFINE v == [ok |-> ok, time |-> now, mac |-> mac]
    <3>1. CASE UNCHANGED <<rows, seen, misread>>
      BY <3>1 DEF HistoryIsRunLengthCoded, FailuresHaveNoMac
    <3>2. ASSUME NEW count \in RowCount(d),
                 rows' = [rows EXCEPT ![d] = Written(@, count, ok, mac)],
                 misread' = IF count # Len(rows[d]) THEN misread \cup {d}
                                                     ELSE misread,
                 seen' = [seen EXCEPT ![d] = Append(@, v)]
          PROVE  HistoryIsRunLengthCoded' /\ FailuresHaveNoMac'
      <4>0. rows[d] \in Seq(Row) /\ seen[d] \in Seq(Verdict) /\ now \in Nat
        BY MaxPollsAssumption DEF IInv, TypeOK
      <4>1. /\ rows[d] \in Seq(Row) /\ seen[d] \in Seq(Verdict)
            /\ now \in Nat /\ v \in Verdict
        BY <4>0 DEF Verdict
      <4> HIDE DEF v
      <4>2. /\ rows'[d] = Written(rows[d], count, ok, mac)
            /\ seen'[d] = Append(seen[d], v)
            /\ \A e \in Device \ {d} : rows'[e] = rows[e] /\ seen'[e] = seen[e]
        BY <3>2 DEF IInv, TypeOK
      <4>3. ASSUME d \notin misread' PROVE Codes(rows'[d], seen'[d])
        <5>1. count = Len(rows[d]) /\ d \notin misread
          BY <3>2, <4>3
        <5>2. Codes(rows[d], seen[d])
          BY <5>1 DEF HistoryIsRunLengthCoded
        <5> QED BY <2>1, <4>1, <4>2, <5>1, <5>2, WrittenCodes
                DEF FailuresHaveNoMac, v
      <4>4. FailuresHaveNoMac'
        BY <2>1, <4>1, <4>2 DEF FailuresHaveNoMac, v
      <4> QED BY <3>2, <4>2, <4>3, <4>4 DEF HistoryIsRunLengthCoded
    <3> QED BY <2>1, <3>1, <3>2 DEF Record, Store
  <2>2. ASSUME NEW d \in Device, RecordUp(d)
        PROVE  HistoryIsRunLengthCoded' /\ FailuresHaveNoMac'
    <3>1. answers[d] \in Mac
      BY <2>2, AnswerIsMac DEF RecordUp
    <3> QED BY <2>1, <2>2, <3>1 DEF RecordUp
  <2>3. ASSUME NEW d \in Device, RecordDown(d)
        PROVE  HistoryIsRunLengthCoded' /\ FailuresHaveNoMac'
    BY <2>1, <2>3 DEF RecordDown
  <2>4. CASE UNCHANGED <<rows, seen, misread>>
    BY <2>4 DEF HistoryIsRunLengthCoded, FailuresHaveNoMac
  <2>5. \/ \E d \in Device : RecordUp(d) \/ RecordDown(d)
        \/ UNCHANGED <<rows, seen, misread>>
    BY DEF Next, vars, StartPoll, StartReport, TurnToSilent, EndReport,
           EndCycle, Crash, Restart
  <2> QED BY <2>2, <2>3, <2>4, <2>5
<1>3. Good => HistoryIsRunLengthCoded
  OBVIOUS
<1> HIDE DEF Good
<1> QED BY <1>1, <1>2, <1>3, Invariance, PTL DEF Spec
=============================================================================
