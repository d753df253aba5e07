--------------------------- MODULE SqlSessionProofs ---------------------------
(***************************************************************************)
(* What becomes of the result buckets, and of the devices that the map     *)
(* remembers, for any number of devices and addresses, any sequence of     *)
(* failing queries and any edits of the database.                          *)
(***************************************************************************)
EXTENDS SqlSession, TLAPS

(* The buckets after a query and after the removal of one of them make a   *)
(* heap again.                                                             *)
LEMMA HeapOperations ==
    ASSUME NEW buckets \in Heaps, NEW p
    PROVE  /\ DOMAIN buckets \subseteq Address
           /\ [a \in DOMAIN buckets \ {p} |-> buckets[a]] \in Heaps
<1>1. PICK S \in SUBSET Address : buckets \in [S -> RowCounts]
  BY DEF Heaps
<1>2. [a \in S \ {p} |-> buckets[a]] \in [S \ {p} -> RowCounts]
  BY <1>1
<1>3. S \ {p} \in SUBSET Address
  OBVIOUS
<1> QED BY <1>1, <1>2, <1>3 DEF Heaps

(* A query adds a live bucket, with the rows that it found, or nothing.    *)
LEMMA BucketsAre ==
    ASSUME heap \in Heaps, NEW how \in Outcomes, NEW p \in Pointer,
           NEW rows \in RowCounts, how = "done" => p \in Address \ Live
    PROVE  /\ Buckets(how, p, rows) \in Heaps
           /\ how = "done" => /\ DOMAIN Buckets(how, p, rows) = Live \cup {p}
                              /\ Buckets(how, p, rows)[p] = rows
                              /\ \A a \in Live :
                                    Buckets(how, p, rows)[a] = heap[a]
           /\ how # "done" => Buckets(how, p, rows) = heap
<1>1. PICK S \in SUBSET Address : heap \in [S -> RowCounts]
  BY DEF Heaps
<1>2. CASE how = "done"
  <2> DEFINE new == [a \in Live \cup {p} |-> IF a = p THEN rows ELSE heap[a]]
  <2>1. p \in Address \ Live /\ Buckets(how, p, rows) = new
    BY <1>2 DEF Buckets
  <2>2. new \in [S \cup {p} -> RowCounts] /\ S \cup {p} \in SUBSET Address
    BY <1>1, <2>1 DEF Live
  <2>3. new \in Heaps
    BY <2>2 DEF Heaps
  <2> QED BY <1>2, <2>1, <2>3
<1>3. CASE how # "done"
  BY <1>3 DEF Buckets
<1> QED BY <1>2, <1>3

(* Handles are counted, and the others let go of.                          *)
LEMMA SqlQueryKeeps ==
    ASSUME TypeOK, handles = refused, NEW how \in Outcomes, SqlQuery(how)
    PROVE  /\ handles' \in Nat /\ refused' \in 0..MaxRefused
           /\ handles' = refused' /\ outcome' = how
BY MaxRefusedAssumption DEF TypeOK, SqlQuery

(* Before its first query the monitor has no bucket.                       *)
THEOREM InitEstablishes == Init => IInv
<1> SUFFICES ASSUME Init PROVE IInv
  OBVIOUS
<1>1. heap \in [{} -> RowCounts]
  BY DEF Init
<1>2. heap \in Heaps /\ Live = {}
  BY <1>1 DEF Heaps, Live
<1>3. 0 \in 0..MaxRefused
  BY MaxRefusedAssumption
<1>4. TypeOK
  BY <1>2, <1>3 DEF Init, TypeOK, Outcomes
<1> QED BY <1>2, <1>4
        DEF Init, IInv, MapIsOfThePast, UndefinedHasAReason, LeaksAreKnown

(* What holds when a query has gone wrong for its reason.                  *)
LEMMA UndefinedKeeps ==
    ASSUME IInv, Undefined, NEW how \in Outcomes, SqlQuery(how),
           dev' \in Device, how # "done" \/ dev' \in gone \ connected
    PROVE  IInv'
<1>1. /\ handles' \in Nat /\ refused' \in 0..MaxRefused
      /\ handles' = refused' /\ outcome' = how
  BY SqlQueryKeeps DEF IInv, LeaksAreKnown
<1>2. TypeOK'
  BY <1>1 DEF IInv, TypeOK, Undefined, dbVars, mapVars
<1>3. MapIsOfThePast' /\ UndefinedHasAReason'
  BY <1>1 DEF IInv, MapIsOfThePast, UndefinedHasAReason, Undefined,
              dbVars, mapVars
<1>4. LeaksAreKnown'
  BY <1>1 DEF IInv, LeaksAreKnown, Undefined, Live
<1> QED BY <1>2, <1>3, <1>4 DEF IInv

(* The bucket that was brought, or a leaked one, is removed.               *)
LEMMA RemoveKeeps ==
    ASSUME IInv, NEW p \in Address, NEW buckets \in Heaps,
           DOMAIN buckets = Live \cup {p},
           \A a \in Live \ {p} : buckets[a] = heap[a],
           heap' = [a \in DOMAIN buckets \ {p} |-> buckets[a]],
           abandoned' = abandoned \ {p},
           handles' = refused'
    PROVE  /\ heap' \in Heaps /\ abandoned' \subseteq Address
           /\ LeaksAreKnown'
<1>1. heap' \in Heaps
  BY HeapOperations
<1>2. Live' = Live \ {p} /\ \A a \in Live' : heap'[a] = heap[a]
  BY DEF Live
<1>3. LeaksAreKnown'
  BY <1>2 DEF IInv, LeaksAreKnown
<1> QED BY <1>1, <1>3 DEF IInv, TypeOK

(* A failed query for the devices finds no rows, even if it finds a        *)
(* bucket; after one that was done the map is that of the moment.          *)
LEMMA GetIpIdsKeeps ==
    ASSUME IInv, NEW how \in Outcomes, NEW p \in Pointer, GetIpIds(how, p)
    PROVE  IInv'
<1> DEFINE buckets == Buckets(how, p, RowsIf(connected # {}))
<1>1. /\ pc = "fetch" /\ Select(how, p, p) /\ SqlQuery(how)
  BY DEF GetIpIds, Select
<1>2. /\ handles' \in Nat /\ refused' \in 0..MaxRefused
      /\ handles' = refused' /\ outcome' = how
  BY <1>1, SqlQueryKeeps DEF IInv, LeaksAreKnown
<1>3. /\ buckets \in Heaps
      /\ how = "done" => /\ DOMAIN buckets = Live \cup {p}
                         /\ \A a \in Live \ {p} : buckets[a] = heap[a]
      /\ how # "done" => buckets = heap
  <2>1. heap \in Heaps /\ RowsIf(connected # {}) \in RowCounts
        /\ (how = "done" => p \in Address \ Live)
    BY <1>1 DEF IInv, TypeOK, RowsIf, RowCounts, Select
  <2> QED BY <2>1, BucketsAre
<1>4. CASE p \in DOMAIN buckets
  <2>1. /\ \/ /\ buckets[p] = "some" /\ gone' = {}
              /\ registry' \in IF how = "done" THEN {connected}
                                               ELSE SUBSET Device
           \/ UNCHANGED mapVars
        /\ Remove(buckets, p)
        /\ loop' = 1 /\ todo' \in SUBSET registry' /\ report' \in Pointer
        /\ pc' = "info" /\ UNCHANGED <<dbVars, dev>>
    BY <1>4 DEF GetIpIds
  <2>2. heap' \in Heaps /\ abandoned' \subseteq Address /\ LeaksAreKnown'
    <3>1. p \in Address /\ DOMAIN buckets = Live \cup {p}
          /\ \A a \in Live \ {p} : buckets[a] = heap[a]
      BY <1>3, <1>4, HeapOperations DEF Live
    <3>2. heap' = [a \in DOMAIN buckets \ {p} |-> buckets[a]]
          /\ abandoned' = abandoned \ {p}
      BY <2>1 DEF Remove
    <3> HIDE DEF buckets
    <3> QED BY <1>2, <1>3, <3>1, <3>2, RemoveKeeps
  <2>3. ASSUME buckets[p] = "some" PROVE how = "done"
    BY <1>3, <1>4, <2>3 DEF IInv, LeaksAreKnown, Live
  <2> HIDE DEF buckets
  <2>4. /\ registry' \subseteq Device /\ gone' \subseteq Device
        /\ registry' \ connected \subseteq gone'
    BY <2>1, <2>3 DEF IInv, TypeOK, MapIsOfThePast, mapVars
  <2>5. TypeOK'
    BY <1>2, <2>1, <2>2, <2>4 DEF IInv, TypeOK, dbVars
  <2> QED BY <2>1, <2>2, <2>4, <2>5
          DEF IInv, MapIsOfThePast, UndefinedHasAReason, dbVars
<1>5. CASE p \notin DOMAIN buckets
  <2>1. Undefined /\ dev' = dev
    BY <1>5 DEF GetIpIds
  <2> QED BY <1>1, <1>3, <1>5, <2>1, UndefinedKeeps DEF IInv, TypeOK
<1> QED BY <1>4, <1>5

(* A device that is reported is in the map; if GET_DEVICE_INFO does not    *)
(* find it, it was unplugged after the map was filled.                     *)
LEMMA DeviceInfoKeeps ==
    ASSUME IInv, NEW how \in Outcomes, NEW d \in Device, NEW p \in Pointer,
           DeviceInfo(how, d, p)
    PROVE  IInv'
<1> DEFINE buckets == Buckets(how, p, RowsIf(d \in connected))
<1>1. /\ d \in todo /\ dev' = d
      /\ Select(how, report, p) /\ SqlQuery(how)
  BY DEF DeviceInfo, Select
<1>2. /\ handles' \in Nat /\ refused' \in 0..MaxRefused
      /\ handles' = refused' /\ outcome' = how
  BY <1>1, SqlQueryKeeps DEF IInv, LeaksAreKnown
<1>3. /\ buckets \in Heaps
      /\ how = "done" => /\ DOMAIN buckets = Live \cup {p}
                         /\ \A a \in Live \ {p} : buckets[a] = heap[a]
                         /\ buckets[p] = "some" <=> d \in connected
      /\ how # "done" => buckets = heap
  <2>1. heap \in Heaps /\ (how = "done" => p \in Address \ Live)
    BY <1>1 DEF IInv, TypeOK, Select
  <2>2. RowsIf(d \in connected) \in RowCounts
        /\ (RowsIf(d \in connected) = "some" <=> d \in connected)
    BY DEF RowsIf, RowCounts
  <2> QED BY <2>1, <2>2, BucketsAre
<1>4. CASE p \in DOMAIN buckets /\ buckets[p] = "some"
  <2>1. /\ Remove(buckets, p) /\ report' = p /\ todo' = todo \ {d}
        /\ pc' = "last" /\ UNCHANGED <<dbVars, mapVars, loop>>
    BY <1>4 DEF DeviceInfo
  <2>2. heap' \in Heaps /\ abandoned' \subseteq Address /\ LeaksAreKnown'
    <3>1. p \in Address /\ DOMAIN buckets = Live \cup {p}
          /\ \A a \in Live \ {p} : buckets[a] = heap[a]
      BY <1>3, <1>4, HeapOperations DEF Live
    <3>2. heap' = [a \in DOMAIN buckets \ {p} |-> buckets[a]]
          /\ abandoned' = abandoned \ {p}
      BY <2>1 DEF Remove
    <3> HIDE DEF buckets
    <3> QED BY <1>2, <1>3, <3>1, <3>2, RemoveKeeps
  <2>3. TypeOK'
    BY <1>1, <1>2, <2>1, <2>2 DEF IInv, TypeOK, dbVars, mapVars
  <2> QED BY <2>1, <2>2, <2>3
          DEF IInv, MapIsOfThePast, UndefinedHasAReason, dbVars, mapVars
<1>5. CASE ~(p \in DOMAIN buckets /\ buckets[p] = "some")
  <2>1. Undefined
    BY <1>5 DEF DeviceInfo
  <2>2. how = "done" => d \notin connected
    BY <1>3, <1>5
  <2>3. d \notin connected => d \in gone
    BY <1>1 DEF IInv, MapIsOfThePast
  <2> QED BY <1>1, <2>1, <2>2, <2>3, UndefinedKeeps
<1> QED BY <1>4, <1>5

(* An early return leaks the bucket, if it is not one that leaked before.  *)
LEMMA LastStatKeeps ==
    ASSUME IInv, NEW how \in Outcomes, NEW p \in Pointer, LastStat(how, p)
    PROVE  IInv'
<1> DEFINE buckets == Buckets(how, p, RowsIf(dev \in known))
<1>1. Select(how, p, p) /\ SqlQuery(how) /\ dev' = dev
  BY DEF LastStat, Select
<1>2. /\ handles' \in Nat /\ refused' \in 0..MaxRefused
      /\ handles' = refused' /\ outcome' = how
  BY <1>1, SqlQueryKeeps DEF IInv, LeaksAreKnown
<1>3. /\ buckets \in Heaps
      /\ how = "done" => /\ DOMAIN buckets = Live \cup {p}
                         /\ \A a \in Live : buckets[a] = heap[a]
      /\ how # "done" => buckets = heap
  <2>1. heap \in Heaps /\ (how = "done" => p \in Address \ Live)
    BY <1>1 DEF IInv, TypeOK, Select
  <2>2. RowsIf(dev \in known) \in RowCounts
    BY DEF RowsIf, RowCounts
  <2> QED BY <1>1, <2>1, <2>2, BucketsAre
<1>4. CASE p \in DOMAIN buckets
  <2>1. /\ \/ buckets[p] = "some" /\ Remove(buckets, p)
           \/ /\ buckets[p] = "none" /\ heap' = buckets
              /\ abandoned' = abandoned \cup {p}
        /\ pc' = "write" /\ UNCHANGED <<dbVars, mapVars, loop, todo, report>>
    BY <1>4 DEF LastStat
  <2>2. heap' \in Heaps /\ abandoned' \subseteq Address /\ LeaksAreKnown'
    <3>1. CASE Remove(buckets, p)
      <4>1. p \in Address /\ DOMAIN buckets = Live \cup {p}
            /\ \A a \in Live \ {p} : buckets[a] = heap[a]
        BY <1>3, <1>4, HeapOperations DEF Live
      <4>2. heap' = [a \in DOMAIN buckets \ {p} |-> buckets[a]]
            /\ abandoned' = abandoned \ {p}
        BY <3>1 DEF Remove
      <4> HIDE DEF buckets
      <4> QED BY <1>2, <1>3, <4>1, <4>2, RemoveKeeps
    <3>2. CASE /\ buckets[p] = "none" /\ heap' = buckets
               /\ abandoned' = abandoned \cup {p}
      <4>1. p \in Address
        BY <1>3, <1>4, HeapOperations
      <4> HIDE DEF buckets
      <4>2. Live' = Live \cup {p} /\ \A a \in Live' : heap'[a] = "none"
        BY <1>3, <1>4, <3>2 DEF IInv, LeaksAreKnown, Live
      <4>3. LeaksAreKnown'
        BY <1>2, <3>2, <4>2 DEF IInv, LeaksAreKnown
      <4> QED BY <1>3, <3>2, <4>1, <4>3 DEF IInv, TypeOK
    <3> QED BY <2>1, <3>1, <3>2
  <2>3. TypeOK'
    BY <1>1, <1>2, <2>1, <2>2 DEF IInv, TypeOK, dbVars, mapVars
  <2> QED BY <2>1, <2>2, <2>3
          DEF IInv, MapIsOfThePast, UndefinedHasAReason, dbVars, mapVars
<1>5. CASE p \notin DOMAIN buckets
  <2>1. Undefined /\ how # "done"
    BY <1>3, <1>5 DEF LastStat
  <2> QED BY <1>1, <2>1, UndefinedKeeps DEF IInv, TypeOK
<1> QED BY <1>4, <1>5

(* Every query, failed or not, every removal of a bucket and every edit of *)
(* the database preserves the invariant.                                   *)
THEOREM InductiveStep == IInv /\ [Next]_vars => IInv'
<1> SUFFICES ASSUME IInv, [Next]_vars PROVE IInv'
  OBVIOUS
<1>1. ASSUME NEW how \in Outcomes, NEW p \in Pointer, GetIpIds(how, p)
      PROVE  IInv'
  BY <1>1, GetIpIdsKeeps
<1>2. ASSUME NEW how \in Outcomes, NEW p \in Pointer, NEW d \in Device,
             DeviceInfo(how, d, p)
      PROVE  IInv'
  BY <1>2, DeviceInfoKeeps
<1>3. ASSUME NEW how \in Outcomes, NEW p \in Pointer, LastStat(how, p)
      PROVE  IInv'
  BY <1>3, LastStatKeeps
<1>4. CASE SecondLoop \/ EndReport
  BY <1>4 DEF SecondLoop, EndReport, dbVars, mapVars, IInv, TypeOK,
              MapIsOfThePast, UndefinedHasAReason, LeaksAreKnown, Live
<1>5. ASSUME NEW how \in Outcomes, Write(how) PROVE IInv'
  <2>1. /\ handles' \in Nat /\ refused' \in 0..MaxRefused
        /\ handles' = refused' /\ outcome' = how
    BY <1>5, SqlQueryKeeps DEF Write, IInv, LeaksAreKnown
  <2>2. TypeOK'
    BY <1>5, <2>1 DEF Write, mapVars, IInv, TypeOK
  <2> QED BY <1>5, <2>1, <2>2
          DEF Write, mapVars, IInv, MapIsOfThePast, UndefinedHasAReason,
              LeaksAreKnown, Live
<1>6. ASSUME NEW d \in Device, Plug(d) \/ Unplug(d) PROVE IInv'
  BY <1>6 DEF Plug, Unplug, mapVars, IInv, TypeOK, MapIsOfThePast,
              UndefinedHasAReason, LeaksAreKnown, Live
<1>7. CASE UNCHANGED vars
  BY <1>7 DEF vars, IInv, TypeOK, MapIsOfThePast, UndefinedHasAReason,
              LeaksAreKnown, Live
<1> QED BY <1>1, <1>2, <1>3, <1>4, <1>5, <1>6, <1>7 DEF Next

(* The invariant holds as long as the monitor runs.                        *)
THEOREM Invariance == Spec => []IInv
BY InitEstablishes, InductiveStep, PTL DEF Spec

(* When a query succeeds and yet a row is missing for GET_DEVICE_INFO, the *)
(* device was unplugged after the map was filled; no bucket is used that   *)
(* an earlier query has brought, whatever has failed before.               *)
THEOREM UndefinedAlwaysHasAReason == Spec => []UndefinedHasAReason
<1>1. IInv => UndefinedHasAReason
  BY DEF IInv
<1> QED BY Invariance, <1>1, PTL

(* All that leaks are the empty buckets of get_last_stat_for_device() and  *)
(* the handles of refused connections.                                     *)
THEOREM NothingElseLeaks == Spec => []LeaksAreKnown
<1>1. IInv => LeaksAreKnown
  BY DEF IInv
<1> QED BY Invariance, <1>1, PTL

(* A failed read goes unnoticed only where it finds a leaked bucket, which *)
(* has no rows; GET_DEVICE_INFO never finds one that has.                  *)
THEOREM MisreadsComeFromLeaks == Spec => MisreadsNeedALeak
<1>1. IInv => FailuresFindLeaks
  <2> SUFFICES ASSUME IInv PROVE FailuresFindLeaks
    OBVIOUS
  <2>1. Live = abandoned /\ \A p \in Live : heap[p] = "none"
    BY DEF IInv, LeaksAreKnown
  <2>2. ASSUME NEW how \in Outcomes \ {"done"}, NEW p \in Pointer,
               GetIpIds(how, p) \/ LastStat(how, p)
        PROVE  pc' = "undefined" \/ (p \in abandoned /\ heap[p] = "none")
    BY <2>1, <2>2 DEF GetIpIds, LastStat, Buckets, Undefined, Live
  <2>3. ASSUME NEW how \in Outcomes \ {"done"}, NEW p \in Pointer,
               NEW d \in Device, DeviceInfo(how, d, p)
        PROVE  pc' = "undefined"
    BY <2>1, <2>3 DEF DeviceInfo, Buckets, Undefined, Live
  <2> QED BY <2>2, <2>3 DEF FailuresFindLeaks
<1> QED BY Invariance, <1>1, PTL DEF Spec, MisreadsNeedALeak
=============================================================================
