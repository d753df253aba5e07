----------------------------- MODULE SqlSession -----------------------------
(***************************************************************************)
(* The result buckets that the monitor asks of the database and gives back *)
(* (src/src/database/, and their users in src/src/monitor_db_api.c).       *)
(*                                                                         *)
(* sql_send_query() reports failure by its return value and, when a SELECT *)
(* brought no result set, by leaving the caller's pointer alone.  No       *)
(* caller looks at the first, or sets the pointer before the call.  So a   *)
(* pointer that is used may be the one of this query, one of an earlier    *)
(* query, or whatever the stack holds.  Nor does a caller ask whether a    *)
(* row that it wants is there, although the database may have changed      *)
(* since the map of the devices was read from it.                          *)
(*                                                                         *)
(* Abstractions: a bucket is its address and whether it has rows;          *)
(* addresses that were freed are allocated again.  A query fails because   *)
(* the database refuses the connection, or for another reason (no handle,  *)
(* an error of the first or of a later statement): callers see no          *)
(* difference.  A connected device has an ip and a machine.  Using a       *)
(* pointer that is not a live bucket, or a row that it does not have, ends *)
(* the behaviour, as does the null map (see Registry).                     *)
(***************************************************************************)
EXTENDS Naturals, FiniteSets

CONSTANTS
    Address,     \* what malloc() may return for a bucket
    Wild,        \* a pointer to anything else
    Device,      \* the devices of the database
    MaxRefused   \* bound on refused connections

ASSUME WildAssumption == Wild \notin Address
ASSUME MaxRefusedAssumption == MaxRefused \in Nat

VARIABLES
    pc,          \* the next query of the main thread
    connected,   \* the devices that connected_devices lists now
    known,       \* the devices that have a row in device_stats
    registry,    \* the ids of ip_ids
    gone,        \* who was unplugged since ip_ids was filled (history)
    loop,        \* which of the two loops of update_device_stats() runs
    todo,        \* the devices that are left of it
    dev,         \* the device that is being reported
    report,      \* the variable results of update_device_stats()
    heap,        \* the live buckets: whether they have rows
    abandoned,   \* the buckets given up by an early return (history)
    handles,     \* the connection handles that are not closed
    refused,     \* the connections that were refused (history)
    outcome      \* how the last query ended (history: nobody asks)

vars == <<pc, connected, known, registry, gone, loop, todo, dev, report, heap,
          abandoned, handles, refused, outcome>>

dbVars  == <<connected, known>>
mapVars == <<registry, gone>>

Outcomes == {"done", "refused", "failed"}

Pointer == Address \cup {Wild}

RowCounts == {"none", "some"}

Heaps == UNION {[S -> RowCounts] : S \in SUBSET Address}

TypeOK ==
    /\ pc \in {"fetch", "info", "last", "write", "undefined"}
    /\ connected \subseteq Device /\ known \subseteq Device
    /\ registry \subseteq Device /\ gone \subseteq Device
    /\ loop \in 1..2 /\ todo \subseteq Device /\ dev \in Device
    /\ report \in Pointer
    /\ heap \in Heaps /\ abandoned \subseteq Address
    /\ handles \in Nat /\ refused \in 0..MaxRefused
    /\ outcome \in Outcomes

Live == DOMAIN heap

(* The monitor is started; an earlier one may have left rows behind.       *)
Init ==
    /\ pc = "fetch"
    /\ connected \in SUBSET Device /\ known \in SUBSET Device
    /\ registry = {} /\ gone = {}
    /\ loop = 1 /\ todo = {} /\ dev \in Device
    /\ report \in Pointer
    /\ heap = [a \in {} |-> "none"] /\ abandoned = {}
    /\ handles = 0 /\ refused = 0 /\ outcome = "done"

-----------------------------------------------------------------------------
(* Queries.                                                                *)

(* The handle is not closed after an error of the query: a mutation.       *)
SqlQueryUnclosed(how) ==
    /\ how = "refused" => refused < MaxRefused
    /\ refused' = IF how = "refused" THEN refused + 1 ELSE refused
    /\ handles' = IF how = "done" THEN handles ELSE handles + 1
    /\ outcome' = how

(* sql_query(): the handle that mysql_init() returned is closed, but not   *)
(* after a refused connection.                                             *)
SqlQuery(how) ==
    /\ how = "refused" => refused < MaxRefused
    /\ refused' = IF how = "refused" THEN refused + 1 ELSE refused
    /\ handles' = IF how = "refused" THEN handles + 1 ELSE handles
    /\ outcome' = how

(* What a SELECT makes of the pointer "was" of its caller: a new bucket's, *)
(* or nothing.                                                             *)
Select(how, was, p) ==
    /\ SqlQuery(how)
    /\ IF how = "done" THEN p \in Address \ Live ELSE p = was

RowsIf(found) == IF found THEN "some" ELSE "none"

(* add_mysql_result_bucket_entry().                                        *)
Buckets(how, p, rows) ==
    IF how = "done"
      THEN [a \in Live \cup {p} |-> IF a = p THEN rows ELSE heap[a]]
      ELSE heap

(* remove_mysql_result_bucket().                                           *)
Remove(buckets, p) ==
    /\ heap' = [a \in DOMAIN buckets \ {p} |-> buckets[a]]
    /\ abandoned' = abandoned \ {p}

Undefined ==
    /\ pc' = "undefined"
    /\ UNCHANGED <<dbVars, mapVars, loop, todo, report, heap, abandoned>>

-----------------------------------------------------------------------------
(* get_ip_ids_for_query() and the report that it leads to.  results is a   *)
(* local variable: it was whatever the stack held.                         *)

(* The entries of the map before are kept: a mutation.                     *)
GetIpIdsToo(how, p) ==
    LET buckets == Buckets(how, p, RowsIf(connected # {})) IN
    /\ pc = "fetch"
    /\ Select(how, p, p)
    /\ \/ /\ p \in DOMAIN buckets
          /\ \/ /\ buckets[p] = "some"
                /\ registry' = registry \cup connected
                /\ gone' = {}
             \/ buckets[p] = "none" /\ UNCHANGED mapVars
          /\ Remove(buckets, p)
          /\ registry' # {}
          /\ loop' = 1 /\ todo' \in SUBSET registry'
          /\ report' \in Pointer
          /\ pc' = "info"
          /\ UNCHANGED <<dbVars, dev>>
       \/ p \notin DOMAIN buckets /\ Undefined /\ UNCHANGED dev

(* An answer without rows leaves the map alone.  (Rows of another query    *)
(* would fill it with anything.)  Who has answered, and is reported first, *)
(* is not known here.                                                      *)
GetIpIds(how, p) ==
    LET buckets == Buckets(how, p, RowsIf(connected # {})) IN
    /\ pc = "fetch"
    /\ Select(how, p, p)
    /\ \/ /\ p \in DOMAIN buckets
          /\ \/ /\ buckets[p] = "some"
                /\ registry' \in IF how = "done" THEN {connected}
                                               ELSE SUBSET Device
                /\ gone' = {}
             \/ buckets[p] = "none" /\ UNCHANGED mapVars
          /\ Remove(buckets, p)
          /\ registry' # {}
          /\ loop' = 1 /\ todo' \in SUBSET registry'
          /\ report' \in Pointer
          /\ pc' = "info"
          /\ UNCHANGED <<dbVars, dev>>
       \/ p \notin DOMAIN buckets /\ Undefined /\ UNCHANGED dev

(* The second loop is over the devices that did not respond, some of which *)
(* may have been in the first.                                             *)
SecondLoop ==
    /\ pc = "info" /\ todo = {} /\ loop = 1
    /\ loop' = 2 /\ todo' \in SUBSET registry
    /\ UNCHANGED <<pc, dbVars, mapVars, dev, report, heap, abandoned, handles,
                   refused, outcome>>

EndReport ==
    /\ pc = "info" /\ todo = {} /\ loop = 2
    /\ pc' = "fetch"
    /\ UNCHANGED <<dbVars, mapVars, loop, todo, dev, report, heap, abandoned,
                   handles, refused, outcome>>

(* GET_DEVICE_INFO: the first row is read, the bucket removed.             *)
DeviceInfo(how, d, p) ==
    LET buckets == Buckets(how, p, RowsIf(d \in connected)) IN
    /\ pc = "info" /\ d \in todo
    /\ Select(how, report, p)
    /\ dev' = d
    /\ \/ /\ p \in DOMAIN buckets /\ buckets[p] = "some"
          /\ Remove(buckets, p)
          /\ report' = p /\ todo' = todo \ {d}
          /\ pc' = "last"
          /\ UNCHANGED <<dbVars, mapVars, loop>>
       \/ /\ ~(p \in DOMAIN buckets /\ buckets[p] = "some")
          /\ Undefined

-----------------------------------------------------------------------------
(* get_last_stat_for_device().  Its results is a local variable as well.   *)

(* A bucket with rows is not removed either: a mutation.                   *)
LastStatKept(how, p) ==
    LET buckets == Buckets(how, p, RowsIf(dev \in known)) IN
    /\ pc = "last"
    /\ Select(how, p, p)
    /\ \/ /\ p \in DOMAIN buckets
          /\ heap' = buckets
          /\ abandoned' = IF buckets[p] = "some" THEN abandoned
                                                 ELSE abandoned \cup {p}
          /\ pc' = "write"
          /\ UNCHANGED <<dbVars, mapVars, loop, todo, report>>
       \/ p \notin DOMAIN buckets /\ Undefined
    /\ UNCHANGED dev

(* A bucket without rows is not removed.                                   *)
LastStat(how, p) ==
    LET buckets == Buckets(how, p, RowsIf(dev \in known)) IN
    /\ pc = "last"
    /\ Select(how, p, p)
    /\ \/ /\ p \in DOMAIN buckets
          /\ \/ buckets[p] = "some" /\ Remove(buckets, p)
             \/ /\ buckets[p] = "none"
                /\ heap' = buckets
                /\ abandoned' = abandoned \cup {p}
          /\ pc' = "write"
          /\ UNCHANGED <<dbVars, mapVars, loop, todo, report>>
       \/ p \notin DOMAIN buckets /\ Undefined
    /\ UNCHANGED dev

(* The INSERT or UPDATE has no result set: no pointer moves, whether it    *)
(* succeeds or not, and none is used.                                      *)
Write(how) ==
    /\ pc = "write"
    /\ SqlQuery(how)
    /\ known' = IF how = "done" THEN known \cup {dev} ELSE known
    /\ pc' = "info"
    /\ UNCHANGED <<connected, mapVars, loop, todo, dev, report, heap,
                   abandoned>>

-----------------------------------------------------------------------------
(* Whoever edits connected_devices, at any time.                           *)

Plug(d) ==
    /\ pc # "undefined" /\ d \notin connected
    /\ connected' = connected \cup {d}
    /\ UNCHANGED <<pc, known, mapVars, loop, todo, dev, report, heap,
                   abandoned, handles, refused, outcome>>

Unplug(d) ==
    /\ pc # "undefined" /\ d \in connected
    /\ connected' = connected \ {d}
    /\ gone' = gone \cup {d}
    /\ UNCHANGED <<pc, known, registry, loop, todo, dev, report, heap,
                   abandoned, handles, refused, outcome>>

Next ==
    \/ \E how \in Outcomes, p \in Pointer :
          \/ GetIpIds(how, p)
          \/ \E d \in Device : DeviceInfo(how, d, p)
          \/ LastStat(how, p)
    \/ SecondLoop
    \/ EndReport
    \/ \E how \in Outcomes : Write(how)
    \/ \E d \in Device : Plug(d) \/ Unplug(d)

Spec == Init /\ [][Next]_vars

-----------------------------------------------------------------------------
(* A row is missing, or a pointer wrong, only for a reason: the SELECT     *)
(* before has failed, or the device that is being reported was unplugged   *)
(* since the map was last filled, be it cycles ago.  Nothing else ends the *)
(* report: no bucket that was removed is used again, no device is asked    *)
(* for that an earlier map has left behind, and a failed INSERT or UPDATE  *)
(* does no harm, although results dangles then.                            *)
UndefinedHasAReason ==
    pc = "undefined" => outcome # "done" \/ dev \in gone \ connected

(* What stays allocated are the buckets of devices that had no row yet and *)
(* the handles of refused connections; nothing else, not even after reads  *)
(* have failed.                                                            *)
LeaksAreKnown ==
    /\ handles = refused
    /\ Live = abandoned
    /\ \A p \in Live : heap[p] = "none"

FailuresFindLeaks ==
    \A how \in Outcomes \ {"done"}, p \in Pointer :
        /\ GetIpIds(how, p) \/ LastStat(how, p) =>
              pc' = "undefined" \/ (p \in abandoned /\ heap[p] = "none")
        /\ \A d \in Device : DeviceInfo(how, d, p) => pc' = "undefined"

(* A failed SELECT goes unnoticed only where the stale pointer hits such a *)
(* leaked bucket, and then as an answer without rows; after one for        *)
(* GET_DEVICE_INFO no row is there to be read at all.  (That is why        *)
(* DeviceStats and ProbeCycle know failed reads as empty answers only.)    *)
MisreadsNeedALeak == [][FailuresFindLeaks]_vars

(* Who is to be reported is in the map, and who of the map is not          *)
(* connected any more was unplugged after it was filled.                   *)
MapIsOfThePast ==
    /\ todo \subseteq registry
    /\ registry \ connected \subseteq gone

IInv ==
    /\ TypeOK
    /\ MapIsOfThePast
    /\ UndefinedHasAReason
    /\ LeaksAreKnown
=============================================================================
