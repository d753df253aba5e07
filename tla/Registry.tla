------------------------------ MODULE Registry ------------------------------
(***************************************************************************)
(* Which devices a cycle is about: the map ip_ids, filled from a query by  *)
(* get_devices_to_probe() (src/src/monitor_db_api.c), and who of the       *)
(* database's devices gets a verdict through it.                           *)
(*                                                                         *)
(* The map goes from the text of the ip column, as it is, to a copy of the *)
(* device's id on the heap.  Two rows may have one text; a text may be a   *)
(* host name or an unusual form of an address, whereas answers arrive      *)
(* under the dotted quad of their sender (arp_recv.c:89-103).              *)
(*                                                                         *)
(* The cycle itself is one step here: ProbeCycle is about it.              *)
(***************************************************************************)
EXTENDS Naturals, Sequences, Functions

CONSTANTS
    Id,       \* device ids
    Text,     \* texts of the ip column
    Heard,    \* Heard[t]: the dotted quad of the host that t resolves to
    Block,    \* addresses that malloc() may return
    MaxRows   \* bound on the rows of an answer

ASSUME HeardAssumption ==
    Heard \in [Text -> Text] /\ \A t \in Text : Heard[Heard[t]] = Heard[t]

ASSUME MaxRowsAssumption == MaxRows \in Nat

VARIABLES
    pc,       \* where the main thread is
    latest,   \* the last answer with rows since the process began
    next,     \* the loop counter of get_ip_ids_for_query()
    null,     \* ip_ids is NULL
    ids,      \* the entries of ip_ids: which block holds the id for a text
    heap,     \* the ids that are allocated
    verdict,  \* the verdicts of the last cycle on each device
    heard,    \* who answered in it (history)
    shared    \* two rows of some answer had one text (history)

vars == <<pc, latest, next, null, ids, heap, verdict, heard, shared>>

mapVars  == <<null, ids, heap>>
pastVars == <<latest, verdict, heard, shared>>

Row == [id : Id, ip : Text]

(* d.id is the key of devices, so that a device has one ip; connected_     *)
(* devices may list it more than once.                                     *)
Answers ==
    {s \in UNION {[1..n -> Row] : n \in 0..MaxRows} :
        \A i, j \in DOMAIN s : s[i].id = s[j].id => s[i].ip = s[j].ip}

Partial(S, T) == UNION {[D -> T] : D \in SUBSET S}

TypeOK ==
    /\ pc \in {"ready", "free", "fill", "keys", "polled", "judged", "undefined"}
    /\ latest \in Answers
    /\ next \in Nat
    /\ null \in BOOLEAN /\ shared \in BOOLEAN
    /\ ids \in Partial(Text, Block)
    /\ heap \in Partial(Block, Id)
    /\ heard \subseteq Range(Heard)
    /\ verdict \in [Id -> SUBSET {"up", "down"}]

Empty == [x \in {} |-> x]

Init ==
    /\ pc = "ready" /\ latest = <<>> /\ next = 1
    /\ null = TRUE /\ ids = Empty /\ heap = Empty
    /\ verdict = [d \in Id |-> {}] /\ heard = {} /\ shared = FALSE

Without(f, x) == [y \in DOMAIN f \ {x} |-> f[y]]

With(f, x, v) == [y \in DOMAIN f \cup {x} |-> IF y = x THEN v ELSE f[y]]

Shares(s) == \E i, j \in DOMAIN s : i # j /\ s[i].ip = s[j].ip

(* get_ip_ids_for_query(): an answer without rows changes nothing.         *)
Query(rows) ==
    /\ pc \in {"ready", "judged"}
    /\ latest' = IF rows # <<>> THEN rows ELSE latest
    /\ shared' = (shared \/ Shares(rows))
    /\ next' = 1
    /\ pc' = IF rows # <<>> THEN "free" ELSE "keys"
    /\ UNCHANGED <<mapVars, verdict, heard>>

(* The values of the entries are left alone: a mutation.                   *)
LoseId(t) ==
    /\ pc = "free" /\ t \in DOMAIN ids
    /\ ids' = Without(ids, t)
    /\ UNCHANGED <<pc, next, null, heap, pastVars>>

(* The value is freed, and left in its entry: a mutation.                  *)
FreeEntry(t) ==
    /\ pc = "free" /\ t \in DOMAIN ids
    /\ heap' = Without(heap, ids[t])
    /\ UNCHANGED <<pc, next, null, ids, pastVars>>

(* free_ip_ids(), one entry after the other ...                            *)
FreeId(t) ==
    /\ pc = "free" /\ t \in DOMAIN ids
    /\ heap' = Without(heap, ids[t])
    /\ ids' = Without(ids, t)
    /\ UNCHANGED <<pc, next, null, pastVars>>

(* The new map does not get into ip_ids: a mutation.                       *)
NewMapUnset ==
    /\ pc = "free" /\ DOMAIN ids = {}
    /\ pc' = "fill"
    /\ UNCHANGED <<next, mapVars, pastVars>>

(* ... and init_ip_ids().                                                  *)
NewMap ==
    /\ pc = "free" /\ DOMAIN ids = {}
    /\ null' = FALSE
    /\ pc' = "fill"
    /\ UNCHANGED <<next, ids, heap, pastVars>>

(* A text that has an entry keeps it: a mutation.                          *)
PutIfNew(b) ==
    /\ pc = "fill" /\ next <= Len(latest)
    /\ b \notin DOMAIN heap
    /\ IF latest[next].ip \in DOMAIN ids
         THEN UNCHANGED <<heap, ids>>
         ELSE /\ heap' = With(heap, b, latest[next].id)
              /\ ids' = With(ids, latest[next].ip, b)
    /\ next' = next + 1
    /\ UNCHANGED <<pc, null, pastVars>>

(* copy_string() and jnx_hash_put(), which replaces what the text had.     *)
Put(b) ==
    /\ pc = "fill" /\ next <= Len(latest)
    /\ b \notin DOMAIN heap
    /\ heap' = With(heap, b, latest[next].id)
    /\ ids' = With(ids, latest[next].ip, b)
    /\ next' = next + 1
    /\ UNCHANGED <<pc, null, pastVars>>

EndFill ==
    /\ pc = "fill" /\ next > Len(latest)
    /\ pc' = "keys"
    /\ UNCHANGED <<next, mapVars, pastVars>>

(* get_devices_to_probe() copies the keys; a null pointer has none.        *)
GetKeys ==
    /\ pc = "keys"
    /\ pc' = IF null THEN "undefined" ELSE "polled"
    /\ UNCHANGED <<next, mapVars, pastVars>>

(* The devices whose text meets test (or does not).                        *)
Verdicts(test) ==
    [d \in Id |->
        {v \in {"up", "down"} : \E t \in DOMAIN ids :
            heap[ids[t]] = d /\ (v = "up" <=> t \in test)}]

(* The cycle, when hosts are those who answer: the first loop of           *)
(* update_device_stats() looks up the quads under which they did, the      *)
(* second one the texts that update_devices_to_probe() has left.           *)
Report(hosts) ==
    /\ pc = "polled"
    /\ heard' = hosts
    /\ verdict' = Verdicts(hosts)
    /\ pc' = "judged"
    /\ UNCHANGED <<latest, next, mapVars, shared>>

(* The process ends, for one reason or another, and is started again.      *)
Restart ==
    /\ pc' = "ready" /\ latest' = <<>> /\ next' = 1
    /\ null' = TRUE /\ ids' = Empty /\ heap' = Empty /\ shared' = FALSE
    /\ UNCHANGED <<verdict, heard>>

Next ==
    \/ \E rows \in Answers : Query(rows)
    \/ \E t \in Text : FreeId(t)
    \/ NewMap
    \/ \E b \in Block : Put(b)
    \/ EndFill
    \/ GetKeys
    \/ \E hosts \in SUBSET Range(Heard) : Report(hosts)
    \/ Restart

Spec == Init /\ [][Next]_vars

-----------------------------------------------------------------------------
(* Row k of s is the last one of its text among the first n.               *)
LastOf(s, n, k) ==
    k \in 1..n /\ \A j \in (k + 1)..n : s[j].ip # s[k].ip

(* A cycle judges the device of the last row of each text in the last      *)
(* answer that had rows, by what was heard from just that text: neither a  *)
(* device whose text another row took over, nor one of an earlier answer.  *)
VerdictsAreOfLastRows ==
    pc = "judged" =>
        \A d \in Id, v \in {"up", "down"} :
            v \in verdict[d] <=>
                \E k \in DOMAIN latest :
                    /\ LastOf(latest, Len(latest), k)
                    /\ latest[k].id = d
                    /\ v = "up" <=> latest[k].ip \in heard

(* Keys are taken of a null pointer only in a process that was never given *)
(* a device: no later answer, empty or not, leads there.                   *)
NullOnlyBeforeDevices ==
    pc = "undefined" => latest = <<>>

(* Ids are neither freed twice nor read after it: an entry has a block,    *)
(* that no other entry has.                                                *)
EntriesAreLive ==
    /\ \A t \in DOMAIN ids : ids[t] \in DOMAIN heap
    /\ \A t, u \in DOMAIN ids : ids[t] = ids[u] => t = u

(* The only id that is lost is one whose text a later row took over.       *)
OnlyTakenOverIdsLeak ==
    ~shared => DOMAIN heap = {ids[t] : t \in DOMAIN ids}

(* Entries and heap implement the last answer with rows: each cycle judges *)
(* by it and by nothing older, and once there was one there are keys to    *)
(* take.                                                                   *)
Contract ==
    INSTANCE RegistryContract WITH
        Hosts <- Range(Heard), answer <- latest, lost <- (pc = "undefined")

JudgesByLastAnswer == Contract!Spec

-----------------------------------------------------------------------------
(* The inductive invariant behind them.                                    *)

(* The map is what the first n rows of the answer make of it.              *)
Follows(n) ==
    /\ \A k \in 1..n : latest[k].ip \in DOMAIN ids
    /\ \A t \in DOMAIN ids : \E k \in 1..n :
          LastOf(latest, n, k) /\ latest[k].ip = t /\ heap[ids[t]] = latest[k].id

MapFollows ==
    /\ pc = "free" => next = 1
    /\ pc = "fill" => next \in 1..(Len(latest) + 1) /\ Follows(next - 1)
    /\ pc \notin {"free", "fill"} => Follows(Len(latest))

SharingIsSeen == Shares(latest) => shared

(* The pointer is null just until the first answer with rows is taken in,  *)
(* and no cycle goes on with the keys of a null one.                       *)
NullIsEmpty ==
    /\ pc = "free" => latest # <<>>
    /\ pc # "free" => (null <=> latest = <<>>)
    /\ pc = "polled" => ~null

IInv ==
    /\ TypeOK
    /\ MapFollows
    /\ SharingIsSeen
    /\ NullIsEmpty
    /\ VerdictsAreOfLastRows
    /\ NullOnlyBeforeDevices
    /\ EntriesAreLive
    /\ OnlyTakenOverIdsLeak
=============================================================================
