----------------------------- MODULE SharedTable -----------------------------
(***************************************************************************)
(* The table of answers ips_to_macs and its mutex mux (src/src/shared.c),  *)
(* one access at a time.  The table maps addresses to MACs that were       *)
(* allocated by the receiving thread and that belong to the table from     *)
(* then on; a newer answer frees the MAC of the older one.  The main       *)
(* thread meanwhile walks over the table: to copy its keys, to report its  *)
(* MACs to the database, which takes long, and to empty it.                *)
(*                                                                         *)
(* Nothing but the mutex keeps the threads from each other's blocks.       *)
(* ProbeCycle and ArpLink take the critical sections for single steps;     *)
(* this module is the reason why they may.                                 *)
(*                                                                         *)
(* Abstractions: a null table, which no thread sees after the start, is    *)
(* the empty one; the heap is the blocks that hold a MAC.                  *)
(***************************************************************************)
EXTENDS Naturals, Sequences

CONSTANTS
    Address,  \* IPv4 addresses
    Device,   \* those that have a device id in ip_ids
    Mac,      \* what MACs there are
    Block,    \* where malloc() may put one
    None      \* no block, no MAC

ASSUME DeviceAssumption == Device \subseteq Address
ASSUME NoneAssumption == None \notin Mac \cup Block

VARIABLES
    mux,      \* the thread that holds mux, or "free"
    entry,    \* ips_to_macs: the block of each address, or None
    heap,     \* what each allocated block holds; None for the others
    main,     \* where the main thread is
    todo,     \* what is left of the keys that it walks over
    key,      \* ips[i] in update_device_stats()
    held,     \* mac_address in update_device_stats()
    copied,   \* what get_ips_that_responded() returns
    reported, \* the MACs that the report has given to the database
    recv,     \* where the receiving thread is
    ip, mac   \* the arguments of received_mac_for_ip()

vars == <<mux, entry, heap, main, todo, key, held, copied, reported, recv,
          ip, mac>>

mainVars == <<main, todo, key, held, copied, reported>>
recvVars == <<recv, ip, mac>>

TypeOK ==
    /\ mux \in {"free", "main", "recv"}
    /\ entry \in [Address -> Block \cup {None}]
    /\ heap \in [Block -> Mac \cup {None}]
    /\ main \in {"poll", "copy", "report", "query", "reported", "clear"}
    /\ todo \subseteq Address
    /\ key \in Address /\ held \in Block \cup {None}
    /\ copied \subseteq Address
    /\ reported \in [Device -> Mac \cup {None}]
    /\ recv \in {"listen", "enter", "free", "put", "unlock"}
    /\ ip \in Address /\ mac \in Block \cup {None}

(* jnx_hash_get_keys().                                                    *)
Keys == {a \in Address : entry[a] # None}

(* The MAC that the table has for an address.                              *)
MacOf(a) == IF entry[a] = None THEN None ELSE heap[entry[a]]

(* The receiving thread has been created, with the table reset.            *)
Init ==
    /\ mux = "free"
    /\ entry = [a \in Address |-> None]
    /\ heap = [b \in Block |-> None]
    /\ main = "poll" /\ todo = {} /\ copied = {} /\ held = None
    /\ reported = [a \in Device |-> None]
    /\ recv = "listen" /\ mac = None
    /\ key \in Address /\ ip \in Address

-----------------------------------------------------------------------------
(* Mutations of the actions below: mistakes that the properties notice.    *)

(* The report is made without the mutex.                                   *)
ReportWithoutLock ==
    /\ main = "poll" /\ mux = "free"
    /\ main' = "report"
    /\ todo' = Keys \cap Device
    /\ reported' = [a \in Device |-> None]
    /\ UNCHANGED <<mux, entry, heap, key, held, copied, recvVars>>

(* The table is emptied without the mutex.                                 *)
ResetWithoutLock ==
    /\ main = "reported" /\ mux = "free"
    /\ main' = "clear"
    /\ todo' = Keys
    /\ UNCHANGED <<mux, entry, heap, key, held, copied, reported, recvVars>>

(* The keys are copied without the mutex.                                  *)
CopyWithoutLock ==
    /\ main = "poll" /\ mux = "free"
    /\ main' = "copy"
    /\ todo' = Keys /\ copied' = {}
    /\ UNCHANGED <<mux, entry, heap, key, held, reported, recvVars>>

(* The MAC of the older answer is forgotten.                               *)
KeepPrevious ==
    /\ recv = "free"
    /\ recv' = "put"
    /\ UNCHANGED <<mux, entry, heap, mainVars, ip, mac>>

-----------------------------------------------------------------------------
(* The main thread: get_ips_that_responded() after every round of a poll.  *)

LockToCopy ==
    /\ main = "poll" /\ mux = "free"
    /\ mux' = "main" /\ main' = "copy"
    /\ todo' = Keys /\ copied' = {}
    /\ UNCHANGED <<entry, heap, key, held, reported, recvVars>>

CopyKey(a) ==
    /\ main = "copy" /\ a \in todo
    /\ copied' = copied \cup {a}
    /\ todo' = todo \ {a}
    /\ UNCHANGED <<mux, entry, heap, main, key, held, reported, recvVars>>

UnlockCopy ==
    /\ main = "copy" /\ todo = {}
    /\ mux' = "free" /\ main' = "poll"
    /\ UNCHANGED <<entry, heap, todo, key, held, copied, reported, recvVars>>

(* update_db_after_probing() after the polls.  For each address of a       *)
(* device update_device_stats() takes the pointer to its MAC from the      *)
(* table, has three answers of the database to wait for, and only then     *)
(* formats the MAC into a statement.                                       *)

LockToReport ==
    /\ main = "poll" /\ mux = "free"
    /\ mux' = "main" /\ main' = "report"
    /\ todo' = Keys \cap Device
    /\ reported' = [a \in Device |-> None]
    /\ UNCHANGED <<entry, heap, key, held, copied, recvVars>>

TakeMac(a) ==
    /\ main = "report" /\ a \in todo
    /\ key' = a /\ held' = entry[a]
    /\ main' = "query"
    /\ UNCHANGED <<mux, entry, heap, todo, copied, reported, recvVars>>

UseMac ==
    /\ main = "query"
    /\ reported' = [reported EXCEPT ![key] = heap[held]]
    /\ todo' = todo \ {key}
    /\ main' = "report"
    /\ UNCHANGED <<mux, entry, heap, key, held, copied, recvVars>>

UnlockReport ==
    /\ main = "report" /\ todo = {}
    /\ mux' = "free" /\ main' = "reported"
    /\ UNCHANGED <<entry, heap, todo, key, held, copied, reported, recvVars>>

(* reset_probe() after the report.                                         *)

LockToReset ==
    /\ main = "reported" /\ mux = "free"
    /\ mux' = "main" /\ main' = "clear"
    /\ todo' = Keys
    /\ UNCHANGED <<entry, heap, key, held, copied, reported, recvVars>>

(* clear_ips_to_mac(): the key goes, and so does its MAC.                  *)
ClearKey(a) ==
    /\ main = "clear" /\ a \in todo
    /\ heap' = [heap EXCEPT ![entry[a]] = None]
    /\ entry' = [entry EXCEPT ![a] = None]
    /\ todo' = todo \ {a}
    /\ UNCHANGED <<mux, main, key, held, copied, reported, recvVars>>

UnlockReset ==
    /\ main = "clear" /\ todo = {}
    /\ mux' = "free" /\ main' = "poll"
    /\ UNCHANGED <<entry, heap, todo, key, held, copied, reported, recvVars>>

MainStep ==
    \/ LockToCopy \/ UnlockCopy
    \/ LockToReport \/ UseMac \/ UnlockReport
    \/ LockToReset \/ UnlockReset
    \/ \E a \in todo : CopyKey(a) \/ TakeMac(a) \/ ClearKey(a)

-----------------------------------------------------------------------------
(* The receiving thread: arp_recv() allocates the MAC of an answer ...     *)

Listen(a, m, b) ==
    /\ recv = "listen" /\ heap[b] = None
    /\ heap' = [heap EXCEPT ![b] = m]
    /\ ip' = a /\ mac' = b
    /\ recv' = "enter"
    /\ UNCHANGED <<mux, entry, mainVars>>

(* ... and received_mac_for_ip() gives it to the table.                    *)

LockToEnter ==
    /\ recv = "enter" /\ mux = "free"
    /\ mux' = "recv" /\ recv' = "free"
    /\ UNCHANGED <<entry, heap, mainVars, ip, mac>>

FreePrevious ==
    /\ recv = "free"
    /\ heap' = IF entry[ip] = None THEN heap
                                   ELSE [heap EXCEPT ![entry[ip]] = None]
    /\ recv' = "put"
    /\ UNCHANGED <<mux, entry, mainVars, ip, mac>>

Put ==
    /\ recv = "put"
    /\ entry' = [entry EXCEPT ![ip] = mac]
    /\ recv' = "unlock"
    /\ UNCHANGED <<mux, heap, mainVars, ip, mac>>

UnlockEnter ==
    /\ recv = "unlock"
    /\ mux' = "free" /\ recv' = "listen"
    /\ UNCHANGED <<entry, heap, mainVars, ip, mac>>

RecvStep ==
    \/ \E a \in Address, m \in Mac, b \in Block : Listen(a, m, b)
    \/ LockToEnter
    \/ FreePrevious
    \/ Put
    \/ UnlockEnter

Next == MainStep \/ RecvStep

Spec == Init /\ [][Next]_vars

-----------------------------------------------------------------------------
(* What the mutex is for.                                                  *)

(* No thread follows a pointer to a block that the other has freed: the    *)
(* MAC that the report holds while it waits for the database, and every    *)
(* entry that a thread can come across, are allocated.                     *)
PointersAreLive ==
    /\ main = "query" => held \in Block /\ heap[held] # None
    /\ \A a \in Keys : heap[entry[a]] # None \/ (recv = "put" /\ a = ip)

(* Every MAC has one owner: it is in the table under one address, or in    *)
(* the hands of the receiving thread on its way there.  So none is freed   *)
(* twice, and none is lost by an answer that replaces another or by a      *)
(* reset.                                                                  *)
OneOwner ==
    /\ \A b \in Block : heap[b] # None =>
          (\E a \in Address : entry[a] = b)
            \/ (recv \in {"enter", "free", "put"} /\ mac = b)
    /\ \A a1, a2 \in Keys : entry[a1] = entry[a2] => a1 = a2
    /\ recv \in {"enter", "free", "put"} => \A a \in Keys : entry[a] # mac

(* A walk over the table sees one table: at its end the copy has the keys  *)
(* and the report has the MACs that the table has at that moment, although *)
(* answers have been coming in all along.                                  *)
WalksSeeOneTable ==
    /\ main = "copy" /\ todo = {} => copied = Keys
    /\ main = "report" /\ todo = {} =>
          \A a \in Device : reported[a] = MacOf(a)

-----------------------------------------------------------------------------
(* The inductive invariant: the mutex is held by whoever is in a critical  *)
(* section, and what a walk has done and has left adds up to the table.    *)

MutualExclusion ==
    /\ mux = "main" <=> main \in {"copy", "report", "query", "clear"}
    /\ mux = "recv" <=> recv \in {"free", "put", "unlock"}

InHand ==
    /\ recv \in {"enter", "free", "put"} => mac \in Block /\ heap[mac] # None
    /\ recv = "put" => MacOf(ip) = None

Walks ==
    /\ main = "copy" => Keys = copied \cup todo
    /\ main \in {"report", "query"} =>
          /\ todo \subseteq Keys \cap Device
          /\ \A a \in Device \ todo : reported[a] = MacOf(a)
    /\ main = "query" => key \in todo /\ held = entry[key]
    /\ main = "clear" => todo = Keys

IInv ==
    /\ TypeOK
    /\ MutualExclusion
    /\ InHand
    /\ Walks
    /\ PointersAreLive
    /\ OneOwner

-----------------------------------------------------------------------------
(* The table implements AnswerStream.  An answer is pending from its       *)
(* allocation until the entry that it replaces is freed, which is the      *)
(* moment it takes effect; a reset takes effect when it gets the mutex.    *)

Pending == IF recv \in {"enter", "free"} THEN <<[ip |-> ip, mac |-> heap[mac]]>>
                                         ELSE <<>>

Table ==
    [a \in Address |->
        IF main = "clear" THEN None
        ELSE IF recv = "put" /\ a = ip THEN heap[mac]
        ELSE MacOf(a)]

Stream == INSTANCE AnswerStream WITH pending <- Pending, table <- Table

KeepsStream == Stream!Spec
=============================================================================
