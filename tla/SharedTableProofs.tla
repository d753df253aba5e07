-------------------------- MODULE SharedTableProofs --------------------------
(***************************************************************************)
(* For any addresses, MACs and blocks: the mutex keeps every MAC alive as  *)
(* long as a thread may look at it, gives each one owner, and makes the    *)
(* table one that answers enter in their order, each in a single step.     *)
(***************************************************************************)
EXTENDS SharedTable, TLAPS

(* The receiving thread starts with the invariant.                         *)
THEOREM InitEstablishes == Init => IInv
BY NoneAssumption
   DEF Init, IInv, TypeOK, MutualExclusion, InHand, Walks, PointersAreLive,
       OneOwner, Keys, MacOf

(* The steps of the main thread that leave table and heap alone.           *)
LEMMA WalksPreserve ==
    ASSUME IInv,
           \/ LockToCopy \/ UnlockCopy \/ LockToReport \/ UnlockReport
           \/ LockToReset \/ UnlockReset \/ UseMac
           \/ \E a \in todo : CopyKey(a) \/ TakeMac(a)
    PROVE  IInv'
<1> USE DEF IInv
<1>1. UNCHANGED <<entry, heap, recv, ip, mac>>
  BY DEF LockToCopy, UnlockCopy, LockToReport, UnlockReport, LockToReset,
         UnlockReset, UseMac, CopyKey, TakeMac, recvVars
<1>2. UNCHANGED Keys /\ \A a \in Address : UNCHANGED MacOf(a)
  BY <1>1 DEF Keys, MacOf
<1>3. InHand' /\ OneOwner'
  BY <1>1, <1>2 DEF InHand, OneOwner, TypeOK
<1>4. CASE LockToCopy
  BY <1>1, <1>2, <1>3, <1>4
     DEF LockToCopy, TypeOK, MutualExclusion, Walks, PointersAreLive, Keys
<1>5. CASE UnlockCopy
  BY <1>1, <1>2, <1>3, <1>5
     DEF UnlockCopy, TypeOK, MutualExclusion, Walks, PointersAreLive
<1>6. CASE LockToReport
  BY <1>1, <1>2, <1>3, <1>6, DeviceAssumption
     DEF LockToReport, TypeOK, MutualExclusion, Walks, PointersAreLive, Keys,
         MacOf
<1>7. CASE UnlockReport
  BY <1>1, <1>2, <1>3, <1>7
     DEF UnlockReport, TypeOK, MutualExclusion, Walks, PointersAreLive
<1>8. CASE LockToReset
  BY <1>1, <1>2, <1>3, <1>8
     DEF LockToReset, TypeOK, MutualExclusion, Walks, PointersAreLive, Keys
<1>9. CASE UnlockReset
  BY <1>1, <1>2, <1>3, <1>9
     DEF UnlockReset, TypeOK, MutualExclusion, Walks, PointersAreLive
<1>10. CASE UseMac
  BY <1>1, <1>2, <1>3, <1>10, DeviceAssumption
     DEF UseMac, TypeOK, MutualExclusion, Walks, PointersAreLive, MacOf, Keys
<1>11. ASSUME NEW a \in todo, CopyKey(a) PROVE IInv'
  BY <1>1, <1>2, <1>3, <1>11
     DEF CopyKey, TypeOK, MutualExclusion, Walks, PointersAreLive
<1>12. ASSUME NEW a \in todo, TakeMac(a) PROVE IInv'
  <2>1. /\ a \in Keys /\ entry[a] \in Block /\ a \in Address
        /\ mux = "main" /\ recv # "put" /\ heap[entry[a]] # None
    BY <1>12 DEF TakeMac, TypeOK, MutualExclusion, Walks, PointersAreLive, Keys
  <2>2. /\ main' = "query" /\ key' = a /\ held' = entry[a]
        /\ UNCHANGED <<mux, todo, copied, reported>>
    BY <1>12 DEF TakeMac
  <2>3. TypeOK' /\ MutualExclusion' /\ PointersAreLive'
    BY <1>1, <1>2, <2>1, <2>2 DEF TypeOK, MutualExclusion, PointersAreLive
  <2>4. Walks'
    BY <1>1, <1>2, <1>12, <2>2, DeviceAssumption DEF TakeMac, Walks
  <2> QED BY <1>3, <2>3, <2>4
<1> QED BY <1>4, <1>5, <1>6, <1>7, <1>8, <1>9, <1>10, <1>11, <1>12

(* Deleting a key frees a block that nothing else points to.               *)
LEMMA ClearPreserves ==
    ASSUME IInv, NEW a \in todo, ClearKey(a) PROVE IInv'
<1> USE DEF IInv
<1>1. /\ a \in Keys /\ entry[a] \in Block /\ a \in Address
      /\ mux = "main" /\ recv \notin {"free", "put", "unlock"}
  BY DEF ClearKey, Walks, Keys, TypeOK, MutualExclusion
<1>2. /\ entry' = [entry EXCEPT ![a] = None]
      /\ heap' = [heap EXCEPT ![entry[a]] = None]
      /\ main = "clear" /\ todo' = todo \ {a}
      /\ UNCHANGED <<mux, main, key, held, copied, reported, recv, ip, mac>>
  BY DEF ClearKey, recvVars
<1>3. Keys' = Keys \ {a}
  BY <1>1, <1>2 DEF Keys, TypeOK
<1>4. TypeOK'
  BY <1>1, <1>2 DEF TypeOK
<1>5. MutualExclusion' /\ Walks'
  BY <1>2, <1>3 DEF MutualExclusion, Walks
<1>6. InHand'
  BY <1>1, <1>2 DEF InHand, OneOwner, TypeOK, Keys
<1>7. \A c \in Keys' : entry'[c] = entry[c] /\ entry[c] # entry[a]
                       /\ heap'[entry[c]] = heap[entry[c]]
  BY <1>1, <1>2, <1>3 DEF OneOwner, TypeOK, Keys
<1>8. PointersAreLive'
  BY <1>1, <1>2, <1>3, <1>7 DEF PointersAreLive
<1>9. OneOwner'
  <2>1. ASSUME NEW b \in Block, heap'[b] # None
        PROVE  (\E c \in Address : entry'[c] = b)
                 \/ (recv' \in {"enter", "free", "put"} /\ mac' = b)
    BY <2>1, <1>1, <1>2 DEF OneOwner, TypeOK
  <2> QED BY <2>1, <1>2, <1>3, <1>7 DEF OneOwner
<1> QED BY <1>4, <1>5, <1>6, <1>8, <1>9

(* The receiving thread takes a block that was free.                       *)
LEMMA ListenPreserves ==
    ASSUME IInv, NEW a \in Address, NEW m \in Mac, NEW b \in Block,
           Listen(a, m, b)
    PROVE  IInv'
<1> USE NoneAssumption DEF IInv
<1>1. /\ recv = "listen" /\ heap[b] = None /\ recv' = "enter"
      /\ heap' = [heap EXCEPT ![b] = m] /\ ip' = a /\ mac' = b
      /\ UNCHANGED <<mux, entry, main, todo, key, held, copied, reported>>
  BY DEF Listen, mainVars
<1>2. UNCHANGED Keys
  BY <1>1 DEF Keys
<1>3. \A c \in Keys : entry[c] # b /\ heap'[entry[c]] = heap[entry[c]]
  BY <1>1 DEF PointersAreLive, TypeOK, Keys
<1>4. \A c \in Address : UNCHANGED MacOf(c)
  BY <1>1, <1>3 DEF MacOf, Keys
<1>5. TypeOK'
  BY <1>1 DEF TypeOK
<1>6. MutualExclusion' /\ InHand'
  BY <1>1 DEF MutualExclusion, InHand, TypeOK
<1>7. Walks'
  BY <1>1, <1>2, <1>4, DeviceAssumption DEF Walks
<1>8. PointersAreLive'
  BY <1>1, <1>2, <1>3 DEF PointersAreLive, Walks, TypeOK
<1>9. OneOwner'
  BY <1>1, <1>2, <1>3 DEF OneOwner, TypeOK
<1> QED BY <1>5, <1>6, <1>7, <1>8, <1>9

(* The MAC that an answer replaces is freed; nobody else looks at it.      *)
LEMMA FreePreserves == ASSUME IInv, FreePrevious PROVE IInv'
<1> USE NoneAssumption DEF IInv
<1>1. /\ recv = "free" /\ recv' = "put" /\ mux = "recv"
      /\ main \notin {"copy", "report", "query", "clear"}
      /\ UNCHANGED <<mux, entry, main, todo, key, held, copied, reported, ip, mac>>
      /\ ip \in Address /\ mac \in Block
      /\ heap' = IF entry[ip] = None THEN heap
                                     ELSE [heap EXCEPT ![entry[ip]] = None]
  BY DEF FreePrevious, mainVars, MutualExclusion, TypeOK, InHand
<1>2. UNCHANGED Keys
  BY <1>1 DEF Keys
<1>3. \A c \in Keys : c # ip => heap'[entry[c]] = heap[entry[c]]
  BY <1>1 DEF OneOwner, TypeOK, Keys
<1>4. heap'[mac] = heap[mac]
  BY <1>1 DEF OneOwner, TypeOK, Keys
<1>5. TypeOK' /\ MutualExclusion' /\ Walks'
  BY <1>1 DEF TypeOK, MutualExclusion, Walks
<1>6. InHand' /\ PointersAreLive'
  BY <1>1, <1>2, <1>3, <1>4 DEF InHand, PointersAreLive, MacOf, TypeOK
<1>7. OneOwner'
  BY <1>1, <1>2 DEF OneOwner, TypeOK
<1> QED BY <1>5, <1>6, <1>7

(* The new MAC changes hands.                                              *)
LEMMA PutPreserves == ASSUME IInv, Put PROVE IInv'
<1> USE NoneAssumption DEF IInv
<1>1. /\ recv = "put" /\ recv' = "unlock" /\ mux = "recv"
      /\ main \notin {"copy", "report", "query", "clear"}
      /\ UNCHANGED <<mux, heap, main, todo, key, held, copied, reported, ip, mac>>
      /\ ip \in Address /\ mac \in Block /\ heap[mac] # None
      /\ entry' = [entry EXCEPT ![ip] = mac]
  BY DEF Put, mainVars, MutualExclusion, TypeOK, InHand
<1>2. Keys' = Keys \cup {ip}
  BY <1>1 DEF Keys, TypeOK
<1>3. TypeOK' /\ MutualExclusion' /\ Walks' /\ InHand'
  BY <1>1 DEF TypeOK, MutualExclusion, Walks, InHand
<1>4. PointersAreLive'
  BY <1>1, <1>2 DEF PointersAreLive, TypeOK
<1>5. OneOwner'
  <2>1. ASSUME NEW b \in Block, heap'[b] # None
        PROVE  \E c \in Address : entry'[c] = b
    <3>1. entry[ip] # b
      BY <1>1, <2>1 DEF InHand, MacOf
    <3> QED BY <1>1, <2>1, <3>1 DEF OneOwner, TypeOK
  <2>2. \A c1, c2 \in Keys' : entry'[c1] = entry'[c2] => c1 = c2
    BY <1>1, <1>2 DEF OneOwner, TypeOK, Keys
  <2> QED BY <1>1, <2>1, <2>2 DEF OneOwner
<1> QED BY <1>3, <1>4, <1>5

(* Getting and giving back the mutex changes no pointer.                   *)
LEMMA EnteringPreserves ==
    ASSUME IInv, LockToEnter \/ UnlockEnter PROVE IInv'
<1> USE DEF IInv
<1>1. UNCHANGED <<entry, heap, main, todo, key, held, copied, reported, ip, mac>>
  BY DEF LockToEnter, UnlockEnter, mainVars
<1>2. UNCHANGED Keys /\ \A a \in Address : UNCHANGED MacOf(a)
  BY <1>1 DEF Keys, MacOf
<1>3. Walks'
  BY <1>1, <1>2, DeviceAssumption DEF Walks
<1>4. CASE LockToEnter
  BY <1>1, <1>2, <1>3, <1>4
     DEF LockToEnter, TypeOK, MutualExclusion, InHand, PointersAreLive, OneOwner
<1>5. CASE UnlockEnter
  BY <1>1, <1>2, <1>3, <1>5
     DEF UnlockEnter, TypeOK, MutualExclusion, InHand, PointersAreLive, OneOwner
<1> QED BY <1>4, <1>5

(* Every step of either thread preserves the invariant.                    *)
THEOREM InductiveStep == IInv /\ [Next]_vars => IInv'
<1> SUFFICES ASSUME IInv, [Next]_vars PROVE IInv'
  OBVIOUS
<1>1. CASE MainStep
  BY <1>1, WalksPreserve, ClearPreserves DEF MainStep
<1>2. CASE RecvStep
  BY <1>2, ListenPreserves, FreePreserves, PutPreserves, EnteringPreserves
     DEF RecvStep
<1>3. CASE UNCHANGED vars
  BY <1>3 DEF vars, IInv, TypeOK, MutualExclusion, InHand, Walks,
              PointersAreLive, OneOwner, Keys, MacOf
<1> QED BY <1>1, <1>2, <1>3 DEF Next

(* The invariant holds for ever, whatever the blocks that malloc() picks.  *)
THEOREM Invariance == Spec => []IInv
BY InitEstablishes, InductiveStep, PTL DEF Spec

(* Neither thread uses a MAC that the other has freed (shared.c:83-84,     *)
(* monitor_db_api.c:203 and 212-220).                                      *)
THEOREM NothingDangles == Spec => []PointersAreLive
<1>1. IInv => PointersAreLive
  BY DEF IInv
<1> QED BY Invariance, <1>1, PTL

(* Every MAC that arp_recv() allocates is freed exactly once or is still   *)
(* owned (shared.c:54 and 84).                                             *)
THEOREM NothingLeaks == Spec => []OneOwner
<1>1. IInv => OneOwner
  BY DEF IInv
<1> QED BY Invariance, <1>1, PTL

(* The copy that get_ips_that_responded() returns, and the report, are of  *)
(* one state of the table (shared.c:96-112 and 121-123).                   *)
THEOREM WalksAreAtomic == Spec => []WalksSeeOneTable
<1>1. IInv => WalksSeeOneTable
  BY DEF IInv, Walks, WalksSeeOneTable
<1> QED BY Invariance, <1>1, PTL

-----------------------------------------------------------------------------
(* The refinement.                                                         *)

(* A queue of one answer.                                                  *)
LEMMA UnitQueue ==
    ASSUME NEW S, NEW r \in S
    PROVE  <<r>> # <<>> /\ Head(<<r>>) = r /\ Tail(<<r>>) = <<>>
OBVIOUS

(* Both start with an empty table and nothing pending.                     *)
LEMMA InitRefines == Init => Stream!Init
BY DEF Init, Stream!Init, Pending, Table, MacOf

(* The main thread changes what an answer stream shows only by beginning a *)
(* reset.                                                                  *)
LEMMA MainRefines == ASSUME IInv, MainStep PROVE [Stream!Next]_Stream!vars
<1> USE DEF IInv
<1>1. CASE \E a \in todo : ClearKey(a)
  <2>1. PICK a \in todo : ClearKey(a)
    BY <1>1
  <2>2. /\ main = "clear" /\ main' = "clear" /\ UNCHANGED <<recv, ip, mac>>
        /\ a \in Keys /\ heap' = [heap EXCEPT ![entry[a]] = None]
    BY <2>1 DEF ClearKey, Walks, recvVars
  <2>3. UNCHANGED Table
    BY <2>2 DEF Table
  <2>4. recv \in {"enter", "free"} => heap'[mac] = heap[mac]
    BY <2>2 DEF OneOwner, InHand, TypeOK
  <2>5. UNCHANGED Pending
    BY <2>2, <2>4 DEF Pending
  <2> QED BY <2>3, <2>5 DEF Stream!vars
<1>2. CASE LockToReset
  <2>1. UNCHANGED Pending
    BY <1>2 DEF LockToReset, Pending, recvVars
  <2>2. Table' = [a \in Address |-> None]
    BY <1>2 DEF LockToReset, Table
  <2> QED BY <2>1, <2>2 DEF Stream!Next, Stream!Clear
<1>3. CASE UnlockReset
  <2>1. /\ UNCHANGED <<entry, heap, recv, ip, mac>> /\ main = "clear"
        /\ main' = "poll" /\ Keys = {} /\ recv # "put"
    BY <1>3 DEF UnlockReset, Walks, recvVars, MutualExclusion
  <2>2. \A a \in Address : MacOf(a)' = None
    BY <2>1 DEF Keys, MacOf
  <2>3. UNCHANGED Pending /\ UNCHANGED Table
    BY <2>1, <2>2 DEF Pending, Table
  <2> QED BY <2>3 DEF Stream!vars
<1>4. CASE \/ LockToCopy \/ UnlockCopy \/ LockToReport \/ UseMac \/ UnlockReport
           \/ \E a \in todo : CopyKey(a) \/ TakeMac(a)
  <2>1. /\ UNCHANGED <<entry, heap, recv, ip, mac>>
        /\ main # "clear" /\ main' # "clear"
    BY <1>4 DEF LockToCopy, UnlockCopy, LockToReport, UseMac, UnlockReport,
                CopyKey, TakeMac, recvVars
  <2>2. UNCHANGED Pending /\ UNCHANGED Table
    BY <2>1 DEF Pending, Table, MacOf
  <2> QED BY <2>2 DEF Stream!vars
<1> QED BY <1>1, <1>2, <1>3, <1>4 DEF MainStep

(* The receiving thread hears an answer when it allocates the MAC, and has *)
(* entered it when it frees the MAC that it replaces.                      *)
LEMMA RecvRefines == ASSUME IInv, RecvStep PROVE [Stream!Next]_Stream!vars
<1> USE DEF IInv
<1>1. ASSUME NEW a \in Address, NEW m \in Mac, NEW b \in Block, Listen(a, m, b)
      PROVE  Stream!Hear([ip |-> a, mac |-> m])
  <2>1. /\ Pending = <<>> /\ Pending' = <<[ip |-> a, mac |-> m]>>
    BY <1>1 DEF Listen, Pending, TypeOK
  <2>2. \A c \in Address : UNCHANGED MacOf(c)
    BY <1>1 DEF Listen, MacOf, PointersAreLive, Keys, TypeOK
  <2>3. UNCHANGED Table
    BY <1>1, <2>2 DEF Listen, Table, mainVars
  <2> QED BY <2>1, <2>3 DEF Stream!Hear
<1>2. ASSUME FreePrevious PROVE Stream!Enter
  <2>1. /\ recv = "free" /\ recv' = "put" /\ main # "clear"
        /\ UNCHANGED <<entry, main, ip, mac>> /\ ip \in Address
    BY <1>2 DEF FreePrevious, MutualExclusion, mainVars, TypeOK
  <2>2. heap'[mac] = heap[mac]
    BY <1>2, <2>1 DEF FreePrevious, InHand, OneOwner, Keys, TypeOK
  <2>3. \A c \in Address : c # ip => MacOf(c)' = MacOf(c)
    BY <1>2, <2>1 DEF FreePrevious, MacOf, OneOwner, Keys, TypeOK
  <2>4. Table' = [Table EXCEPT ![ip] = heap[mac]]
    BY <2>1, <2>2, <2>3 DEF Table
  <2> DEFINE r == [ip |-> ip, mac |-> heap[mac]]
  <2>5. Pending = <<r>> /\ Pending' = <<>>
    BY <2>1 DEF Pending
  <2>6. r.ip = ip /\ r.mac = heap[mac]
    OBVIOUS
  <2>7. r \in [ip : Address, mac : Mac]
    BY <2>1 DEF InHand, TypeOK
  <2> HIDE DEF r
  <2>8. <<r>> # <<>> /\ Head(<<r>>) = r /\ Tail(<<r>>) = <<>>
    BY <2>7, UnitQueue
  <2> QED BY <2>4, <2>5, <2>6, <2>8 DEF Stream!Enter
<1>3. ASSUME Put PROVE UNCHANGED <<Pending, Table>>
  <2>1. /\ recv = "put" /\ recv' = "unlock" /\ main # "clear"
        /\ UNCHANGED <<heap, main, ip, mac>> /\ ip \in Address
        /\ mac \in Block
    BY <1>3 DEF Put, MutualExclusion, mainVars, TypeOK, InHand
  <2>2. MacOf(ip)' = heap[mac]
    BY <1>3, <2>1, NoneAssumption DEF Put, MacOf, TypeOK
  <2>3. \A c \in Address : c # ip => MacOf(c)' = MacOf(c)
    BY <1>3, <2>1 DEF Put, MacOf, TypeOK
  <2> QED BY <2>1, <2>2, <2>3 DEF Pending, Table
<1>4. ASSUME LockToEnter \/ UnlockEnter PROVE UNCHANGED <<Pending, Table>>
  BY <1>4 DEF LockToEnter, UnlockEnter, Pending, Table, MacOf, mainVars
<1>5. \A a \in Address, m \in Mac : [ip |-> a, mac |-> m] \in Stream!Answer
  BY DEF Stream!Answer
<1>6. \A r \in Stream!Answer : Stream!Hear(r) => Stream!Next
  BY DEF Stream!Next
<1>7. Stream!Enter => Stream!Next
  BY DEF Stream!Next
<1> QED BY <1>1, <1>2, <1>3, <1>4, <1>5, <1>6, <1>7 DEF RecvStep, Stream!vars

(* Every step maps to a step of the answer stream or to a stutter.         *)
THEOREM StepRefines == IInv /\ [Next]_vars => [Stream!Next]_Stream!vars
<1> SUFFICES ASSUME IInv, [Next]_vars PROVE [Stream!Next]_Stream!vars
  OBVIOUS
<1>1. CASE UNCHANGED vars
  BY <1>1 DEF vars, Stream!vars, Pending, Table, MacOf
<1> QED BY <1>1, MainRefines, RecvRefines DEF Next

(* The mutex makes the table one into which answers go one by one, in      *)
(* their order and whole, and which a reset empties in one step.           *)
THEOREM Implements == Spec => KeepsStream
BY InitRefines, Invariance, StepRefines, PTL DEF Spec, KeepsStream, Stream!Spec
=============================================================================
