--------------------------- MODULE RegistryProofs ---------------------------
(***************************************************************************)
(* The properties of the registry for any devices, texts, answers of any   *)
(* length and any heap.                                                    *)
(***************************************************************************)
EXTENDS Registry, SequenceTheorems, TLAPS

(* An answer is a sequence of rows in which a device has one ip.           *)
LEMMA AnswersAreSeqs ==
    ASSUME NEW s \in Answers
    PROVE  /\ s \in Seq(Row) /\ Len(s) \in Nat /\ DOMAIN s = 1..Len(s)
           /\ \A k \in DOMAIN s : s[k] \in Row
           /\ \A k \in DOMAIN s : s[k].id \in Id /\ s[k].ip \in Text
           /\ \A i, j \in DOMAIN s : s[i].id = s[j].id => s[i].ip = s[j].ip
<1>1. s \in UNION {[1..n -> Row] : n \in 0..MaxRows}
  BY DEF Answers
<1>2. PICK n \in Nat : s \in [1..n -> Row]
  BY <1>1, MaxRowsAssumption
<1>3. s \in Seq(Row)
  BY <1>2, SeqDef
<1>4. Len(s) \in Nat /\ DOMAIN s = 1..Len(s) /\ \A k \in DOMAIN s : s[k] \in Row
  BY <1>3
<1>5. \A k \in DOMAIN s : s[k].id \in Id /\ s[k].ip \in Text
  BY <1>4 DEF Row
<1>6. \A i, j \in DOMAIN s : s[i].id = s[j].id => s[i].ip = s[j].ip
  BY DEF Answers
<1> QED BY <1>3, <1>4, <1>5, <1>6

(* The answer without rows is an answer.                                   *)
LEMMA NoRows == <<>> \in Answers /\ Len(<<>>) = 0 /\ DOMAIN <<>> = {}
<1>1. <<>> \in [1..0 -> Row]
  OBVIOUS
<1>2. 0 \in 0..MaxRows
  BY MaxRowsAssumption
<1>3. <<>> \in UNION {[1..n -> Row] : n \in 0..MaxRows}
  BY <1>1, <1>2
<1> QED BY <1>3 DEF Answers

(* Partial functions stay so when an entry goes or comes.                  *)
LEMMA PartialFunctions ==
    ASSUME NEW S, NEW T, NEW f
    PROVE  f \in Partial(S, T) <=>
               /\ f = [x \in DOMAIN f |-> f[x]]
               /\ DOMAIN f \subseteq S
               /\ \A x \in DOMAIN f : f[x] \in T
<1>1. ASSUME f \in Partial(S, T)
      PROVE  /\ f = [x \in DOMAIN f |-> f[x]]
             /\ DOMAIN f \subseteq S
             /\ \A x \in DOMAIN f : f[x] \in T
  <2>1. PICK D \in SUBSET S : f \in [D -> T]
    BY <1>1 DEF Partial
  <2> QED BY <2>1
<1>2. ASSUME f = [x \in DOMAIN f |-> f[x]], DOMAIN f \subseteq S,
             \A x \in DOMAIN f : f[x] \in T
      PROVE  f \in Partial(S, T)
  <2>1. f \in [DOMAIN f -> T] /\ DOMAIN f \in SUBSET S
    BY <1>2
  <2> QED BY <2>1 DEF Partial
<1> QED BY <1>1, <1>2

LEMMA WithoutIsPartial ==
    ASSUME NEW S, NEW T, NEW f \in Partial(S, T), NEW x
    PROVE  Without(f, x) \in Partial(S, T)
<1>1. Without(f, x) = [y \in DOMAIN Without(f, x) |-> Without(f, x)[y]]
  BY DEF Without
<1>2. DOMAIN f \subseteq S /\ \A y \in DOMAIN f : f[y] \in T
  BY PartialFunctions
<1>3. /\ DOMAIN Without(f, x) \subseteq S
      /\ \A y \in DOMAIN Without(f, x) : Without(f, x)[y] \in T
  BY <1>2 DEF Without
<1> QED BY <1>1, <1>3, PartialFunctions

LEMMA WithIsPartial ==
    ASSUME NEW S, NEW T, NEW f \in Partial(S, T), NEW x \in S, NEW v \in T
    PROVE  With(f, x, v) \in Partial(S, T)
<1>1. With(f, x, v) = [y \in DOMAIN With(f, x, v) |-> With(f, x, v)[y]]
  BY DEF With
<1>2. DOMAIN f \subseteq S /\ \A y \in DOMAIN f : f[y] \in T
  BY PartialFunctions
<1>3. /\ DOMAIN With(f, x, v) \subseteq S
      /\ \A y \in DOMAIN With(f, x, v) : With(f, x, v)[y] \in T
  BY <1>2 DEF With
<1> QED BY <1>1, <1>3, PartialFunctions

LEMMA EmptyIsPartial ==
    ASSUME NEW S, NEW T
    PROVE  Empty \in Partial(S, T) /\ DOMAIN Empty = {}
<1>1. DOMAIN Empty = {} /\ Empty = [x \in DOMAIN Empty |-> Empty[x]]
  BY DEF Empty
<1> QED BY <1>1, PartialFunctions

(* Each text of the map has its last row in the answer.                    *)
LEMMA EntriesHaveRows ==
    ASSUME IInv, pc \notin {"free", "fill"}, NEW t \in DOMAIN ids
    PROVE  \E k \in DOMAIN latest :
              /\ LastOf(latest, Len(latest), k)
              /\ latest[k].ip = t /\ heap[ids[t]] = latest[k].id
BY AnswersAreSeqs DEF IInv, MapFollows, Follows, TypeOK, LastOf

(* ... and the last row of a text its entry.                               *)
LEMMA RowsHaveEntries ==
    ASSUME IInv, pc \notin {"free", "fill"},
           NEW k \in DOMAIN latest, LastOf(latest, Len(latest), k)
    PROVE  /\ latest[k].ip \in DOMAIN ids
           /\ heap[ids[latest[k].ip]] = latest[k].id
<1> DEFINE t == latest[k].ip
<1>1. Len(latest) \in Nat /\ DOMAIN latest = 1..Len(latest)
  BY AnswersAreSeqs DEF IInv, TypeOK
<1>2. t \in DOMAIN ids
  BY <1>1 DEF IInv, MapFollows, Follows
<1>3. PICK j \in DOMAIN latest : /\ LastOf(latest, Len(latest), j)
                                 /\ latest[j].ip = t
                                 /\ heap[ids[t]] = latest[j].id
  BY <1>2, EntriesHaveRows
<1>4. j = k
  BY <1>1, <1>3 DEF LastOf
<1> QED BY <1>2, <1>3, <1>4

LEMMA InitEstablishes == Init => IInv
<1> SUFFICES ASSUME Init PROVE IInv
  OBVIOUS
<1> USE DEF Init
<1>1. TypeOK
  <2>1. verdict \in [Id -> SUBSET {"up", "down"}]
    OBVIOUS
  <2> QED BY <2>1, NoRows, EmptyIsPartial DEF TypeOK
<1>2. MapFollows
  BY NoRows, EmptyIsPartial DEF MapFollows, Follows
<1>3. SharingIsSeen
  BY NoRows DEF SharingIsSeen, Shares
<1>4. NullIsEmpty /\ VerdictsAreOfLastRows
      /\ NullOnlyBeforeDevices
  BY DEF NullIsEmpty, VerdictsAreOfLastRows,
         NullOnlyBeforeDevices
<1>5. EntriesAreLive /\ OnlyTakenOverIdsLeak
  BY EmptyIsPartial DEF EntriesAreLive, OnlyTakenOverIdsLeak
<1> QED BY <1>1, <1>2, <1>3, <1>4, <1>5 DEF IInv

(* A query moves to an answer with rows, or changes no map.                *)
LEMMA QueryKeeps ==
    ASSUME IInv, NEW rows \in Answers, Query(rows)
    PROVE  IInv'
<1> USE DEF Query, mapVars
<1>1. TypeOK'
  BY DEF IInv, TypeOK
<1>2. MapFollows'
  <2>1. CASE rows = <<>>
    BY <2>1 DEF IInv, MapFollows, Follows, LastOf
  <2>2. CASE rows # <<>>
    BY <2>2 DEF MapFollows
  <2> QED BY <2>1, <2>2
<1>3. SharingIsSeen'
  <2>1. Shares(latest)' => Shares(rows) \/ Shares(latest)
    BY DEF Shares
  <2> QED BY <2>1 DEF IInv, SharingIsSeen, TypeOK
<1>4. NullIsEmpty'
  BY DEF IInv, NullIsEmpty
<1>5. EntriesAreLive' /\ OnlyTakenOverIdsLeak'
  BY DEF IInv, TypeOK, EntriesAreLive, OnlyTakenOverIdsLeak
<1>6. VerdictsAreOfLastRows' /\ NullOnlyBeforeDevices'
  BY DEF VerdictsAreOfLastRows, NullOnlyBeforeDevices
<1> QED BY <1>1, <1>2, <1>3, <1>4, <1>5, <1>6 DEF IInv

(* An id is freed with its entry.                                          *)
LEMMA FreeIdKeeps ==
    ASSUME IInv, NEW t \in Text, FreeId(t)
    PROVE  IInv'
<1> USE DEF FreeId, pastVars
<1>1. ids \in Partial(Text, Block) /\ heap \in Partial(Block, Id)
  BY DEF IInv, TypeOK
<1>2. /\ DOMAIN ids' = DOMAIN ids \ {t}
      /\ \A u \in DOMAIN ids' : ids'[u] = ids[u]
      /\ DOMAIN heap' = DOMAIN heap \ {ids[t]}
  BY DEF Without
<1>3. ids' \in Partial(Text, Block) /\ heap' \in Partial(Block, Id)
  BY <1>1, WithoutIsPartial
<1>4. TypeOK'
  BY <1>3 DEF IInv, TypeOK
<1>5. EntriesAreLive'
  BY <1>2 DEF IInv, EntriesAreLive
<1>6. OnlyTakenOverIdsLeak'
  <2> SUFFICES ASSUME ~shared PROVE DOMAIN heap' = {ids'[u] : u \in DOMAIN ids'}
    BY DEF OnlyTakenOverIdsLeak
  <2>1. DOMAIN heap = {ids[u] : u \in DOMAIN ids}
    BY DEF IInv, OnlyTakenOverIdsLeak
  <2>2. \A u \in DOMAIN ids : ids[u] = ids[t] => u = t
    BY DEF IInv, EntriesAreLive
  <2> QED BY <1>2, <2>1, <2>2
<1>7. MapFollows' /\ SharingIsSeen' /\ NullIsEmpty'
  BY DEF IInv, MapFollows, SharingIsSeen, Shares, NullIsEmpty
<1>8. VerdictsAreOfLastRows' /\ NullOnlyBeforeDevices'
  BY DEF VerdictsAreOfLastRows, NullOnlyBeforeDevices
<1> QED BY <1>4, <1>5, <1>6, <1>7, <1>8 DEF IInv

(* The new map is empty, as the rows before the first one make it.         *)
LEMMA NewMapKeeps ==
    ASSUME IInv, NewMap
    PROVE  IInv'
<1> USE DEF NewMap, pastVars
<1>1. Len(latest) \in Nat
  BY AnswersAreSeqs DEF IInv, TypeOK
<1>2. TypeOK'
  BY DEF IInv, TypeOK
<1>3. MapFollows'
  <2>1. next' = 1 /\ next' \in 1..(Len(latest') + 1)
    BY <1>1 DEF IInv, MapFollows
  <2>2. Follows(0)'
    BY DEF Follows
  <2>3. Follows(next - 1)'
    BY <2>1, <2>2
  <2> QED BY <2>1, <2>3 DEF MapFollows
<1>4. SharingIsSeen' /\ NullIsEmpty'
  BY DEF IInv, SharingIsSeen, Shares, NullIsEmpty
<1>5. EntriesAreLive' /\ OnlyTakenOverIdsLeak'
  BY DEF IInv, EntriesAreLive, OnlyTakenOverIdsLeak
<1>6. VerdictsAreOfLastRows' /\ NullOnlyBeforeDevices'
  BY DEF VerdictsAreOfLastRows, NullOnlyBeforeDevices
<1> QED BY <1>2, <1>3, <1>4, <1>5, <1>6 DEF IInv
(* A row enters a block of its own under its text.                         *)
LEMMA PutKeeps ==
    ASSUME IInv, NEW b \in Block, Put(b)
    PROVE  IInv'
<1> USE DEF Put, pastVars
<1> DEFINE row == latest[next]
<1>1. /\ latest \in Answers
      /\ ids \in Partial(Text, Block) /\ heap \in Partial(Block, Id)
  BY DEF IInv, TypeOK
<1>2. Len(latest) \in Nat /\ DOMAIN latest = 1..Len(latest)
  BY <1>1, AnswersAreSeqs
<1>3. next \in DOMAIN latest /\ next \in 1..Len(latest) /\ Follows(next - 1)
  BY <1>2 DEF IInv, MapFollows
<1>4. row.ip \in Text /\ row.id \in Id
  BY <1>1, <1>3, AnswersAreSeqs
<1>5. /\ DOMAIN ids' = DOMAIN ids \cup {row.ip}
      /\ ids'[row.ip] = b
      /\ \A t \in DOMAIN ids \ {row.ip} : ids'[t] = ids[t]
  BY DEF With
<1>6. /\ DOMAIN heap' = DOMAIN heap \cup {b}
      /\ heap'[b] = row.id
      /\ \A c \in DOMAIN heap \ {b} : heap'[c] = heap[c]
  BY DEF With
<1>7. /\ \A t \in DOMAIN ids : ids[t] \in DOMAIN heap
      /\ \A t \in DOMAIN ids : ids[t] # b
  BY DEF IInv, EntriesAreLive
<1>8. TypeOK'
  <2>1. ids' \in Partial(Text, Block) /\ heap' \in Partial(Block, Id)
    BY <1>1, <1>4, WithIsPartial
  <2> QED BY <2>1 DEF IInv, TypeOK
<1>9. MapFollows'
  <2>1. ASSUME NEW k \in 1..next PROVE latest[k].ip \in DOMAIN ids'
    <3>1. CASE k = next
      BY <3>1, <1>5
    <3>2. CASE k # next
      <4>1. k \in 1..(next - 1)
        BY <3>2, <1>2, <1>3
      <4> QED BY <4>1, <1>3, <1>5 DEF Follows
    <3> QED BY <3>1, <3>2
  <2>2. ASSUME NEW t \in DOMAIN ids'
        PROVE  \E k \in 1..next :
                  /\ LastOf(latest, next, k)
                  /\ latest[k].ip = t /\ heap'[ids'[t]] = latest[k].id
    <3>1. CASE t = row.ip
      <4>1. LastOf(latest, next, next)
        BY <1>2, <1>3 DEF LastOf
      <4>2. heap'[ids'[t]] = row.id
        BY <3>1, <1>5, <1>6
      <4> QED BY <3>1, <4>1, <4>2, <1>2, <1>3
    <3>2. CASE t # row.ip
      <4>1. t \in DOMAIN ids /\ ids'[t] = ids[t] /\ heap'[ids'[t]] = heap[ids[t]]
        BY <3>2, <1>5, <1>6, <1>7
      <4>2. PICK k \in 1..(next - 1) :
                /\ LastOf(latest, next - 1, k)
                /\ latest[k].ip = t /\ heap[ids[t]] = latest[k].id
        BY <4>1, <1>3 DEF Follows
      <4>3. k \in 1..next /\ LastOf(latest, next, k)
        BY <3>2, <4>2, <1>2, <1>3 DEF LastOf
      <4> QED BY <4>1, <4>2, <4>3
    <3> QED BY <3>1, <3>2
  <2>3. next' - 1 = next /\ next' \in 1..(Len(latest) + 1)
    BY <1>2, <1>3
  <2>4. Follows(next - 1)'
    BY <2>1, <2>2, <2>3 DEF Follows
  <2> QED BY <2>3, <2>4 DEF MapFollows
<1>10. EntriesAreLive'
  BY <1>5, <1>6, <1>7 DEF IInv, EntriesAreLive
<1>11. OnlyTakenOverIdsLeak'
  <2> SUFFICES ASSUME ~shared PROVE DOMAIN heap' = {ids'[t] : t \in DOMAIN ids'}
    BY DEF OnlyTakenOverIdsLeak
  <2>1. DOMAIN heap = {ids[t] : t \in DOMAIN ids}
    BY DEF IInv, OnlyTakenOverIdsLeak
  <2>2. row.ip \notin DOMAIN ids
    <3> SUFFICES ASSUME row.ip \in DOMAIN ids PROVE FALSE
      OBVIOUS
    <3>1. PICK k \in 1..(next - 1) : latest[k].ip = row.ip
      BY <1>3 DEF Follows
    <3>2. k \in DOMAIN latest /\ k # next
      BY <1>2, <1>3
    <3> QED BY <1>3, <3>1, <3>2 DEF IInv, SharingIsSeen, Shares
  <2> QED BY <2>1, <2>2, <1>5, <1>6
<1>12. SharingIsSeen' /\ NullIsEmpty'
  BY DEF IInv, SharingIsSeen, Shares, NullIsEmpty
<1>13. VerdictsAreOfLastRows' /\ NullOnlyBeforeDevices'
  BY DEF VerdictsAreOfLastRows, NullOnlyBeforeDevices
<1> QED BY <1>8, <1>9, <1>10, <1>11, <1>12, <1>13 DEF IInv

(* Neither the end of the filling nor the keys change anything.            *)
LEMMA KeysKeep ==
    ASSUME IInv, EndFill \/ GetKeys
    PROVE  IInv'
<1> USE DEF EndFill, GetKeys, mapVars, pastVars
<1>1. TypeOK'
  BY DEF IInv, TypeOK
<1>2. Len(latest) \in Nat
  BY AnswersAreSeqs DEF IInv, TypeOK
<1>3. MapFollows'
  <2>1. Follows(Len(latest))
    <3>1. CASE EndFill
      <4>1. next - 1 = Len(latest) /\ Follows(next - 1)
        BY <3>1, <1>2 DEF IInv, MapFollows
      <4> QED BY <4>1
    <3>2. CASE GetKeys
      BY <3>2 DEF IInv, MapFollows
    <3> QED BY <3>1, <3>2
  <2>2. Follows(Len(latest))'
    BY <2>1 DEF Follows, LastOf
  <2> QED BY <2>2 DEF MapFollows
<1>4. SharingIsSeen' /\ NullIsEmpty' /\ NullOnlyBeforeDevices'
  BY DEF IInv, SharingIsSeen, Shares, NullIsEmpty, NullOnlyBeforeDevices
<1>5. EntriesAreLive' /\ OnlyTakenOverIdsLeak'
  BY DEF IInv, EntriesAreLive, OnlyTakenOverIdsLeak
<1>6. VerdictsAreOfLastRows'
  BY DEF VerdictsAreOfLastRows
<1> QED BY <1>1, <1>3, <1>4, <1>5, <1>6 DEF IInv

(* A cycle: the verdicts are those of the entries, and these of the last   *)
(* rows.                                                                   *)
LEMMA ReportKeeps ==
    ASSUME IInv, NEW hosts \in SUBSET Range(Heard), Report(hosts)
    PROVE  IInv'
<1> USE DEF Report, mapVars
<1>1. TypeOK'
  <2>1. verdict' \in [Id -> SUBSET {"up", "down"}]
    BY DEF Verdicts
  <2> QED BY <2>1 DEF IInv, TypeOK
<1>2. MapFollows' /\ SharingIsSeen' /\ NullIsEmpty' /\ NullOnlyBeforeDevices'
  BY DEF IInv, MapFollows, Follows, SharingIsSeen, Shares, NullIsEmpty,
         NullOnlyBeforeDevices
<1>3. EntriesAreLive' /\ OnlyTakenOverIdsLeak'
  BY DEF IInv, EntriesAreLive, OnlyTakenOverIdsLeak
<1>4. \A d \in Id, v \in {"up", "down"} :
         v \in verdict'[d] <=>
            \E t \in DOMAIN ids : heap[ids[t]] = d /\ (v = "up" <=> t \in hosts)
  BY DEF Verdicts
<1>5. VerdictsAreOfLastRows'
  <2> SUFFICES ASSUME NEW d \in Id, NEW v \in {"up", "down"}
               PROVE  v \in verdict'[d] <=>
                        \E k \in DOMAIN latest :
                           /\ LastOf(latest, Len(latest), k)
                           /\ latest[k].id = d
                           /\ v = "up" <=> latest[k].ip \in hosts
    BY DEF VerdictsAreOfLastRows
  <2>1. ASSUME v \in verdict'[d]
        PROVE  \E k \in DOMAIN latest :
                  /\ LastOf(latest, Len(latest), k)
                  /\ latest[k].id = d
                  /\ v = "up" <=> latest[k].ip \in hosts
    BY <2>1, <1>4, EntriesHaveRows
  <2>2. ASSUME NEW k \in DOMAIN latest,
               LastOf(latest, Len(latest), k), latest[k].id = d,
               v = "up" <=> latest[k].ip \in hosts
        PROVE  v \in verdict'[d]
    BY <2>2, <1>4, RowsHaveEntries
  <2> QED BY <2>1, <2>2
<1> QED BY <1>1, <1>2, <1>3, <1>5 DEF IInv

(* The process starts anew with no map and no heap.                        *)
LEMMA RestartKeeps ==
    ASSUME IInv, Restart
    PROVE  IInv'
<1> USE DEF Restart
<1>1. TypeOK' /\ EntriesAreLive' /\ OnlyTakenOverIdsLeak'
  BY NoRows, EmptyIsPartial
     DEF IInv, TypeOK, EntriesAreLive, OnlyTakenOverIdsLeak
<1>2. MapFollows'
  <2>1. Follows(0)'
    BY EmptyIsPartial DEF Follows
  <2>2. Len(latest)' = 0
    BY NoRows
  <2> QED BY <2>1, <2>2 DEF MapFollows
<1>3. SharingIsSeen' /\ NullIsEmpty'
  BY NoRows DEF SharingIsSeen, Shares, NullIsEmpty
<1>4. VerdictsAreOfLastRows' /\ NullOnlyBeforeDevices'
  BY DEF VerdictsAreOfLastRows, NullOnlyBeforeDevices
<1> QED BY <1>1, <1>2, <1>3, <1>4 DEF IInv

LEMMA Inductive == IInv /\ [Next]_vars => IInv'
<1> SUFFICES ASSUME IInv, [Next]_vars PROVE IInv'
  OBVIOUS
<1>1. ASSUME NEW rows \in Answers, Query(rows) PROVE IInv'
  BY <1>1, QueryKeeps
<1>2. ASSUME NEW t \in Text, FreeId(t) PROVE IInv'
  BY <1>2, FreeIdKeeps
<1>3. CASE NewMap
  BY <1>3, NewMapKeeps
<1>4. ASSUME NEW b \in Block, Put(b) PROVE IInv'
  BY <1>4, PutKeeps
<1>5. CASE EndFill \/ GetKeys
  BY <1>5, KeysKeep
<1>6. ASSUME NEW hosts \in SUBSET Range(Heard), Report(hosts) PROVE IInv'
  BY <1>6, ReportKeeps
<1>7. CASE Restart
  BY <1>7, RestartKeeps
<1>8. CASE UNCHANGED vars
  BY <1>8 DEF vars, IInv, TypeOK, MapFollows, Follows, LastOf, SharingIsSeen,
              Shares, NullIsEmpty, VerdictsAreOfLastRows,
              NullOnlyBeforeDevices, EntriesAreLive, OnlyTakenOverIdsLeak
<1> QED BY <1>1, <1>2, <1>3, <1>4, <1>5, <1>6, <1>7, <1>8 DEF Next

-----------------------------------------------------------------------------
(* The inductive invariant of the registry holds for ever.                 *)
THEOREM Invariance == Spec => []IInv
<1> QED BY InitEstablishes, Inductive, PTL DEF Spec

(* A cycle judges just the devices of the last rows of their texts, by     *)
(* the answers from these texts.                                           *)
THEOREM VerdictsAreOfRows == Spec => []VerdictsAreOfLastRows
<1>1. IInv => VerdictsAreOfLastRows
  BY DEF IInv
<1> QED BY <1>1, Invariance, PTL

(* The null map is only used before the first device.                      *)
THEOREM NullIsBeforeDevices == Spec => []NullOnlyBeforeDevices
<1>1. IInv => NullOnlyBeforeDevices
  BY DEF IInv
<1> QED BY <1>1, Invariance, PTL

(* No id is freed twice, or used when it is free.                          *)
THEOREM EntriesStayLive == Spec => []EntriesAreLive
<1>1. IInv => EntriesAreLive
  BY DEF IInv
<1> QED BY <1>1, Invariance, PTL

(* No id is lost but by a text that comes twice.                           *)
THEOREM LeaksAreTakenOver == Spec => []OnlyTakenOverIdsLeak
<1>1. IInv => OnlyTakenOverIdsLeak
  BY DEF IInv
<1> QED BY <1>1, Invariance, PTL

-----------------------------------------------------------------------------
(* The contract's last rows are those of the answer.                       *)
LEMMA LastRowsAreLast ==
    ASSUME IInv
    PROVE  Contract!LastRows =
              {k \in DOMAIN latest : LastOf(latest, Len(latest), k)}
<1>1. Len(latest) \in Nat /\ DOMAIN latest = 1..Len(latest)
  BY AnswersAreSeqs DEF IInv, TypeOK
<1>2. ASSUME NEW k \in DOMAIN latest
      PROVE  LastOf(latest, Len(latest), k) <=>
                \A j \in DOMAIN latest : latest[j].ip = latest[k].ip => j <= k
  BY <1>1 DEF LastOf
<1> QED BY <1>2 DEF Contract!LastRows

(* At first nothing was answered and nobody judged.                        *)
LEMMA InitRefines == Init => Contract!Init
BY DEF Init, Contract!Init

(* An answer with rows is loaded as a whole when it comes, however long    *)
(* the map takes to follow.                                                *)
LEMMA QueryRefines ==
    ASSUME NEW rows \in Answers, Query(rows)
    PROVE  [Contract!Next]_(Contract!vars)
<1>1. CASE rows # <<>>
  BY <1>1 DEF Query, Contract!Next, Contract!Load
<1>2. CASE rows = <<>>
  BY <1>2 DEF Query, Contract!vars
<1> QED BY <1>1, <1>2

(* The cycle judges by the last rows: its verdicts are those of the        *)
(* entries, whose ids are on the heap.                                     *)
LEMMA ReportRefines ==
    ASSUME IInv, IInv', NEW hosts \in SUBSET Range(Heard), Report(hosts)
    PROVE  Contract!Judge(hosts)
<1>1. pc = "polled" /\ ~null
  BY DEF Report, IInv, NullIsEmpty
<1>2. latest # <<>>
  BY <1>1 DEF IInv, NullIsEmpty
<1> DEFINE Judged(d) ==
             {v \in {"up", "down"} : \E k \in Contract!LastRows :
                 latest[k].id = d /\ (v = "up" <=> latest[k].ip \in hosts)}
<1>3. pc' = "judged" /\ latest' = latest /\ heard' = hosts
      /\ verdict' = Verdicts(hosts)
  BY DEF Report
<1>4. ASSUME NEW d \in Id
      PROVE  verdict'[d] = Judged(d)
  <2>1. verdict'[d] \subseteq {"up", "down"}
    BY <1>3 DEF Verdicts
  <2>2. ASSUME NEW v \in {"up", "down"}
        PROVE  v \in verdict'[d] <=>
                 \E k \in DOMAIN latest :
                    /\ LastOf(latest, Len(latest), k)
                    /\ latest[k].id = d
                    /\ v = "up" <=> latest[k].ip \in hosts
    BY <1>3 DEF IInv, VerdictsAreOfLastRows, LastOf
  <2>3. ASSUME NEW v \in {"up", "down"}
        PROVE  v \in verdict'[d] <=> v \in Judged(d)
    BY <2>2, LastRowsAreLast
  <2> QED BY <2>1, <2>3
<1>5. verdict' = [d \in Id |-> Judged(d)]
  <2>1. verdict' = [d \in Id |-> verdict'[d]]
    BY <1>3 DEF Verdicts
  <2> QED BY <2>1, <1>4
<1>6. (pc = "undefined") = FALSE /\ (pc = "undefined")' = FALSE
  BY <1>1, <1>3
<1> QED BY <1>2, <1>3, <1>5, <1>6 DEF Contract!Judge

(* Keys of a null pointer are only taken when there was no answer.         *)
LEMMA KeysRefine ==
    ASSUME IInv, GetKeys
    PROVE  [Contract!Next]_(Contract!vars)
<1>1. CASE null
  <2>1. latest = <<>>
    BY <1>1 DEF GetKeys, IInv, NullIsEmpty
  <2>2. latest' = latest /\ verdict' = verdict /\ pc' = "undefined"
    BY <1>1 DEF GetKeys, pastVars
  <2>3. Contract!Lose
    BY <2>1, <2>2 DEF Contract!Lose
  <2> QED BY <2>3 DEF Contract!Next
<1>2. CASE ~null
  BY <1>2 DEF GetKeys, pastVars, Contract!vars
<1> QED BY <1>1, <1>2

(* Every step of the registry is one of its contract, or none.             *)
LEMMA StepRefines ==
    IInv /\ IInv' /\ [Next]_vars => [Contract!Next]_(Contract!vars)
<1> SUFFICES ASSUME IInv, IInv', [Next]_vars
             PROVE  [Contract!Next]_(Contract!vars)
  OBVIOUS
<1>1. ASSUME NEW rows \in Answers, Query(rows)
      PROVE  [Contract!Next]_(Contract!vars)
  BY <1>1, QueryRefines
<1>2. ASSUME NEW t \in Text, FreeId(t)
      PROVE  [Contract!Next]_(Contract!vars)
  BY <1>2 DEF FreeId, pastVars, Contract!vars
<1>3. CASE NewMap
  BY <1>3 DEF NewMap, pastVars, Contract!vars
<1>4. ASSUME NEW b \in Block, Put(b)
      PROVE  [Contract!Next]_(Contract!vars)
  BY <1>4 DEF Put, pastVars, Contract!vars
<1>5. CASE EndFill
  BY <1>5 DEF EndFill, pastVars, Contract!vars
<1>6. CASE GetKeys
  BY <1>6, KeysRefine
<1>7. ASSUME NEW hosts \in SUBSET Range(Heard), Report(hosts)
      PROVE  [Contract!Next]_(Contract!vars)
  <2>1. Contract!Judge(hosts)
    BY <1>7, ReportRefines
  <2> QED BY <2>1 DEF Contract!Next
<1>8. CASE Restart
  <2>1. Contract!Restart
    BY <1>8 DEF Restart, Contract!Restart
  <2> QED BY <2>1 DEF Contract!Next
<1>9. CASE UNCHANGED vars
  BY <1>9 DEF vars, Contract!vars
<1> QED BY <1>1, <1>2, <1>3, <1>4, <1>5, <1>6, <1>7, <1>8, <1>9 DEF Next

(* The map of entries, refilled row by row on its heap, implements the     *)
(* last answer that had rows: each cycle judges just by it, and there are  *)
(* keys to take whenever there was one.                                    *)
THEOREM Implements == Spec => JudgesByLastAnswer
<1> QED BY InitRefines, StepRefines, Invariance, PTL
        DEF Spec, JudgesByLastAnswer, Contract!Spec
=============================================================================
