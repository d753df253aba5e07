---------------------------- MODULE ArpLinkProofs ----------------------------
(***************************************************************************)
(* Proofs about asking and listening, for any addresses, texts, lists and  *)
(* any size of the socket's buffer: whom a round asks, and that listening  *)
(* implements AnswerStream.                                                *)
(***************************************************************************)
EXTENDS ArpLink, FiniteSetTheorems, SequenceTheorems, TLAPS

(* What ether_frame and the socket may hold.                               *)
Held == Frame \cup EtherFrame

(* What others put on the link and the monitor's requests are frames, and  *)
(* one that is called ARP names a sender.                                  *)
LEMMA OnLinkIsWhole ==
    /\ OnLink \subseteq Frame
    /\ \A f \in OnLink : f.type = "arp" => f.op # None /\ f.from \in Answer
<1>1. Request \in Frame /\ Request.op # None /\ Request.from \in Answer
  <2>1. Own \in Answer
    BY OwnAssumption DEF Answer
  <2>2. Request.op # None
    BY NoneAssumption DEF Request
  <2>3. Request \in Frame
    BY <2>1, <2>2 DEF Request, Frame
  <2> QED BY <2>1, <2>2, <2>3 DEF Request
<1>2. ASSUME NEW f \in Traffic, f.type = "arp"
      PROVE  f.op # None /\ f.from \in Answer
  BY <1>2, TrafficAssumption DEF Frame
<1> QED BY <1>1, <1>2, TrafficAssumption DEF OnLink

-----------------------------------------------------------------------------
(* The invariant.                                                          *)

(* main() creates its threads with the invariant (main.c:188).             *)
THEOREM InitEstablishes == Init => IInv
<1> SUFFICES ASSUME Init PROVE IInv
  OBVIOUS
<1>1. TypeOK
  <2>1. list \in Seq(Text)
    BY OrdersAssumption DEF Init
  <2>2. 1 \in 1..(Len(list) + 1)
    BY <2>1
  <2>3. queue \in Seq(OnLink) /\ Len(queue) <= QueueLimit
    BY QueueLimitAssumption DEF Init
  <2>4. frame \in EtherFrame
    BY DEF Init, Blank, EtherFrame
  <2> QED BY <2>2, <2>3, <2>4 DEF Init, TypeOK
<1>2. AskedSoFar /\ NothingIsLeft /\ BufferedReply
  BY DEF Init, AskedSoFar, NothingIsLeft, BufferedReply, IsReply, Blank
<1> QED BY <1>1, <1>2 DEF IInv

(* A frame on the link fits into the buffer or is dropped.                 *)
LEMMA BufferedKeeps ==
    ASSUME TypeOK, NEW f \in OnLink, Buffered(f)
    PROVE  queue' \in Seq(OnLink) /\ Len(queue') <= QueueLimit
BY QueueLimitAssumption DEF TypeOK, Buffered

(* A text is asked when all before it and it itself resolve.               *)
LEMMA ArpSendKeeps == ASSUME IInv, ArpSend PROVE IInv'
<1>1. /\ alive /\ alive' /\ list' = list /\ next \in 1..Len(list)
      /\ next' = next + 1 /\ asked' = asked \cup {list[next]}
      /\ Resolve[list[next]] # None
      /\ list \in Seq(Text)
  BY OrdersAssumption DEF ArpSend, IInv, TypeOK
<1>2. TypeOK'
  <2>1. Request \in OnLink
    BY DEF OnLink
  <2>2. queue' \in Seq(OnLink) /\ Len(queue') <= QueueLimit
    BY <2>1, BufferedKeeps DEF ArpSend, IInv
  <2>3. list[next] \in Text /\ next' \in 1..(Len(list') + 1)
    BY <1>1
  <2> QED BY <1>1, <2>2, <2>3 DEF IInv, TypeOK, ArpSend
<1>3. asked = {list[i] : i \in 1..(next - 1)}
      /\ \A i \in 1..next : Resolve[list[i]] # None
  <2>1. \A i \in 1..next : i = next \/ i \in 1..(next - 1)
    BY <1>1
  <2> QED BY <1>1, <2>1 DEF IInv, AskedSoFar
<1>4. AskedSoFar'
  <2>1. next' - 1 = next /\ 1..next = 1..(next - 1) \cup {next}
    BY <1>1
  <2>2. asked' = {list[i] : i \in 1..next}
    BY <1>1, <1>3, <2>1
  <2> QED BY <1>1, <1>3, <2>1, <2>2 DEF AskedSoFar
<1> QED BY <1>1, <1>2, <1>4 DEF IInv, NothingIsLeft, BufferedReply, ArpSend

(* The end of the process leaves what was asked on the link.               *)
LEMMA EndKeeps == ASSUME IInv, Ended, UNCHANGED <<list, asked>> PROVE IInv'
<1>1. list \in Seq(Text)
  BY OrdersAssumption DEF IInv, TypeOK
<1>2. 1 \in 1..(Len(list) + 1)
  BY <1>1
<1>3. TypeOK'
  <2>1. queue' \in Seq(OnLink) /\ Len(queue') <= QueueLimit
    BY QueueLimitAssumption DEF Ended
  <2>2. frame' \in EtherFrame
    BY DEF Ended, Blank, EtherFrame
  <2> QED BY <1>2, <2>1, <2>2 DEF IInv, TypeOK, Ended
<1>4. BufferedReply'
  BY DEF Ended, Blank, BufferedReply, IsReply
<1> QED BY <1>3, <1>4 DEF IInv, Ended, AskedSoFar, NothingIsLeft

(* A round and a process begin with nobody asked.                          *)
LEMMA BeginKeeps ==
    ASSUME IInv, list' \in Orders, next' = 1, asked' = {}, alive' = TRUE,
           UNCHANGED <<queue, frame, table>>
    PROVE  IInv'
<1>1. list' \in Seq(Text)
  BY OrdersAssumption
<1>2. next' \in 1..(Len(list') + 1)
  BY <1>1
<1>3. TypeOK'
  BY <1>2 DEF IInv, TypeOK
<1>4. AskedSoFar'
  BY DEF AskedSoFar
<1> QED BY <1>3, <1>4 DEF IInv, NothingIsLeft, BufferedReply

(* What recv() leaves in ether_frame is a reply just when the frame that   *)
(* came is one, and then it is that frame.                                 *)
LEMMA OverwrittenIs ==
    ASSUME NEW old \in EtherFrame, NEW f \in OnLink
    PROVE  /\ Overwritten(old, f) \in EtherFrame
           /\ f \in Reply => Overwritten(old, f) = f
           /\ IsReply(Overwritten(old, f)) => f \in Reply
<1> DEFINE new == Overwritten(old, f)
<1>1. f \in Frame /\ (f.type = "arp" => f.op # None /\ f.from \in Answer)
  BY OnLinkIsWhole
<1>2. /\ new.type = f.type
      /\ new.op   = IF f.op   = None THEN old.op   ELSE f.op
      /\ new.from = IF f.from = None THEN old.from ELSE f.from
      /\ new = [type |-> new.type, op |-> new.op, from |-> new.from]
  BY DEF Overwritten
<1>3. new \in EtherFrame
  BY <1>1, <1>2 DEF EtherFrame, Frame
<1>4. ASSUME f \in Reply PROVE new = f
  <2>1. f.op # None /\ f.from # None
    BY <1>4, NoneAssumption DEF Reply
  <2>2. f = [type |-> f.type, op |-> f.op, from |-> f.from]
    BY <1>4 DEF Reply
  <2> QED BY <1>2, <2>1, <2>2
<1>5. ASSUME IsReply(new) PROVE f \in Reply
  <2>1. f.type = "arp" /\ f.op = "reply" /\ f.from \in Answer
    BY <1>1, <1>2, <1>5 DEF IsReply
  <2> QED BY <1>1, <2>1 DEF Reply, Frame
<1> QED BY <1>3, <1>4, <1>5

(* Listening has no part in who is asked; it stops at whole replies.       *)
LEMMA ListenKeeps == ASSUME IInv, Recv \/ Interrupted \/ Deliver PROVE IInv'
<1>1. alive /\ UNCHANGED <<alive, list, next, asked>>
  BY DEF Recv, Interrupted, Deliver
<1>2. Blank \in EtherFrame /\ ~IsReply(Blank)
  BY DEF Blank, EtherFrame, IsReply
<1>3. TypeOK' /\ BufferedReply'
  <2>1. CASE Recv
    <3>1. Head(queue) \in OnLink /\ Tail(queue) \in Seq(OnLink)
          /\ Len(Tail(queue)) = Len(queue) - 1 /\ Len(queue) \in Nat
      BY <2>1, HeadTailProperties DEF Recv, IInv, TypeOK
    <3>2. frame' \in EtherFrame /\ (IsReply(frame') => frame' \in Reply)
      BY <2>1, <3>1, OverwrittenIs DEF Recv, IInv, TypeOK
    <3>3. queue' \in Seq(OnLink) /\ table' = table
          /\ Len(queue') <= QueueLimit
      BY <2>1, <3>1, QueueLimitAssumption DEF Recv, IInv, TypeOK
    <3> QED BY <1>1, <3>2, <3>3 DEF IInv, TypeOK, BufferedReply
  <2>2. CASE Interrupted
    BY <1>1, <1>2, <2>2 DEF Interrupted, IInv, TypeOK, BufferedReply
  <2>3. CASE Deliver
    <3>1. frame.from.mac \in Mac
      BY <2>3 DEF Deliver, IInv, BufferedReply, Reply, Answer
    <3> QED BY <1>1, <1>2, <2>3, <3>1
            DEF Deliver, IInv, TypeOK, BufferedReply
  <2> QED BY <2>1, <2>2, <2>3
<1> QED BY <1>1, <1>3 DEF IInv, AskedSoFar, NothingIsLeft

(* Every step of either thread, of the main thread and of the link         *)
(* preserves the invariant.                                                *)
THEOREM InductiveStep == IInv /\ [Next]_vars => IInv'
<1> SUFFICES ASSUME IInv, [Next]_vars PROVE IInv'
  OBVIOUS
<1>1. CASE ArpSend
  BY <1>1, ArpSendKeeps
<1>2. CASE ArpSendExits \/ Exit
  BY <1>2, EndKeeps DEF ArpSendExits, Exit
<1>3. CASE NextRound
  BY <1>3, BeginKeeps DEF NextRound, IInv, TypeOK
<1>4. ASSUME NEW f \in Traffic, Emit(f) PROVE IInv'
  <2>1. queue' \in Seq(OnLink) /\ Len(queue') <= QueueLimit
    BY <1>4, BufferedKeeps DEF Emit, IInv, OnLink
  <2>2. TypeOK' /\ UNCHANGED <<alive, list, next, asked, frame, table>>
    BY <1>4, <2>1 DEF Emit, IInv, TypeOK
  <2>3. ~alive => queue' = queue
    BY <1>4 DEF Emit, Buffered
  <2> QED BY <2>2, <2>3
          DEF IInv, AskedSoFar, NothingIsLeft, BufferedReply
<1>5. CASE Recv \/ Interrupted \/ Deliver
  BY <1>5, ListenKeeps
<1>6. CASE ResetProbe
  BY <1>6 DEF ResetProbe, IInv, TypeOK, AskedSoFar, NothingIsLeft,
              BufferedReply
<1>7. CASE Restart
  BY <1>7, BeginKeeps DEF Restart, IInv, NothingIsLeft
<1>8. CASE UNCHANGED vars
  BY <1>8 DEF vars, IInv, TypeOK, AskedSoFar, NothingIsLeft, BufferedReply
<1> QED BY <1>1, <1>2, <1>3, <1>4, <1>5, <1>6, <1>7, <1>8 DEF Next

(* Whatever is on the link, and wherever the process ends, the invariant   *)
(* holds.                                                                  *)
THEOREM Invariance == Spec => []IInv
BY InitEstablishes, InductiveStep, PTL DEF Spec

(* Type correctness.                                                       *)
THEOREM Types == Spec => []TypeOK
<1>1. IInv => TypeOK
  BY DEF IInv
<1> QED BY Invariance, <1>1, PTL

(* A round that is over has asked every device of its list: the loop of    *)
(* start_send_loop() leaves nobody out and stops nowhere but at its end or *)
(* with the process.                                                       *)
RoundsAskEverybody ==
    alive /\ next > Len(list) =>
        /\ asked = {list[i] : i \in DOMAIN list}
        /\ asked = Askable(list)

THEOREM WholeRoundsAreAsked == Spec => []RoundsAskEverybody
<1>1. IInv => RoundsAskEverybody
  <2> SUFFICES ASSUME IInv, alive, next > Len(list)
               PROVE  /\ asked = {list[i] : i \in DOMAIN list}
                      /\ asked = Askable(list)
    BY DEF RoundsAskEverybody
  <2>1. list \in Seq(Text) /\ next \in 1..(Len(list) + 1)
    BY OrdersAssumption DEF IInv, TypeOK
  <2>2. 1..(next - 1) = DOMAIN list
    BY <2>1
  <2>3. asked = {list[i] : i \in DOMAIN list}
        /\ \A i \in DOMAIN list : Resolve[list[i]] # None
    BY <2>2 DEF IInv, AskedSoFar
  <2>4. \A i \in DOMAIN list : 1..i \subseteq DOMAIN list
    BY <2>1
  <2>5. Askable(list) = {list[i] : i \in DOMAIN list}
    BY <2>3, <2>4 DEF Askable
  <2> QED BY <2>3, <2>5
<1> QED BY Invariance, <1>1, PTL

-----------------------------------------------------------------------------
(* The replies of a sequence of frames.                                    *)

(* There are finitely many, and so many up to any of them.                 *)
LEMMA RanksAreFinite ==
    ASSUME NEW q \in Seq(Held)
    PROVE  /\ ReplyAt(q) \subseteq 1..Len(q)
           /\ IsFiniteSet(ReplyAt(q)) /\ Cardinality(ReplyAt(q)) \in Nat
           /\ \A i : /\ IsFiniteSet({j \in ReplyAt(q) : j <= i})
                     /\ RankOf(q, i) \in Nat
<1>1. ReplyAt(q) \in SUBSET (1..Len(q)) /\ Len(q) \in Int /\ 1 \in Int
  BY DEF ReplyAt
<1>2. IsFiniteSet(1..Len(q))
  BY <1>1, FS_Interval
<1>3. IsFiniteSet(ReplyAt(q))
  BY <1>1, <1>2, FS_Subset
<1>4. \A i : {j \in ReplyAt(q) : j <= i} \in SUBSET ReplyAt(q)
  OBVIOUS
<1> QED BY <1>1, <1>3, <1>4, FS_Subset, FS_CardinalityType DEF RankOf

(* The ranks of the replies begin with 1, are in the order of the replies, *)
(* and end with their number.                                              *)
LEMMA RanksAreOrdered ==
    ASSUME NEW q \in Seq(Held), NEW i \in ReplyAt(q)
    PROVE  /\ RankOf(q, i) \in 1..Cardinality(ReplyAt(q))
           /\ \A j \in ReplyAt(q) : i < j => RankOf(q, i) < RankOf(q, j)
<1> DEFINE upto(k) == {j \in ReplyAt(q) : j <= k}
<1>1. /\ ReplyAt(q) \subseteq Nat
      /\ IsFiniteSet(ReplyAt(q)) /\ Cardinality(ReplyAt(q)) \in Nat
      /\ \A k : IsFiniteSet(upto(k)) /\ RankOf(q, k) \in Nat
      /\ \A k : RankOf(q, k) = Cardinality(upto(k))
  BY RanksAreFinite DEF RankOf
<1>2. RankOf(q, i) # 0
  <2>1. i \in upto(i)
    BY <1>1
  <2> QED BY <1>1, <2>1, FS_EmptySet
<1>3. RankOf(q, i) <= Cardinality(ReplyAt(q))
  <2>1. upto(i) \in SUBSET ReplyAt(q)
    OBVIOUS
  <2>2. Cardinality(upto(i)) <= Cardinality(ReplyAt(q))
    BY <1>1, <2>1, FS_Subset
  <2>3. RankOf(q, i) = Cardinality(upto(i))
    BY <1>1
  <2> QED BY <2>2, <2>3
<1>4. ASSUME NEW j \in ReplyAt(q), i < j PROVE RankOf(q, i) < RankOf(q, j)
  <2>1. upto(i) \in SUBSET upto(j) /\ j \in upto(j) /\ j \notin upto(i)
    BY <1>1, <1>4
  <2>2. /\ Cardinality(upto(i)) <= Cardinality(upto(j))
        /\ Cardinality(upto(i)) # Cardinality(upto(j))
    BY <1>1, <2>1, FS_Subset
  <2>3. RankOf(q, i) <= RankOf(q, j) /\ RankOf(q, i) # RankOf(q, j)
    <3>1. RankOf(q, i) = Cardinality(upto(i))
          /\ RankOf(q, j) = Cardinality(upto(j))
      BY <1>1
    <3> QED BY <2>2, <3>1
  <2>4. RankOf(q, i) \in Nat /\ RankOf(q, j) \in Nat
    BY <1>1
  <2> QED BY <2>3, <2>4
<1> HIDE DEF upto
<1> QED BY <1>1, <1>2, <1>3, <1>4

(* Each rank is that of exactly one reply.                                 *)
LEMMA RanksAreBijective ==
    ASSUME NEW q \in Seq(Held)
    PROVE  /\ \A i, j \in ReplyAt(q) : RankOf(q, i) = RankOf(q, j) => i = j
           /\ \A k \in 1..Cardinality(ReplyAt(q)) :
                 \E i \in ReplyAt(q) : RankOf(q, i) = k
<1> DEFINE P == ReplyAt(q)
           n == Cardinality(P)
           rank == [i \in P |-> RankOf(q, i)]
<1>1. P \subseteq Nat /\ IsFiniteSet(P) /\ n \in Nat
  BY RanksAreFinite
<1>2. /\ \A i \in P : RankOf(q, i) \in 1..n
      /\ \A i, j \in P : i < j => RankOf(q, i) < RankOf(q, j)
  BY RanksAreOrdered
<1>3. ASSUME NEW i \in P, NEW j \in P, RankOf(q, i) = RankOf(q, j)
      PROVE  i = j
  <2>1. i \in Nat /\ j \in Nat /\ RankOf(q, i) \in Nat /\ RankOf(q, j) \in Nat
    BY <1>1, <1>2
  <2>2. ~(i < j) /\ ~(j < i)
    BY <1>2, <1>3, <2>1
  <2> QED BY <2>1, <2>2
<1>4. rank \in Injection(P, 1..n)
  BY <1>2, <1>3 DEF Injection, IsInjective
<1>5. IsFiniteSet(1..n) /\ Cardinality(1..n) = n
  <2>1. 1 \in Int /\ n \in Int
    BY <1>1
  <2>2. IsFiniteSet(1..n) /\ Cardinality(1..n) = IF 1 > n THEN 0 ELSE n - 1 + 1
    BY <2>1, FS_Interval
  <2> QED BY <1>1, <2>2
<1>6. rank \in Surjection(P, 1..n)
  BY <1>4, <1>5, FS_Injection
<1> QED BY <1>3, <1>6 DEF Surjection

(* The replies are a sequence of answers, in which the answer of each      *)
(* reply is where its rank says.                                           *)
LEMMA RepliesAreRanked ==
    ASSUME NEW q \in Seq(Held)
    PROVE  /\ Replies(q) \in Seq(Answer)
           /\ Len(Replies(q)) = Cardinality(ReplyAt(q))
           /\ \A i \in ReplyAt(q) : Replies(q)[RankOf(q, i)] = q[i].from
<1> DEFINE n == Cardinality(ReplyAt(q))
           at(k) == CHOOSE i \in ReplyAt(q) : RankOf(q, i) = k
<1>1. n \in Nat /\ ReplyAt(q) \subseteq 1..Len(q)
  BY RanksAreFinite
<1>2. \A k \in 1..n : at(k) \in ReplyAt(q) /\ RankOf(q, at(k)) = k
  BY RanksAreBijective
<1>3. \A i \in ReplyAt(q) : q[i].from \in Answer
  <2> SUFFICES ASSUME NEW i \in ReplyAt(q) PROVE q[i].from \in Answer
    OBVIOUS
  <2>1. q[i] \in Reply
    BY DEF ReplyAt
  <2> QED BY <2>1 DEF Reply
<1>4. Replies(q) = [k \in 1..n |-> q[at(k)].from]
  BY DEF Replies
<1>5. \A i \in ReplyAt(q) : RankOf(q, i) \in 1..n /\ at(RankOf(q, i)) = i
  BY <1>2, RanksAreOrdered, RanksAreBijective
<1> HIDE DEF at
<1>6. Replies(q) \in Seq(Answer) /\ Len(Replies(q)) = n
  BY <1>1, <1>2, <1>3, <1>4
<1> QED BY <1>4, <1>5, <1>6

(* No other sequence is like that.                                         *)
LEMMA RankedAreReplies ==
    ASSUME NEW q \in Seq(Held), NEW s \in Seq(Answer),
           Len(s) = Cardinality(ReplyAt(q)),
           \A i \in ReplyAt(q) : s[RankOf(q, i)] = q[i].from
    PROVE  Replies(q) = s
<1>1. Replies(q) \in Seq(Answer) /\ Len(Replies(q)) = Len(s)
  BY RepliesAreRanked
<1>2. \A k \in 1..Len(s) : Replies(q)[k] = s[k]
  <2> SUFFICES ASSUME NEW k \in 1..Len(s) PROVE Replies(q)[k] = s[k]
    OBVIOUS
  <2>1. PICK i \in ReplyAt(q) : RankOf(q, i) = k
    BY RanksAreBijective
  <2> QED BY <2>1, RepliesAreRanked
<1> QED BY <1>1, <1>2, SeqEqual

(* No frames, no replies.                                                  *)
LEMMA NoReplies == Replies(<<>>) = <<>>
<1>1. ReplyAt(<<>>) = {} /\ <<>> \in Seq(Held)
  BY DEF ReplyAt
<1>2. Len(<<>>) = Cardinality(ReplyAt(<<>>)) /\ <<>> \in Seq(Answer)
  BY <1>1, FS_EmptySet
<1> QED BY <1>1, <1>2, RankedAreReplies

(* A frame that arrives adds its answer at the end if it is a reply.       *)
LEMMA AppendedReplies ==
    ASSUME NEW q \in Seq(Held), NEW f \in Frame
    PROVE  Replies(Append(q, f)) =
              IF f \in Reply THEN Append(Replies(q), f.from)
                                  ELSE Replies(q)
<1> DEFINE n == Len(q)
           t == Append(q, f)
           m == Cardinality(ReplyAt(q))
<1>1. /\ n \in Nat /\ t \in Seq(Held) /\ Len(t) = n + 1 /\ t[n + 1] = f
      /\ \A i \in 1..n : t[i] = q[i]
  BY DEF Held
<1>2. ReplyAt(q) \subseteq 1..n /\ IsFiniteSet(ReplyAt(q)) /\ m \in Nat
  BY RanksAreFinite
<1> HIDE DEF t
<1>3. ReplyAt(t) = ReplyAt(q) \cup (IF f \in Reply THEN {n + 1} ELSE {})
  <2>1. \A i \in 1..n : i \in ReplyAt(t) <=> i \in ReplyAt(q)
    BY <1>1 DEF ReplyAt
  <2>2. n + 1 \in ReplyAt(t) <=> f \in Reply
    BY <1>1 DEF ReplyAt
  <2>3. ReplyAt(t) \subseteq 1..(n + 1)
    BY <1>1 DEF ReplyAt
  <2>4. 1..(n + 1) = 1..n \cup {n + 1} /\ n + 1 \notin 1..n
    BY <1>1
  <2> QED BY <1>2, <2>1, <2>2, <2>3, <2>4
<1>4. \A i \in ReplyAt(q) : RankOf(t, i) = RankOf(q, i) /\ t[i] = q[i]
  <2> SUFFICES ASSUME NEW i \in ReplyAt(q)
               PROVE  RankOf(t, i) = RankOf(q, i) /\ t[i] = q[i]
    OBVIOUS
  <2>1. i \in 1..n /\ ~(n + 1 <= i)
    BY <1>1, <1>2
  <2>2. {j \in ReplyAt(t) : j <= i} = {j \in ReplyAt(q) : j <= i}
    BY <1>3, <2>1
  <2> QED BY <1>1, <2>1, <2>2 DEF RankOf
<1>5. /\ Replies(q) \in Seq(Answer) /\ Len(Replies(q)) = m
      /\ \A i \in ReplyAt(q) : /\ Replies(q)[RankOf(q, i)] = q[i].from
                               /\ RankOf(q, i) \in 1..m
  BY RepliesAreRanked, RanksAreOrdered
<1>6. CASE f \in Reply
  <2> DEFINE s == Append(Replies(q), f.from)
  <2>1. f.from \in Answer
    BY <1>6 DEF Reply
  <2>2. s \in Seq(Answer) /\ Len(s) = m + 1 /\ s[m + 1] = f.from
        /\ \A k \in 1..m : s[k] = Replies(q)[k]
    BY <1>2, <1>5, <2>1
  <2> HIDE DEF s
  <2>3. n + 1 \notin ReplyAt(q) /\ ReplyAt(t) = ReplyAt(q) \cup {n + 1}
    BY <1>1, <1>2, <1>3, <1>6
  <2>4. Cardinality(ReplyAt(t)) = m + 1
    BY <1>2, <2>3, FS_AddElement
  <2>5. RankOf(t, n + 1) = m + 1
    <3>1. \A j \in ReplyAt(t) : j <= n + 1
      BY <1>1, <1>2, <2>3
    <3>2. {j \in ReplyAt(t) : j <= n + 1} = ReplyAt(t)
      BY <3>1
    <3> QED BY <2>4, <3>2 DEF RankOf
  <2>6. \A i \in ReplyAt(t) : s[RankOf(t, i)] = t[i].from
    BY <1>1, <1>4, <1>5, <2>2, <2>3, <2>5
  <2>7. Replies(t) = s
    BY <1>1, <2>2, <2>4, <2>6, RankedAreReplies
  <2> QED BY <1>6, <2>7 DEF s, t
<1>7. CASE f \notin Reply
  <2>1. ReplyAt(t) = ReplyAt(q)
    BY <1>3, <1>7
  <2>2. Replies(t) = Replies(q)
    BY <1>1, <1>4, <1>5, <2>1, RankedAreReplies
  <2> QED BY <1>7, <2>2 DEF t
<1> QED BY <1>6, <1>7

(* Moving the elements of a finite set by one does not change their        *)
(* number.                                                                 *)
LEMMA ShiftedSet ==
    ASSUME NEW S \in SUBSET Nat, IsFiniteSet(S)
    PROVE  /\ IsFiniteSet({i + 1 : i \in S})
           /\ Cardinality({i + 1 : i \in S}) = Cardinality(S)
<1> DEFINE T == {i + 1 : i \in S}
           up == [i \in S |-> i + 1]
<1>1. up \in Bijection(S, T)
  BY DEF Bijection, Injection, Surjection, IsInjective
<1>2. ExistsBijection(S, T)
  BY <1>1 DEF ExistsBijection
<1> QED BY <1>2, FS_Bijection

(* The frame that is ahead of all the others has the first answer, if it   *)
(* is a reply.                                                             *)
LEMMA RepliesFromHead ==
    ASSUME NEW q \in Seq(Held), NEW f \in Held
    PROVE  Replies(<<f>> \o q) =
              IF f \in Reply THEN <<f.from>> \o Replies(q)
                                  ELSE Replies(q)
<1> DEFINE n == Len(q)
           t == <<f>> \o q
           m == Cardinality(ReplyAt(q))
           moved == {i + 1 : i \in ReplyAt(q)}
           first == IF f \in Reply THEN {1} ELSE {}
           more == IF f \in Reply THEN 1 ELSE 0
<1>1. /\ n \in Nat /\ t \in Seq(Held) /\ Len(t) = n + 1 /\ t[1] = f
      /\ \A i \in 1..n : t[i + 1] = q[i]
  OBVIOUS
<1> HIDE DEF t
<1>2. ReplyAt(q) \subseteq 1..n /\ IsFiniteSet(ReplyAt(q)) /\ m \in Nat
      /\ \A i : IsFiniteSet({j \in ReplyAt(q) : j <= i})
                 /\ RankOf(q, i) \in Nat
  BY RanksAreFinite
<1>3. IsFiniteSet(moved) /\ Cardinality(moved) = m /\ 1 \notin moved
  BY <1>2, ShiftedSet
<1>4. ReplyAt(t) = moved \cup first
  <2>1. ReplyAt(t) \subseteq 1..(n + 1)
    BY <1>1 DEF ReplyAt
  <2>2. 1 \in ReplyAt(t) <=> 1 \in first
    BY <1>1 DEF ReplyAt
  <2>3. \A i \in 1..n : i + 1 \in ReplyAt(t) <=> i \in ReplyAt(q)
    BY <1>1 DEF ReplyAt
  <2>4. \A i \in 1..(n + 1) : i = 1 \/ \E j \in 1..n : i = j + 1
    <3>1. \A i \in 1..(n + 1) : i = 1 \/ (i - 1 \in 1..n /\ i = (i - 1) + 1)
      BY <1>1
    <3> QED BY <3>1
  <2>5. \A i \in 1..n : i + 1 \in moved <=> i \in ReplyAt(q)
    BY <1>2
  <2> QED BY <1>2, <1>3, <2>1, <2>2, <2>3, <2>4, <2>5
<1>5. Cardinality(ReplyAt(t)) = m + more
  <2>1. CASE f \in Reply
    <3>1. Cardinality(moved \cup {1}) = Cardinality(moved) + 1
      BY <1>3, FS_AddElement
    <3> QED BY <1>3, <1>4, <2>1, <3>1
  <2>2. CASE f \notin Reply
    <3>1. ReplyAt(t) = moved
      BY <1>4, <2>2
    <3> QED BY <1>2, <1>3, <2>2, <3>1
  <2> QED BY <2>1, <2>2
<1>6. ASSUME NEW i \in ReplyAt(q)
      PROVE  RankOf(t, i + 1) = RankOf(q, i) + more /\ t[i + 1] = q[i]
  <2> DEFINE before == {j \in ReplyAt(q) : j <= i}
             shifted == {j + 1 : j \in before}
  <2>1. before \subseteq 1..n /\ IsFiniteSet(before) /\ i \in 1..n
        /\ Cardinality(before) \in Nat
    <3>1. \A j \in before : j \in 1..n
      BY <1>2
    <3> QED BY <1>2, <3>1, FS_CardinalityType
  <2>2. {j \in ReplyAt(t) : j <= i + 1} = shifted \cup first
    BY <1>2, <1>4, <2>1
  <2> HIDE DEF before
  <2>3. IsFiniteSet(shifted) /\ Cardinality(shifted) = Cardinality(before)
    <3>1. before \in SUBSET Nat
      BY <2>1
    <3> QED BY <2>1, <3>1, ShiftedSet
  <2>4. 1 \notin shifted
    BY <2>1
  <2> HIDE DEF shifted
  <2>5. Cardinality(shifted \cup first) = Cardinality(before) + more
    <3>1. CASE f \in Reply
      <4>1. Cardinality(shifted \cup {1}) = Cardinality(shifted) + 1
        BY <2>3, <2>4, FS_AddElement
      <4> QED BY <2>3, <3>1, <4>1
    <3>2. CASE f \notin Reply
      <4>1. shifted \cup first = shifted
        BY <3>2
      <4> QED BY <2>1, <2>3, <3>2, <4>1
    <3> QED BY <3>1, <3>2
  <2>6. RankOf(t, i + 1) = Cardinality(before) + more
        /\ RankOf(q, i) = Cardinality(before)
    BY <2>2, <2>5 DEF RankOf, before
  <2> QED BY <1>1, <2>1, <2>6
<1>7. /\ Replies(q) \in Seq(Answer) /\ Len(Replies(q)) = m
      /\ \A i \in ReplyAt(q) : /\ Replies(q)[RankOf(q, i)] = q[i].from
                               /\ RankOf(q, i) \in 1..m
  BY RepliesAreRanked, RanksAreOrdered
<1>8. CASE f \in Reply
  <2> DEFINE s == <<f.from>> \o Replies(q)
  <2>1. f.from \in Answer
    BY <1>8 DEF Reply
  <2>2. s \in Seq(Answer) /\ Len(s) = m + 1 /\ s[1] = f.from
        /\ \A k \in 1..m : s[k + 1] = Replies(q)[k]
    BY <1>2, <1>7, <2>1
  <2> HIDE DEF s
  <2>3. RankOf(t, 1) = 1
    <3>1. {j \in ReplyAt(t) : j <= 1} = {1}
      BY <1>2, <1>4, <1>8
    <3> QED BY <3>1, FS_Singleton DEF RankOf
  <2>4. \A i \in ReplyAt(q) : s[RankOf(t, i + 1)] = t[i + 1].from
    <3> SUFFICES ASSUME NEW i \in ReplyAt(q)
                 PROVE  s[RankOf(t, i + 1)] = t[i + 1].from
      OBVIOUS
    <3>1. RankOf(t, i + 1) = RankOf(q, i) + 1 /\ t[i + 1] = q[i]
      BY <1>6, <1>8
    <3> QED BY <1>7, <2>2, <3>1
  <2>5. s[RankOf(t, 1)] = t[1].from
    BY <1>1, <2>2, <2>3
  <2>6. \A i \in ReplyAt(t) : s[RankOf(t, i)] = t[i].from
    BY <1>4, <2>4, <2>5
  <2>7. Replies(t) = s
    BY <1>1, <1>5, <1>8, <2>2, <2>6, RankedAreReplies
  <2> QED BY <1>8, <2>7 DEF s, t
<1>9. CASE f \notin Reply
  <2>1. Cardinality(ReplyAt(t)) = m
    BY <1>2, <1>5, <1>9
  <2>2. \A i \in ReplyAt(t) : Replies(q)[RankOf(t, i)] = t[i].from
    <3>1. ASSUME NEW i \in ReplyAt(q)
          PROVE  RankOf(t, i + 1) = RankOf(q, i) /\ t[i + 1] = q[i]
      <4>1. RankOf(t, i + 1) = RankOf(q, i) + 0 /\ t[i + 1] = q[i]
        BY <1>6, <1>9
      <4>2. RankOf(q, i) \in Nat
        BY <1>2
      <4> QED BY <4>1, <4>2
    <3> QED BY <1>4, <1>7, <1>9, <3>1
  <2>3. Replies(t) = Replies(q)
    BY <1>1, <1>7, <2>1, <2>2, RankedAreReplies
  <2> QED BY <1>9, <2>3 DEF t
<1> QED BY <1>8, <1>9

-----------------------------------------------------------------------------
(* The refinement.                                                         *)

(* The replies in the buffers are those of the socket, behind the one in   *)
(* ether_frame if there is one.                                            *)
Pending == Replies(<<frame>> \o queue)

LEMMA PendingIs ==
    ASSUME TypeOK, BufferedReply
    PROVE  /\ Replies(queue) \in Seq(Answer)
           /\ IsReply(frame) => /\ frame.from \in Answer
                                /\ Pending = <<frame.from>> \o Replies(queue)
           /\ ~IsReply(frame) => Pending = Replies(queue)
<1>1. queue \in Seq(Held) /\ frame \in Held
  BY SeqMonotonic, OnLinkIsWhole DEF TypeOK, Held
<1>2. IsReply(frame) <=> frame \in Reply
  BY DEF BufferedReply, IsReply, Reply
<1>3. frame \in Reply => frame.from \in Answer
  BY DEF Reply
<1> QED BY <1>1, <1>2, <1>3, RepliesFromHead, RepliesAreRanked DEF Pending

(* Nothing is pending when the buffers are empty.                          *)
LEMMA BlankHasNothing == Replies(<<Blank>> \o <<>>) = <<>>
<1>1. <<>> \in Seq(Held) /\ Blank \in Held /\ Blank \notin Reply
  BY DEF Held, Blank, EtherFrame, Reply
<1> QED BY <1>1, RepliesFromHead, NoReplies

(* A start is a start of the stream.                                       *)
LEMMA InitRefines == Init => Stream!Init
BY BlankHasNothing DEF Init, Stream!Init

(* What arrives is heard if it is a reply and there is room for it.        *)
LEMMA BufferedRefines ==
    ASSUME TypeOK, NEW f \in OnLink, Buffered(f), UNCHANGED <<frame, table>>
    PROVE  [Stream!Next]_(Stream!vars)
<1>1. queue \in Seq(Held) /\ <<frame>> \o queue \in Seq(Held) /\ f \in Frame
  BY SeqMonotonic, OnLinkIsWhole DEF TypeOK, Held
<1>2. CASE queue' = queue
  BY <1>2 DEF Stream!vars
<1>3. CASE queue' = Append(queue, f)
  <2>1. <<frame'>> \o queue' = Append(<<frame>> \o queue, f)
    BY <1>1, <1>3 DEF TypeOK, Held
  <2>2. Pending' = IF f \in Reply THEN Append(Pending, f.from) ELSE Pending
    BY <1>1, <2>1, AppendedReplies DEF Pending
  <2>3. CASE f \in Reply
    <3>1. f.from \in Stream!Answer
      BY <2>3 DEF Reply, Answer, Stream!Answer
    <3>2. Stream!Hear(f.from)
      BY <2>2, <2>3 DEF Stream!Hear, Pending
    <3> QED BY <3>1, <3>2 DEF Stream!Next
  <2>4. CASE f \notin Reply
    BY <2>2, <2>4 DEF Stream!vars, Pending
  <2> QED BY <2>3, <2>4
<1> QED BY <1>2, <1>3 DEF Buffered

(* A frame that is taken out of the socket stays pending if it is a reply; *)
(* what it overwrites was none.                                            *)
LEMMA RecvRefines ==
    ASSUME IInv, IInv', Recv \/ Interrupted
    PROVE  UNCHANGED Stream!vars
<1>1. ~IsReply(frame) /\ table' = table
  BY DEF Recv, Interrupted
<1>2. Pending = Replies(queue)
  BY <1>1, PendingIs DEF IInv
<1>3. CASE Recv
  <2> DEFINE f == Head(queue)
  <2>1. /\ f \in OnLink /\ queue' \in Seq(OnLink)
        /\ queue = <<f>> \o queue' /\ frame' = Overwritten(frame, f)
    BY <1>3, HeadTailProperties DEF Recv, IInv, TypeOK
  <2> HIDE DEF f
  <2>2. f \in Held /\ queue' \in Seq(Held) /\ frame' \in Held
    BY <2>1, SeqMonotonic, OnLinkIsWhole DEF IInv, TypeOK, Held
  <2>3. (f \in Reply => frame' = f) /\ (frame' \in Reply => f \in Reply)
    BY <2>1, OverwrittenIs DEF IInv, TypeOK, IsReply, Reply
  <2>4. Replies(<<f>> \o queue') = IF f \in Reply
                                     THEN <<f.from>> \o Replies(queue')
                                     ELSE Replies(queue')
    BY <2>2, RepliesFromHead
  <2>5. Replies(<<frame'>> \o queue') = IF frame' \in Reply
                                     THEN <<frame'.from>> \o Replies(queue')
                                     ELSE Replies(queue')
    BY <2>2, RepliesFromHead
  <2>6. Pending' = Replies(queue)
    BY <2>1, <2>3, <2>4, <2>5 DEF Pending
  <2> QED BY <1>1, <1>2, <2>6 DEF Stream!vars, Pending
<1>4. CASE Interrupted
  <2>1. queue = <<>> /\ queue' = <<>> /\ frame' = Blank
    BY <1>4 DEF Interrupted
  <2>2. Pending' = <<>> /\ Pending = <<>>
    BY <1>2, <2>1, BlankHasNothing, NoReplies DEF Pending
  <2> QED BY <1>1, <2>2 DEF Stream!vars, Pending
<1> QED BY <1>3, <1>4

(* received_mac_for_ip() enters the first of the pending replies.          *)
LEMMA DeliverRefines == ASSUME IInv, IInv', Deliver PROVE Stream!Enter
<1>1. IsReply(frame) /\ frame' = Blank /\ queue' = queue
      /\ table' = [table EXCEPT ![frame.from.ip] = frame.from.mac]
  BY DEF Deliver
<1>2. /\ Replies(queue) \in Seq(Answer) /\ frame.from \in Answer
      /\ Pending = <<frame.from>> \o Replies(queue)
  BY <1>1, PendingIs DEF IInv
<1>3. Blank \notin Reply /\ queue \in Seq(Held) /\ Blank \in Held
  BY SeqMonotonic, OnLinkIsWhole
     DEF Reply, Blank, EtherFrame, IInv, TypeOK, Held
<1>4. Pending' = Replies(queue)
  BY <1>1, <1>3, RepliesFromHead DEF Pending
<1>5. Pending # <<>> /\ Head(Pending) = frame.from
      /\ Tail(Pending) = Replies(queue)
  BY <1>2
<1> QED BY <1>1, <1>4, <1>5 DEF Stream!Enter, Pending

(* Every step of ArpLink is a step of the stream or changes nothing of it. *)
THEOREM StepRefines == IInv /\ IInv' /\ [Next]_vars => [Stream!Next]_(Stream!vars)
<1> SUFFICES ASSUME IInv, IInv', [Next]_vars
             PROVE  [Stream!Next]_(Stream!vars)
  OBVIOUS
<1>1. TypeOK /\ TypeOK'
  BY DEF IInv
<1>2. CASE ArpSend
  <2>1. Request \in OnLink
    BY DEF OnLink
  <2> QED BY <1>1, <1>2, <2>1, BufferedRefines DEF ArpSend
<1>3. ASSUME NEW f \in Traffic, Emit(f) PROVE [Stream!Next]_(Stream!vars)
  BY <1>1, <1>3, BufferedRefines DEF Emit, OnLink
<1>4. CASE Recv \/ Interrupted
  BY <1>4, RecvRefines
<1>5. CASE Deliver
  BY <1>5, DeliverRefines DEF Stream!Next
<1>6. CASE ResetProbe
  <2>1. Stream!Clear
    BY <1>6 DEF ResetProbe, Stream!Clear
  <2> QED BY <2>1 DEF Stream!Next
<1>7. CASE ArpSendExits \/ Exit
  <2>1. frame' = Blank /\ queue' = <<>> /\ table' = [a \in Address |-> None]
    BY <1>7 DEF ArpSendExits, Exit, Ended
  <2>2. Stream!Stop
    BY <2>1, BlankHasNothing DEF Stream!Stop, Stream!Init
  <2> QED BY <2>2 DEF Stream!Next
<1>8. CASE NextRound \/ Restart \/ UNCHANGED vars
  BY <1>8 DEF NextRound, Restart, vars, Stream!vars
<1> QED BY <1>2, <1>3, <1>4, <1>5, <1>6, <1>7, <1>8 DEF Next

(* Listening keeps the promise of AnswerStream, whatever else is on the    *)
(* link: replies and nothing else reach the table, in order, unmixed and   *)
(* once each.                                                              *)
THEOREM Implements == Spec => ListensToReplies
<1>1. Spec => Stream!Init /\ [][Stream!Next]_(Stream!vars)
  BY InitRefines, StepRefines, Invariance, PTL DEF Spec
<1> QED BY <1>1 DEF ListensToReplies, Stream!Spec

=============================================================================
