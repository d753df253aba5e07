------------------------------- MODULE ArpLink -------------------------------
(***************************************************************************)
(* Asking and listening on the link: arp_send() and start_send_loop()      *)
(* (src/src/arp/arp_send.c, src/src/main.c) and arp_recv()                 *)
(* (src/src/arp/arp_recv.c).  The listener's raw socket receives every     *)
(* frame of the link, the requests of the monitor itself included; it has  *)
(* to pick out the replies.                                                *)
(*                                                                         *)
(* Abstractions: a frame is what it brings to the three places at which    *)
(* arp_recv() looks, in their order; a short one brings the first of them  *)
(* only.  What the table does with an answer is taken as one step (see     *)
(* ProbeCycle), and so is the choice of the devices of a round.  Failures  *)
(* of system calls, which end the process in either thread, are Exit.      *)
(***************************************************************************)
EXTENDS Naturals, Sequences, FiniteSets

CONSTANTS
    Address,     \* IPv4 addresses
    Mac,         \* MAC addresses
    None,        \* no address, no MAC; nothing that a frame brings
    Text,        \* what the column ip of the database may contain
    Resolve,     \* the address that getaddrinfo() gives a text, or None
    Orders,      \* the lists of texts that rounds may be given
    Own,         \* the sender of the monitor's requests
    Traffic,     \* the frames that the other hosts put on the link
    QueueLimit   \* how many frames the socket buffers

ASSUME OrdersAssumption ==
    Orders # {} /\ \A l \in Orders : l \in Seq(Text)
ASSUME ResolveAssumption == Resolve \in [Text -> Address \cup {None}]

Answer == [ip : Address, mac : Mac]

ASSUME NoneAssumption ==
    None \notin Address \cup Mac \cup Answer \cup {"reply", "other"}
ASSUME OwnAssumption == Own \in [ip : Address, mac : Mac]
ASSUME QueueLimitAssumption == QueueLimit \in Nat

(* What a frame brings ends somewhere behind its ethernet header: a frame  *)
(* without an opcode has no sender either.                                 *)
Frame ==
    {f \in [type : {"arp", "other"}, op : {"reply", "other", None},
            from : Answer \cup {None}] : f.op = None => f.from = None}

(* Frames may be short, those of ARP are not: ethernet pads a frame to 60  *)
(* bytes, of which arp_recv() looks at the first 32.  The code relies on   *)
(* it: of what recv() returns only the sign is looked at.                  *)
ASSUME TrafficAssumption ==
    /\ Traffic \subseteq Frame
    /\ \A f \in Traffic : f.type = "arp" => f.from # None

VARIABLES
    alive,     \* the process runs
    list,      \* ips_to_send: the array and its size
    next,      \* the loop counter i of start_send_loop(), from 1
    asked,     \* the texts for which a request was sent in this round
               \* (history)
    queue,     \* the frames in the buffer of the listening socket
    frame,     \* ether_frame
    table      \* ips_to_macs

vars == <<alive, list, next, asked, queue, frame, table>>

(* ether_frame: its ethernet type, its ARP opcode and its ARP sender, or   *)
(* whatever bytes are in their places.                                     *)
EtherFrame ==
    [type : {"arp", "other"}, op : {"reply", "other"},
     from : Answer \cup {None}]

(* A freshly allocated ether_frame is all zeros: neither ARP nor a reply.  *)
Blank == [type |-> "other", op |-> "other", from |-> None]

(* set_arp_header(), pack_ethernet_frame(): the frame names the monitor as *)
(* its sender.                                                             *)
Request == [type |-> "arp", op |-> "other", from |-> Own]

OnLink == Traffic \cup {Request}

TypeOK ==
    /\ alive \in BOOLEAN
    /\ list \in Orders
    /\ next \in 1..(Len(list) + 1)
    /\ asked \subseteq Text
    /\ queue \in Seq(OnLink) /\ Len(queue) <= QueueLimit
    /\ frame \in EtherFrame
    /\ table \in [Address -> Mac \cup {None}]

Init ==
    /\ alive = TRUE
    /\ list \in Orders
    /\ next = 1 /\ asked = {}
    /\ queue = <<>> /\ frame = Blank
    /\ table = [a \in Address |-> None]

(* A frame on the link; the socket drops what it has no room for.          *)
Buffered(f) ==
    queue' = IF alive /\ Len(queue) < QueueLimit THEN Append(queue, f)
                                                 ELSE queue

Ended ==
    /\ alive' = FALSE
    /\ next' = 1
    /\ queue' = <<>> /\ frame' = Blank
    /\ table' = [a \in Address |-> None]

-----------------------------------------------------------------------------
(* The sending thread.                                                     *)

(* arp_send(): a broadcast that the monitor's own socket receives as well. *)
ArpSend ==
    /\ alive /\ next <= Len(list)
    /\ Resolve[list[next]] # None
    /\ Buffered(Request)
    /\ asked' = asked \cup {list[next]}
    /\ next' = next + 1
    /\ UNCHANGED <<alive, list, frame, table>>

(* getaddrinfo() fails: exit(), of the process and not of the thread.      *)
ArpSendExits ==
    /\ alive /\ next <= Len(list)
    /\ Resolve[list[next]] = None
    /\ Ended
    /\ UNCHANGED <<list, asked>>

(* The loop counter is not set back: a mutation.                           *)
NextRoundCountingOn ==
    /\ alive /\ next > Len(list)
    /\ list' \in Orders
    /\ asked' = {}
    /\ UNCHANGED <<alive, next, queue, frame, table>>

(* poll() comes to its next round, with the devices that are left of this  *)
(* cycle or with those of the next one.                                    *)
NextRound ==
    /\ alive /\ next > Len(list)
    /\ list' \in Orders
    /\ next' = 1 /\ asked' = {}
    /\ UNCHANGED <<alive, queue, frame, table>>

-----------------------------------------------------------------------------
(* The link.                                                               *)

Emit(f) ==
    /\ Buffered(f)
    /\ UNCHANGED <<alive, list, next, asked, frame, table>>

-----------------------------------------------------------------------------
(* The listening thread.                                                   *)

(* Only the ethernet type is looked at: a mutation.                        *)
IsArp(f) == f.type = "arp"

(* The condition under which arp_recv() stops receiving.                   *)
IsReply(f) == f.type = "arp" /\ f.op = "reply"

(* recv() overwrites the bytes that the frame brings; behind them those of *)
(* the frame before stay.                                                  *)
Overwritten(old, f) ==
    [type |-> f.type,
     op   |-> IF f.op   = None THEN old.op   ELSE f.op,
     from |-> IF f.from = None THEN old.from ELSE f.from]

Recv ==
    /\ alive /\ ~IsReply(frame) /\ queue # <<>>
    /\ frame' = Overwritten(frame, Head(queue))
    /\ queue' = Tail(queue)
    /\ UNCHANGED <<alive, list, next, asked, table>>

(* EINTR while recv() waits: the buffer is zeroed.                         *)
Interrupted ==
    /\ alive /\ ~IsReply(frame) /\ queue = <<>>
    /\ frame' = Blank
    /\ UNCHANGED <<alive, list, next, asked, queue, table>>

(* The frame is kept for the next turn of the loop: a mutation.            *)
DeliverAgain ==
    /\ alive /\ IsReply(frame)
    /\ table' = [table EXCEPT ![frame.from.ip] = frame.from.mac]
    /\ UNCHANGED <<alive, list, next, asked, queue, frame>>

(* received_mac_for_ip(); the next turn allocates a new frame.             *)
Deliver ==
    /\ alive /\ IsReply(frame)
    /\ table' = [table EXCEPT ![frame.from.ip] = frame.from.mac]
    /\ frame' = Blank
    /\ UNCHANGED <<alive, list, next, asked, queue>>

-----------------------------------------------------------------------------
(* The main thread, at the end of a cycle: reset_probe().                  *)
ResetProbe ==
    /\ alive
    /\ table' = [a \in Address |-> None]
    /\ UNCHANGED <<alive, list, next, asked, queue, frame>>

-----------------------------------------------------------------------------
(* exit() or abort() for any other reason, and systemd.                    *)

Exit ==
    /\ alive
    /\ Ended
    /\ UNCHANGED <<list, asked>>

Restart ==
    /\ ~alive
    /\ alive' = TRUE
    /\ list' \in Orders /\ asked' = {}
    /\ UNCHANGED <<next, queue, frame, table>>

Next ==
    \/ ArpSend \/ ArpSendExits \/ NextRound
    \/ \E f \in Traffic : Emit(f)
    \/ Recv \/ Interrupted \/ Deliver
    \/ ResetProbe
    \/ Exit \/ Restart

(* Both threads are scheduled, and the service is restarted.               *)
Fairness ==
    /\ WF_vars(ArpSend \/ ArpSendExits \/ NextRound)
    /\ WF_vars(Recv \/ Deliver)
    /\ WF_vars(Restart)

Spec == Init /\ [][Next]_vars /\ Fairness

-----------------------------------------------------------------------------
(* A reply says so and names its sender.                                   *)
Reply == [type : {"arp"}, op : {"reply"}, from : Answer]

(* The replies in the socket, behind the one in ether_frame, are the       *)
(* stream of answers: the first of them is the one that no other precedes, *)
(* and so on.                                                              *)
ReplyAt(q) == {i \in DOMAIN q : q[i] \in Reply}

RankOf(q, i) == Cardinality({j \in ReplyAt(q) : j <= i})

Replies(q) ==
    [k \in 1..Cardinality(ReplyAt(q)) |->
        q[CHOOSE i \in ReplyAt(q) : RankOf(q, i) = k].from]

Stream == INSTANCE AnswerStream WITH
              pending <- Replies(<<frame>> \o queue)

(* Requests, the monitor's own among them, and other frames never reach    *)
(* the table; replies reach it in order and unmixed, although one buffer   *)
(* is used for all the frames in between, short ones leave in it what the  *)
(* frames before have brought, and an interrupt may clear it.              *)
ListensToReplies == Stream!Spec

(* A reply that found room in the socket's buffer gets into the table,     *)
(* whatever traffic is around it.                                          *)
AnswersArrive ==
    \A r \in Answer :
        (\E i \in ReplyAt(queue) : queue[i].from = r)
            ~> table[r.ip] = r.mac \/ ~alive

(* The texts of a list up to the first one that cannot be resolved.        *)
Askable(l) ==
    {l[i] : i \in {i \in DOMAIN l : \A j \in 1..i : Resolve[l[j]] # None}}

(* The sender asks in the order of its list, nobody is left out, and a     *)
(* round that came to its end has asked everybody.                         *)
AskedSoFar ==
    alive => /\ asked = {list[i] : i \in 1..(next - 1)}
             /\ \A i \in 1..(next - 1) : Resolve[list[i]] # None

(* A process that has ended has left nothing behind but what it sent.      *)
NothingIsLeft ==
    ~alive => /\ next = 1
              /\ queue = <<>> /\ frame = Blank
              /\ table = [a \in Address |-> None]

(* What stops the receiving is a whole reply.                              *)
BufferedReply == IsReply(frame) => frame \in Reply

(* The inductive invariant: whom a round has asked, and that a restart     *)
(* begins with empty buffers (arp_send.c:179-182, main.c:235-244).         *)
IInv == TypeOK /\ BufferedReply /\ AskedSoFar /\ NothingIsLeft

(* All the others of a round are asked, each of them, unless the process   *)
(* ends, and the loop of start_send_loop() begins anew in every round.     *)
AskableGetAsked ==
    \A l \in Orders :
        (alive /\ list = l) ~> asked = Askable(l) \/ ~alive
=============================================================================
