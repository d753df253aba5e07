----------------------------- MODULE MCArpLink -----------------------------
(***************************************************************************)
(* Two addresses and two MACs on the link; the devices of the database in  *)
(* a list with, and in one without, a text that cannot be resolved.        *)
(* Between the replies and the requests there are frames of other          *)
(* protocols: one that has the bytes of a reply in their places, one that  *)
(* has those of the opcode and ends there, and one that ends before.       *)
(***************************************************************************)
EXTENDS ArpLink

CONSTANTS a1, a2, m1, m2, t1, t2, bad

MCResolve ==
    [t \in {t1, t2, bad} |-> CASE t = t1  -> a1
                               [] t = t2  -> a2
                               [] t = bad -> None]

GoodOrder == <<t1, t2>>

BadOrder == <<t1, bad, t2>>

BothOrders == {GoodOrder, BadOrder}

MCOwn == [ip |-> a1, mac |-> m1]

Sender(a, m) == [ip |-> a, mac |-> m]

Bytes(t, o, s) == [type |-> t, op |-> o, from |-> s]

MCTraffic ==
    {Bytes("arp", "reply", Sender(a1, m2)),
     Bytes("arp", "reply", Sender(a2, m1)),
     Bytes("arp", "reply", Sender(a2, m2)),
     Bytes("arp", "other", Sender(a2, m2)),
     Bytes("other", "reply", Sender(a1, m1)),
     Bytes("other", "reply", None),
     Bytes("other", None, None)}
=============================================================================
