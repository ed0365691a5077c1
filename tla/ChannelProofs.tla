----------------------------- MODULE ChannelProofs -----------------------------
(* Proofs about Channel, and about Inbox, which drives it, for any number of   *)
(* producers, any capacity and any number of messages. The inbox takes only    *)
(* steps of its channel, so what is proved of Channel holds of it, and it      *)
(* loses no wake-up.                                                           *)
EXTENDS Inbox, SeqFacts

--------------------------------------------------------------------------------
(* Type correctness *)

\* A push in progress has a message left to send.
PushHasMessage == \A p \in Producers : ppc[p] # "idle" => sent[p] < MaxSends

TypeInv == TypeOK /\ PushHasMessage

\* The message a producer is about to push is a message.
LEMMA NextMsgType ==
    ASSUME TypeOK, NEW p \in Producers, sent[p] < MaxSends
    PROVE  NextMsg(p) \in Message
BY MaxSendsAssumption DEF TypeOK, NextMsg, Message

\* Every access of push and pop keeps the shape of the channel.
LEMMA TypeStep == TypeInv /\ [Next]_vars => TypeInv'
<1> SUFFICES ASSUME TypeInv, [Next]_vars PROVE TypeInv'
    OBVIOUS
<1> USE CapacityAssumption, MaxSendsAssumption
<1>1. ASSUME NEW p \in Producers, PushCheck(p) PROVE TypeInv'
    BY <1>1 DEF TypeInv, TypeOK, PushHasMessage, PushCheck
<1>2. ASSUME NEW p \in Producers, PushRing(p) PROVE TypeInv'
    <2>1. NextMsg(p) \in Message
        BY <1>2, NextMsgType DEF TypeInv, PushHasMessage, PushRing
    <2>2. sent[p] \in 0..MaxSends /\ sent[p] < MaxSends
        BY <1>2 DEF TypeInv, TypeOK, PushHasMessage, PushRing
    <2>3. /\ Append(ring, NextMsg(p)) \in Seq(Message)
          /\ Len(ring) \in Nat /\ Len(Append(ring, NextMsg(p))) = Len(ring) + 1
        BY <2>1, AppendFacts DEF TypeInv, TypeOK
    <2>4. ring' \in Seq(Message) /\ Len(ring') <= Capacity
        <3>1. CASE ring' = ring
            BY <3>1 DEF TypeInv, TypeOK
        <3>2. CASE ring' = Append(ring, NextMsg(p)) /\ Len(ring) < Capacity
            BY <3>2, <2>3
        <3> QED BY <1>2, <3>1, <3>2 DEF PushRing
    <2>5. \/ ppc' = [ppc EXCEPT ![p] = "idle"] /\ sent' = [sent EXCEPT ![p] = @ + 1]
          \/ ppc' = [ppc EXCEPT ![p] = "overflow"] /\ sent' = sent
        BY <1>2 DEF PushRing
    <2>6. /\ ppc' \in [Producers -> {"idle", "ring", "overflow"}]
          /\ sent' \in [Producers -> 0..MaxSends]
          /\ PushHasMessage'
        <3>1. CASE ppc' = [ppc EXCEPT ![p] = "idle"] /\ sent' = [sent EXCEPT ![p] = @ + 1]
            BY <2>2, <3>1 DEF TypeInv, TypeOK, PushHasMessage
        <3>2. CASE ppc' = [ppc EXCEPT ![p] = "overflow"] /\ sent' = sent
            BY <2>2, <3>2 DEF TypeInv, TypeOK, PushHasMessage
        <3> QED BY <2>5, <3>1, <3>2
    <2>7. UNCHANGED <<overflow, cpc, received>>
        BY <1>2 DEF PushRing
    <2> QED BY <2>4, <2>6, <2>7 DEF TypeInv, TypeOK
<1>3. ASSUME NEW p \in Producers, PushOverflow(p) PROVE TypeInv'
    <2>1. NextMsg(p) \in Message
        BY <1>3, NextMsgType DEF TypeInv, PushHasMessage, PushOverflow
    <2>2. sent[p] \in 0..MaxSends /\ sent[p] < MaxSends
        BY <1>3 DEF TypeInv, TypeOK, PushHasMessage, PushOverflow
    <2>3. overflow' \in Seq(Message)
        BY <1>3, <2>1, AppendFacts DEF TypeInv, TypeOK, PushOverflow
    <2>4. /\ ppc' \in [Producers -> {"idle", "ring", "overflow"}]
          /\ sent' \in [Producers -> 0..MaxSends]
          /\ PushHasMessage'
        BY <1>3, <2>2 DEF TypeInv, TypeOK, PushHasMessage, PushOverflow
    <2> QED BY <1>3, <2>3, <2>4 DEF TypeInv, TypeOK, PushOverflow
<1>4. ASSUME PopRing PROVE TypeInv'
    <2>1. CASE ring # <<>>
        <3>1. /\ Head(ring) \in Message /\ Tail(ring) \in Seq(Message)
              /\ Len(Tail(ring)) = Len(ring) - 1 /\ Len(ring) \in Nat
            BY <2>1, TailFacts DEF TypeInv, TypeOK
        <3>2. Append(received, Head(ring)) \in Seq(Message)
            BY <3>1, AppendFacts DEF TypeInv, TypeOK
        <3>3. /\ received' = Append(received, Head(ring)) /\ ring' = Tail(ring)
              /\ UNCHANGED <<overflow, ppc, sent, cpc>>
            BY <1>4, <2>1 DEF PopRing
        <3>4. ring' \in Seq(Message) /\ Len(ring') <= Capacity
            BY <3>1, <3>3 DEF TypeInv, TypeOK
        <3> QED BY <3>2, <3>3, <3>4 DEF TypeInv, TypeOK, PushHasMessage
    <2>2. CASE ring = <<>>
        BY <1>4, <2>2 DEF TypeInv, TypeOK, PushHasMessage, PopRing
    <2> QED BY <2>1, <2>2
<1>5. ASSUME PopOverflow PROVE TypeInv'
    <2>1. CASE overflow # <<>>
        <3>1. Head(overflow) \in Message /\ Tail(overflow) \in Seq(Message)
            BY <2>1, TailFacts DEF TypeInv, TypeOK
        <3>2. Append(received, Head(overflow)) \in Seq(Message)
            BY <3>1, AppendFacts DEF TypeInv, TypeOK
        <3>3. /\ received' = Append(received, Head(overflow)) /\ overflow' = Tail(overflow)
              /\ cpc' = "idle" /\ UNCHANGED <<ring, ppc, sent>>
            BY <1>5, <2>1 DEF PopOverflow
        <3> QED BY <3>1, <3>2, <3>3 DEF TypeInv, TypeOK, PushHasMessage
    <2>2. CASE overflow = <<>>
        BY <1>5, <2>2 DEF TypeInv, TypeOK, PushHasMessage, PopOverflow
    <2> QED BY <2>1, <2>2
<1>6. ASSUME UNCHANGED vars PROVE TypeInv'
    BY <1>6 DEF TypeInv, TypeOK, PushHasMessage, vars, Message
<1> QED BY <1>1, <1>2, <1>3, <1>4, <1>5, <1>6 DEF Next, Push, Pop

\* The state of the channel always has its declared shape, and the ring never
\* exceeds its capacity.
THEOREM TypeCorrect == Spec => []TypeOK
<1>1. Init => TypeInv
    BY CapacityAssumption, MaxSendsAssumption DEF Init, TypeInv, TypeOK, PushHasMessage
<1>2. TypeInv => TypeOK
    BY DEF TypeInv
<1> QED BY <1>1, <1>2, TypeStep, PTL DEF Spec
--------------------------------------------------------------------------------
(* Order of what is stored *)

\* No stored message is newer than its producer's completed pushes.
Bounded(s) == \A i \in DOMAIN s : s[i].seq <= sent[s[i].from]

\* A producer about to try the ring has nothing in the overflow: it saw the
\* overflow empty, and only its own pushes could have changed that for it.
RingFirst == \A p \in Producers : ppc[p] = "ring" =>
                 \A j \in DOMAIN overflow : overflow[j].from # p

OrderInv == TypeInv /\ StoredInOrder /\ Bounded(ring) /\ Bounded(overflow) /\ RingFirst

\* Message m is newer than every message of s by the same producer.
NewerThan(m, s) == \A i \in DOMAIN s : s[i].from = m.from => s[i].seq < m.seq

\* Appending a message newer than all of s by the same producer keeps s in order.
LEMMA InOrderAppend ==
    ASSUME NEW s \in Seq(Message), NEW m \in Message, InOrder(s), NewerThan(m, s)
    PROVE  InOrder(Append(s, m))
<1> DEFINE t == Append(s, m)
<1> SUFFICES ASSUME NEW i \in DOMAIN t, NEW j \in DOMAIN t, i < j, t[i].from = t[j].from
             PROVE  t[i].seq < t[j].seq
    BY DEF InOrder
<1>1. /\ Len(s) \in Nat /\ DOMAIN s = 1..Len(s) /\ DOMAIN t = 1..(Len(s) + 1)
      /\ \A k \in 1..Len(s) : t[k] = s[k]
      /\ t[Len(s) + 1] = m
    BY AppendFacts
<1>2. i \in DOMAIN s /\ t[i] = s[i]
    BY <1>1
<1>3. CASE j \in DOMAIN s
    BY <1>1, <1>2, <1>3 DEF InOrder
<1>4. CASE j = Len(s) + 1
    BY <1>1, <1>2, <1>4 DEF NewerThan
<1> QED BY <1>1, <1>3, <1>4

\* A message newer than all of s may join the queue behind s.
LEMMA PrecedesAppend ==
    ASSUME NEW s \in Seq(Message), NEW t \in Seq(Message), NEW m \in Message,
           Precedes(s, t), NewerThan(m, s)
    PROVE  Precedes(s, Append(t, m))
<1>1. /\ Len(t) \in Nat /\ DOMAIN t = 1..Len(t) /\ DOMAIN Append(t, m) = 1..(Len(t) + 1)
      /\ \A k \in 1..Len(t) : Append(t, m)[k] = t[k]
      /\ Append(t, m)[Len(t) + 1] = m
    BY AppendFacts
<1>2. ASSUME NEW i \in DOMAIN s, NEW j \in DOMAIN Append(t, m),
             s[i].from = Append(t, m)[j].from
      PROVE  s[i].seq < Append(t, m)[j].seq
    <2>1. CASE j \in DOMAIN t
        BY <1>1, <1>2, <2>1 DEF Precedes
    <2>2. CASE j = Len(t) + 1
        BY <1>1, <1>2, <2>2 DEF NewerThan
    <2> QED BY <1>1, <2>1, <2>2
<1> QED BY <1>2 DEF Precedes

\* A message of a producer with nothing in t may join the queue before t.
LEMMA AppendPrecedes ==
    ASSUME NEW s \in Seq(Message), NEW t \in Seq(Message), NEW m \in Message,
           Precedes(s, t), \A j \in DOMAIN t : t[j].from # m.from
    PROVE  Precedes(Append(s, m), t)
<1>1. /\ Len(s) \in Nat /\ DOMAIN s = 1..Len(s) /\ DOMAIN Append(s, m) = 1..(Len(s) + 1)
      /\ \A k \in 1..Len(s) : Append(s, m)[k] = s[k]
      /\ Append(s, m)[Len(s) + 1] = m
    BY AppendFacts
<1>2. ASSUME NEW i \in DOMAIN Append(s, m), NEW j \in DOMAIN t,
             Append(s, m)[i].from = t[j].from
      PROVE  Append(s, m)[i].seq < t[j].seq
    <2>1. CASE i \in DOMAIN s
        BY <1>1, <1>2, <2>1 DEF Precedes
    <2>2. CASE i = Len(s) + 1
        BY <1>1, <1>2, <2>2
    <2> QED BY <1>1, <2>1, <2>2
<1> QED BY <1>2 DEF Precedes

\* Taking the head off a sequence in order leaves it in order.
LEMMA TailInOrder ==
    ASSUME NEW s \in Seq(Message), s # <<>>, InOrder(s)
    PROVE  InOrder(Tail(s))
<1>1. /\ Len(s) \in Nat \ {0} /\ DOMAIN s = 1..Len(s) /\ DOMAIN Tail(s) = 1..(Len(s) - 1)
      /\ \A k \in 1..(Len(s) - 1) : Tail(s)[k] = s[k + 1]
    BY TailFacts
<1>2. ASSUME NEW i \in DOMAIN Tail(s), NEW j \in DOMAIN Tail(s), i < j,
             Tail(s)[i].from = Tail(s)[j].from
      PROVE  Tail(s)[i].seq < Tail(s)[j].seq
    <2>1. /\ i + 1 \in DOMAIN s /\ j + 1 \in DOMAIN s /\ i + 1 < j + 1
          /\ Tail(s)[i] = s[i + 1] /\ Tail(s)[j] = s[j + 1]
        BY <1>1, <1>2
    <2> QED BY <1>2, <2>1 DEF InOrder
<1> QED BY <1>2 DEF InOrder

\* Every element of the tail of s is an element of s.
LEMMA TailElement ==
    ASSUME NEW s \in Seq(Message), s # <<>>
    PROVE  \A i \in DOMAIN Tail(s) : \E k \in DOMAIN s : Tail(s)[i] = s[k]
<1>1. /\ Len(s) \in Nat \ {0} /\ DOMAIN s = 1..Len(s) /\ DOMAIN Tail(s) = 1..(Len(s) - 1)
      /\ \A k \in 1..(Len(s) - 1) : Tail(s)[k] = s[k + 1]
    BY TailFacts
<1>2. ASSUME NEW i \in DOMAIN Tail(s) PROVE \E k \in DOMAIN s : Tail(s)[i] = s[k]
    <2>1. i + 1 \in DOMAIN s /\ Tail(s)[i] = s[i + 1]
        BY <1>1
    <2> QED BY <2>1
<1> QED BY <1>2
\* The message a producer is pushing is newer than all of its stored messages.
LEMMA NextIsNewer ==
    ASSUME TypeInv, NEW p \in Producers, ppc[p] # "idle",
           NEW s \in Seq(Message), Bounded(s)
    PROVE  /\ NextMsg(p) \in Message /\ NextMsg(p).from = p
           /\ NextMsg(p).seq = sent[p] + 1
           /\ NewerThan(NextMsg(p), s)
<1>1. NextMsg(p) \in Message
    BY NextMsgType DEF TypeInv, PushHasMessage
<1>2. NextMsg(p).from = p /\ NextMsg(p).seq = sent[p] + 1
    BY DEF NextMsg
<1>3. ASSUME NEW i \in DOMAIN s, s[i].from = NextMsg(p).from
      PROVE  s[i].seq < NextMsg(p).seq
    <2>1. s[i] \in Message
        OBVIOUS
    <2>2. s[i].seq \in Nat /\ sent[p] \in Nat
        BY <2>1, MaxSendsAssumption DEF Message, TypeInv, TypeOK
    <2>3. s[i].seq <= sent[p]
        BY <1>2, <1>3 DEF Bounded
    <2> QED BY <1>2, <2>2, <2>3
<1> QED BY <1>1, <1>2, <1>3 DEF NewerThan

\* Completing a push keeps what is stored bounded by the count of pushes.
LEMMA BoundedGrows ==
    ASSUME TypeInv, NEW p \in Producers, NEW s \in Seq(Message), Bounded(s),
           sent' = [sent EXCEPT ![p] = @ + 1]
    PROVE  \A i \in DOMAIN s : s[i].seq <= sent'[s[i].from]
<1> SUFFICES ASSUME NEW i \in DOMAIN s PROVE s[i].seq <= sent'[s[i].from]
    OBVIOUS
<1>1. s[i] \in Message
    OBVIOUS
<1>2. s[i].seq \in Nat /\ s[i].from \in Producers
    BY <1>1, MaxSendsAssumption DEF Message
<1>3. s[i].seq <= sent[s[i].from]
    BY DEF Bounded
<1>4. sent \in [Producers -> Nat]
    BY MaxSendsAssumption DEF TypeInv, TypeOK
<1> QED BY <1>2, <1>3, <1>4

\* Storing the message a producer pushes keeps what is stored within the pushes done.
LEMMA BoundedAppend ==
    ASSUME TypeInv, NEW p \in Producers, ppc[p] # "idle",
           NEW s \in Seq(Message), Bounded(s), sent' = [sent EXCEPT ![p] = @ + 1]
    PROVE  \A i \in DOMAIN Append(s, NextMsg(p)) :
               Append(s, NextMsg(p))[i].seq <= sent'[Append(s, NextMsg(p))[i].from]
<1> DEFINE m == NextMsg(p)
           t == Append(s, m)
<1>1. m \in Message /\ m.from = p /\ m.seq = sent[p] + 1
    BY NextIsNewer
<1>2. /\ Len(s) \in Nat /\ DOMAIN s = 1..Len(s) /\ DOMAIN t = 1..(Len(s) + 1)
      /\ \A k \in 1..Len(s) : t[k] = s[k]
      /\ t[Len(s) + 1] = m
    BY <1>1, AppendFacts
<1>3. \A i \in DOMAIN s : s[i].seq <= sent'[s[i].from]
    BY BoundedGrows
<1>4. m.seq <= sent'[m.from]
    <2>1. sent[p] \in Nat /\ sent'[p] = sent[p] + 1
        BY MaxSendsAssumption DEF TypeInv, TypeOK
    <2> QED BY <1>1, <2>1
<1> HIDE DEF m, t
<1>5. \A i \in DOMAIN t : t[i].seq <= sent'[t[i].from]
    BY <1>2, <1>3, <1>4
<1> QED BY <1>5 DEF m, t

\* Every access of push and pop keeps the storage order.
LEMMA OrderStep == OrderInv /\ [Next]_vars => OrderInv'
<1> SUFFICES ASSUME OrderInv, [Next]_vars PROVE OrderInv'
    OBVIOUS
<1>t. TypeInv /\ TypeInv'
    BY TypeStep DEF OrderInv
<1>s. ring \in Seq(Message) /\ overflow \in Seq(Message)
    BY <1>t DEF TypeInv, TypeOK
<1>o. /\ InOrder(ring) /\ InOrder(overflow) /\ Precedes(ring, overflow)
      /\ Bounded(ring) /\ Bounded(overflow)
    BY DEF OrderInv, StoredInOrder
\* Steps that leave the queues and the counts alone keep their order.
<1>k. ASSUME UNCHANGED <<ring, overflow, sent>>
      PROVE  StoredInOrder' /\ Bounded(ring)' /\ Bounded(overflow)'
    BY <1>o, <1>k DEF StoredInOrder, InOrder, Precedes, Bounded
<1>1. ASSUME NEW p \in Producers, PushCheck(p) PROVE OrderInv'
    <2>1. RingFirst'
        <3>1. CASE overflow # <<>>
            BY <1>1, <1>t, <3>1 DEF PushCheck, OrderInv, RingFirst, TypeInv, TypeOK
        <3>2. CASE overflow = <<>>
            BY <1>1, <3>2 DEF PushCheck, RingFirst
        <3> QED BY <3>1, <3>2
    <2> QED BY <1>1, <1>k, <1>t, <2>1 DEF PushCheck, OrderInv
<1>2. ASSUME NEW p \in Producers, PushRing(p) PROVE OrderInv'
    <2>1. ppc[p] = "ring" /\ overflow' = overflow
        BY <1>2 DEF PushRing
    <2>2. CASE ring' = ring /\ sent' = sent /\ ppc' = [ppc EXCEPT ![p] = "overflow"]
        <3>1. RingFirst'
            BY <1>t, <2>1, <2>2 DEF OrderInv, RingFirst, TypeInv, TypeOK
        <3> QED BY <1>k, <1>t, <2>1, <2>2, <3>1 DEF OrderInv
    <2>3. CASE /\ ring' = Append(ring, NextMsg(p))
               /\ sent' = [sent EXCEPT ![p] = @ + 1]
               /\ ppc' = [ppc EXCEPT ![p] = "idle"]
        <3>1. NextMsg(p) \in Message /\ NextMsg(p).from = p /\ NewerThan(NextMsg(p), ring)
            BY <1>t, <1>s, <1>o, <2>1, NextIsNewer
        <3>2. \A j \in DOMAIN overflow : overflow[j].from # NextMsg(p).from
            BY <2>1, <3>1 DEF OrderInv, RingFirst
        <3>3. InOrder(ring') /\ Precedes(ring', overflow')
            BY <1>s, <1>o, <2>1, <2>3, <3>1, <3>2, InOrderAppend, AppendPrecedes
        <3>4. StoredInOrder'
            BY <1>o, <2>1, <3>3 DEF StoredInOrder, InOrder, Precedes
        <3>5. Bounded(ring)'
            BY <1>t, <1>s, <1>o, <2>1, <2>3, BoundedAppend DEF Bounded
        <3>6. Bounded(overflow)'
            BY <1>t, <1>s, <1>o, <2>1, <2>3, BoundedGrows DEF Bounded
        <3>7. RingFirst'
            BY <1>t, <2>1, <2>3 DEF OrderInv, RingFirst, TypeInv, TypeOK
        <3> QED BY <1>t, <3>4, <3>5, <3>6, <3>7 DEF OrderInv
    <2> QED BY <1>2, <2>2, <2>3 DEF PushRing
<1>3. ASSUME NEW p \in Producers, PushOverflow(p) PROVE OrderInv'
    <2>1. /\ ppc[p] = "overflow" /\ ring' = ring
          /\ overflow' = Append(overflow, NextMsg(p))
          /\ sent' = [sent EXCEPT ![p] = @ + 1]
          /\ ppc' = [ppc EXCEPT ![p] = "idle"]
        BY <1>3 DEF PushOverflow
    <2>2. /\ NextMsg(p) \in Message /\ NextMsg(p).from = p
          /\ NewerThan(NextMsg(p), ring) /\ NewerThan(NextMsg(p), overflow)
        BY <1>t, <1>s, <1>o, <2>1, NextIsNewer
    <2>3. InOrder(overflow') /\ Precedes(ring', overflow')
        BY <1>s, <1>o, <2>1, <2>2, InOrderAppend, PrecedesAppend
    <2>4. StoredInOrder'
        BY <1>o, <2>1, <2>3 DEF StoredInOrder, InOrder, Precedes
    <2>5. Bounded(overflow)'
        BY <1>t, <1>s, <1>o, <2>1, BoundedAppend DEF Bounded
    <2>6. Bounded(ring)'
        BY <1>t, <1>s, <1>o, <2>1, BoundedGrows DEF Bounded
    <2>7. RingFirst'
        <3>1. /\ Len(overflow) \in Nat /\ DOMAIN overflow = 1..Len(overflow)
              /\ DOMAIN overflow' = 1..(Len(overflow) + 1)
              /\ \A k \in 1..Len(overflow) : overflow'[k] = overflow[k]
              /\ overflow'[Len(overflow) + 1] = NextMsg(p)
            BY <1>s, <2>1, <2>2, AppendFacts
        <3>2. ASSUME NEW q \in Producers, ppc'[q] = "ring", NEW j \in DOMAIN overflow'
              PROVE  overflow'[j].from # q
            <4>1. q # p /\ ppc[q] = "ring"
                BY <1>t, <2>1, <3>2 DEF TypeInv, TypeOK
            <4>2. CASE j \in DOMAIN overflow
                BY <3>1, <4>1, <4>2 DEF OrderInv, RingFirst
            <4>3. CASE j = Len(overflow) + 1
                BY <2>2, <3>1, <4>1, <4>3
            <4> QED BY <3>1, <4>2, <4>3
        <3> QED BY <3>2 DEF RingFirst
    <2> QED BY <1>t, <2>4, <2>5, <2>6, <2>7 DEF OrderInv
<1>4. ASSUME PopRing PROVE OrderInv'
    <2>1. CASE ring = <<>>
        <3>1. UNCHANGED <<ring, overflow, sent, ppc>>
            BY <1>4, <2>1 DEF PopRing
        <3> QED BY <1>k, <1>t, <3>1 DEF OrderInv, RingFirst
    <2>2. CASE ring # <<>>
        <3>1. ring' = Tail(ring) /\ UNCHANGED <<overflow, sent, ppc>>
            BY <1>4, <2>2 DEF PopRing
        <3>2. \A i \in DOMAIN ring' : \E k \in DOMAIN ring : ring'[i] = ring[k]
            BY <1>s, <2>2, <3>1, TailElement
        <3>3. InOrder(ring')
            BY <1>s, <1>o, <2>2, <3>1, TailInOrder
        <3>4. StoredInOrder'
            BY <1>o, <3>1, <3>2, <3>3 DEF StoredInOrder, InOrder, Precedes
        <3>5. Bounded(ring)' /\ Bounded(overflow)'
            BY <1>o, <3>1, <3>2 DEF Bounded
        <3> QED BY <1>t, <3>1, <3>4, <3>5 DEF OrderInv, RingFirst
    <2> QED BY <2>1, <2>2
<1>5. ASSUME PopOverflow PROVE OrderInv'
    <2>1. CASE overflow = <<>>
        <3>1. UNCHANGED <<ring, overflow, sent, ppc>>
            BY <1>5, <2>1 DEF PopOverflow
        <3> QED BY <1>k, <1>t, <3>1 DEF OrderInv, RingFirst
    <2>2. CASE overflow # <<>>
        <3>1. overflow' = Tail(overflow) /\ UNCHANGED <<ring, sent, ppc>>
            BY <1>5, <2>2 DEF PopOverflow
        <3>2. \A i \in DOMAIN overflow' : \E k \in DOMAIN overflow : overflow'[i] = overflow[k]
            BY <1>s, <2>2, <3>1, TailElement
        <3>3. InOrder(overflow')
            BY <1>s, <1>o, <2>2, <3>1, TailInOrder
        <3>4. StoredInOrder'
            BY <1>o, <3>1, <3>2, <3>3 DEF StoredInOrder, InOrder, Precedes
        <3>5. Bounded(ring)' /\ Bounded(overflow)'
            BY <1>o, <3>1, <3>2 DEF Bounded
        <3>6. RingFirst'
            BY <3>1, <3>2 DEF OrderInv, RingFirst
        <3> QED BY <1>t, <3>4, <3>5, <3>6 DEF OrderInv
    <2> QED BY <2>1, <2>2
<1>6. ASSUME UNCHANGED vars PROVE OrderInv'
    BY <1>6, <1>k, <1>t DEF OrderInv, RingFirst, vars
<1> QED BY <1>1, <1>2, <1>3, <1>4, <1>5, <1>6 DEF Next, Push, Pop

\* The empty channel is in order.
LEMMA OrderInit == Init => OrderInv
BY CapacityAssumption, MaxSendsAssumption
   DEF Init, OrderInv, TypeInv, TypeOK, PushHasMessage, StoredInOrder, InOrder,
       Precedes, Bounded, RingFirst

\* One producer's messages are stored in the order it sent them, ring before
\* overflow: the overflow.is_empty() test of push is enough, even though other
\* threads push and pop between the test and the push.
THEOREM StorageOrdered == Spec => []StoredInOrder
<1>1. OrderInv => StoredInOrder
    BY DEF OrderInv
<1> QED BY <1>1, OrderInit, OrderStep, PTL DEF Spec
--------------------------------------------------------------------------------
(* Every message exactly once, and the lossless channel *)

OnceInv == OrderInv /\ ExactlyOnce

\* Messages in order are all different.
LEMMA InOrderInjective ==
    ASSUME NEW s \in Seq(Message), InOrder(s)
    PROVE  IsInjective(s)
<1> SUFFICES ASSUME NEW i \in DOMAIN s, NEW j \in DOMAIN s, s[i] = s[j], i # j PROVE FALSE
    BY DEF IsInjective
<1>1. Len(s) \in Nat /\ DOMAIN s = 1..Len(s) /\ s[i] \in Message
    OBVIOUS
<1>2. s[i].seq \in Nat
    BY <1>1, MaxSendsAssumption DEF Message
<1>3. i < j \/ j < i
    BY <1>1
<1> QED BY <1>2, <1>3 DEF InOrder

\* Completing a push adds one message, the producer's next, to those sent.
LEMMA SentGrows ==
    ASSUME TypeInv, NEW p \in Producers, ppc[p] # "idle",
           sent' = [sent EXCEPT ![p] = @ + 1]
    PROVE  /\ NextMsg(p) \in Message /\ NextMsg(p) \notin SentSet
           /\ SentSet' = SentSet \cup {NextMsg(p)}
<1>1. NextMsg(p) \in Message /\ NextMsg(p).from = p /\ NextMsg(p).seq = sent[p] + 1
    BY NextMsgType DEF TypeInv, PushHasMessage, NextMsg
<1>2. sent \in [Producers -> Nat]
    BY MaxSendsAssumption DEF TypeInv, TypeOK
<1>3. NextMsg(p) \notin SentSet
    BY <1>1, <1>2 DEF SentSet
<1>4. ASSUME NEW m \in Message
      PROVE  m.seq <= sent'[m.from] <=> m.seq <= sent[m.from] \/ m = NextMsg(p)
    <2>1. m.from \in Producers /\ m.seq \in Nat
        BY MaxSendsAssumption DEF Message
    <2>2. CASE m.from # p
        BY <1>1, <1>2, <2>1, <2>2
    <2>3. CASE m.from = p
        <3>1. m.seq = sent[p] + 1 => m = NextMsg(p)
            BY <2>3 DEF Message, NextMsg
        <3> QED BY <1>1, <1>2, <2>1, <2>3, <3>1
    <2> QED BY <2>2, <2>3
<1> QED BY <1>1, <1>3, <1>4 DEF SentSet
\* What the channel holds.
Stored == Range(ring) \cup Range(overflow)

\* The three effects a step can have on what is sent, stored and received.
Stutters == Stored' = Stored /\ UNCHANGED <<sent, received>>
Sends(p) == /\ NextMsg(p) \in Message /\ NextMsg(p) \notin SentSet
            /\ sent[p] < MaxSends /\ sent' = [sent EXCEPT ![p] = @ + 1]
            /\ SentSet' = SentSet \cup {NextMsg(p)}
            /\ Stored' = Stored \cup {NextMsg(p)} /\ UNCHANGED received
Delivers(m) == /\ m \in Message /\ m \in Stored
               /\ Stored' = Stored \ {m}
               /\ received' = Append(received, m) /\ UNCHANGED sent

\* No message is in the ring and in the overflow at once.
LEMMA QueuesDisjoint == OrderInv => Range(ring) \cap Range(overflow) = {}
<1> SUFFICES ASSUME OrderInv, NEW x \in Range(ring), x \in Range(overflow) PROVE FALSE
    OBVIOUS
<1>1. PICK i \in DOMAIN ring : x = ring[i]
    BY DEF Range
<1>2. PICK j \in DOMAIN overflow : x = overflow[j]
    BY DEF Range
<1>3. x.seq < x.seq
    BY <1>1, <1>2 DEF OrderInv, StoredInOrder, Precedes
<1>4. ring \in Seq(Message)
    BY DEF OrderInv, TypeInv, TypeOK
<1>5. x \in Message
    BY <1>1, <1>4
<1>6. x.seq \in Nat
    BY <1>5, MaxSendsAssumption DEF Message
<1> QED BY <1>3, <1>6

\* A step of the channel completes a push, hands a stored message over, or does neither.
LEMMA StepShape ==
    ASSUME OrderInv, [Next]_vars
    PROVE  Stutters \/ (\E p \in Producers : Sends(p)) \/ (\E m \in Stored : Delivers(m))
<1>t. /\ TypeInv /\ ring \in Seq(Message) /\ overflow \in Seq(Message)
      /\ InOrder(ring) /\ InOrder(overflow)
    BY DEF OrderInv, TypeInv, TypeOK, StoredInOrder
<1>d. Range(ring) \cap Range(overflow) = {}
    BY QueuesDisjoint
<1>1. ASSUME NEW p \in Producers, PushCheck(p) PROVE Stutters
    BY <1>1 DEF PushCheck, Stutters, Stored, Range
<1>2. ASSUME NEW p \in Producers, PushRing(p) PROVE Stutters \/ Sends(p)
    <2>1. CASE ring' = ring /\ sent' = sent
        BY <1>2, <2>1 DEF PushRing, Stutters, Stored, Range
    <2>2. CASE ring' = Append(ring, NextMsg(p)) /\ sent' = [sent EXCEPT ![p] = @ + 1]
        <3>1. ppc[p] = "ring" /\ UNCHANGED <<overflow, received>>
            BY <1>2 DEF PushRing
        <3>2. /\ NextMsg(p) \in Message /\ NextMsg(p) \notin SentSet
              /\ SentSet' = SentSet \cup {NextMsg(p)}
            BY <1>t, <2>2, <3>1, SentGrows
        <3>3. Range(ring') = Range(ring) \cup {NextMsg(p)}
            BY <1>t, <2>2, <3>2, RangeAppend
        <3>4. Stored' = Stored \cup {NextMsg(p)}
            BY <3>1, <3>3 DEF Stored, Range
        <3>5. sent[p] < MaxSends
            BY <1>t, <3>1 DEF TypeInv, PushHasMessage
        <3> QED BY <2>2, <3>1, <3>2, <3>4, <3>5 DEF Sends
    <2> QED BY <1>2, <2>1, <2>2 DEF PushRing
<1>3. ASSUME NEW p \in Producers, PushOverflow(p) PROVE Sends(p)
    <2>1. /\ ppc[p] = "overflow" /\ UNCHANGED <<ring, received>>
          /\ overflow' = Append(overflow, NextMsg(p)) /\ sent' = [sent EXCEPT ![p] = @ + 1]
        BY <1>3 DEF PushOverflow
    <2>2. /\ NextMsg(p) \in Message /\ NextMsg(p) \notin SentSet
          /\ SentSet' = SentSet \cup {NextMsg(p)}
        BY <1>t, <2>1, SentGrows
    <2>3. Range(overflow') = Range(overflow) \cup {NextMsg(p)}
        BY <1>t, <2>1, <2>2, RangeAppend
    <2>4. Stored' = Stored \cup {NextMsg(p)}
        BY <2>1, <2>3 DEF Stored, Range
    <2>5. sent[p] < MaxSends
        BY <1>t, <2>1 DEF TypeInv, PushHasMessage
    <2> QED BY <2>1, <2>2, <2>4, <2>5 DEF Sends
<1>4. ASSUME PopRing PROVE Stutters \/ \E m \in Stored : Delivers(m)
    <2>1. CASE ring = <<>>
        BY <1>4, <2>1 DEF PopRing, Stutters, Stored, Range
    <2>2. CASE ring # <<>>
        <3>1. /\ ring' = Tail(ring) /\ received' = Append(received, Head(ring))
              /\ UNCHANGED <<overflow, sent>>
            BY <1>4, <2>2 DEF PopRing
        <3>2. /\ Head(ring) \in Range(ring) /\ Head(ring) \in Message
              /\ Range(ring') = Range(ring) \ {Head(ring)}
            BY <1>t, <2>2, <3>1, InOrderInjective, RangeTail
        <3>3. Range(ring)' = Range(ring') /\ Range(overflow)' = Range(overflow)
            BY <3>1 DEF Range
        <3>4. Stored' = Stored \ {Head(ring)} /\ Head(ring) \in Stored
            BY <1>d, <3>2, <3>3 DEF Stored
        <3>5. Delivers(Head(ring))
            BY <3>1, <3>2, <3>4 DEF Delivers
        <3> QED BY <3>4, <3>5
    <2> QED BY <2>1, <2>2
<1>5. ASSUME PopOverflow PROVE Stutters \/ \E m \in Stored : Delivers(m)
    <2>1. CASE overflow = <<>>
        BY <1>5, <2>1 DEF PopOverflow, Stutters, Stored, Range
    <2>2. CASE overflow # <<>>
        <3>1. /\ overflow' = Tail(overflow) /\ received' = Append(received, Head(overflow))
              /\ UNCHANGED <<ring, sent>>
            BY <1>5, <2>2 DEF PopOverflow
        <3>2. /\ Head(overflow) \in Range(overflow) /\ Head(overflow) \in Message
              /\ Range(overflow') = Range(overflow) \ {Head(overflow)}
            BY <1>t, <2>2, <3>1, InOrderInjective, RangeTail
        <3>3. Range(ring)' = Range(ring) /\ Range(overflow)' = Range(overflow')
            BY <3>1 DEF Range
        <3>4. Stored' = Stored \ {Head(overflow)} /\ Head(overflow) \in Stored
            BY <1>d, <3>2, <3>3 DEF Stored
        <3>5. Delivers(Head(overflow))
            BY <3>1, <3>2, <3>4 DEF Delivers
        <3> QED BY <3>4, <3>5
    <2> QED BY <2>1, <2>2
<1>6. ASSUME UNCHANGED vars PROVE Stutters
    BY <1>6 DEF vars, Stutters, Stored, Range
<1> QED BY <1>1, <1>2, <1>3, <1>4, <1>5, <1>6 DEF Next, Push, Pop

\* Every access of push and pop keeps each message in one place.
LEMMA OnceStep == OnceInv /\ [Next]_vars => OnceInv'
<1> SUFFICES ASSUME OnceInv, [Next]_vars PROVE OnceInv'
    OBVIOUS
<1>1. OrderInv /\ OrderInv'
    BY OrderStep DEF OnceInv
<1>2. (Range(ring) \cap Range(overflow) = {})'
    BY <1>1, QueuesDisjoint, PTL
<1>3. /\ Stored \cup Range(received) = SentSet /\ Stored \cap Range(received) = {}
      /\ IsInjective(received)
    BY DEF OnceInv, ExactlyOnce, Stored
<1>4. received \in Seq(Message)
    BY <1>1 DEF OrderInv, TypeInv, TypeOK
<1> DEFINE Accounted == /\ (Stored \cup Range(received) = SentSet)'
                        /\ (Stored \cap Range(received) = {})'
                        /\ IsInjective(received)'
<1>5. Accounted
    <2>1. CASE Stutters
        BY <1>3, <2>1 DEF Stutters, SentSet, Range, IsInjective
    <2>2. ASSUME NEW p \in Producers, Sends(p) PROVE Accounted
        <3>1. Range(received)' = Range(received) /\ received' = received
            BY <2>2 DEF Sends, Range
        <3>2. /\ SentSet' = SentSet \cup {NextMsg(p)} /\ NextMsg(p) \notin SentSet
              /\ Stored' = Stored \cup {NextMsg(p)}
            BY <2>2 DEF Sends
        <3>3. IsInjective(received)'
            BY <1>3, <3>1 DEF IsInjective
        <3> QED BY <1>3, <3>1, <3>2, <3>3
    <2>3. ASSUME NEW m \in Stored, Delivers(m) PROVE Accounted
        <3>1. /\ m \in Message /\ Stored' = Stored \ {m}
              /\ received' = Append(received, m) /\ sent' = sent
            BY <2>3 DEF Delivers
        <3>2. SentSet' = SentSet
            BY <3>1 DEF SentSet
        <3>3. Range(received') = Range(received) \cup {m}
            BY <1>4, <3>1, RangeAppend
        <3>4. Range(received)' = Range(received')
            BY DEF Range
        <3>5. IsInjective(received')
            BY <1>3, <1>4, <2>3, <3>1, RangeAppend
        <3>6. IsInjective(received)'
            BY <3>5 DEF IsInjective
        <3> QED BY <1>3, <2>3, <3>1, <3>2, <3>3, <3>4, <3>6
    <2> HIDE DEF Accounted
    <2> QED BY <1>1, <2>1, <2>2, <2>3, StepShape
<1> QED BY <1>1, <1>2, <1>5 DEF OnceInv, ExactlyOnce, Stored

\* The empty channel holds nothing and has handed over nothing.
LEMMA OnceInit == Init => OnceInv
BY OrderInit, MaxSendsAssumption DEF Init, OnceInv, ExactlyOnce, Range, IsInjective, SentSet, Message

\* No message is lost and none is handed over twice, whatever the interleaving of
\* the producers' checks and pushes with the consumer's pops.
THEOREM DeliveredExactlyOnce == Spec => []ExactlyOnce
<1>1. OnceInv => ExactlyOnce
    BY DEF OnceInv
<1> QED BY <1>1, OnceInit, OnceStep, PTL DEF Spec

\* The channel implements the lossless channel: a push that completes is a Send, a
\* pop that returns a value is a Deliver, every other step is a stutter.
THEOREM Refinement == Spec => ImplementsLossless
<1>1. Init => Abstract!Init
    BY DEF Init, Abstract!Init, Range
<1>2. OnceInv /\ [Next]_vars => [Abstract!Next]_(Abstract!vars)
    <2> SUFFICES ASSUME OnceInv, [Next]_vars PROVE [Abstract!Next]_(Abstract!vars)
        OBVIOUS
    <2>1. OrderInv /\ Stored \cap Range(received) = {}
        BY DEF OnceInv, ExactlyOnce, Stored
    <2>2. CASE Stutters
        BY <2>2 DEF Stutters, Stored, Abstract!vars, Range
    <2>3. ASSUME NEW p \in Producers, Sends(p) PROVE Abstract!Send(p)
        <3>1. Range(received)' = Range(received)
            BY <2>3 DEF Sends, Range
        <3> QED BY <2>3, <3>1 DEF Sends, Stored, NextMsg, Abstract!Send
    <2>4. ASSUME NEW m \in Stored, Delivers(m) PROVE Abstract!Deliver(m)
        <3>1. received \in Seq(Message)
            BY <2>1 DEF OrderInv, TypeInv, TypeOK
        <3>2. Range(received') = Range(received) \cup {m}
            BY <2>4, <3>1, RangeAppend DEF Delivers
        <3>3. Range(received)' = Range(received')
            BY DEF Range
        <3> QED BY <2>1, <2>4, <3>2, <3>3 DEF Delivers, Stored, Abstract!Deliver
    <2> QED BY <2>1, <2>2, <2>3, <2>4, StepShape DEF Abstract!Next, Stored
<1> QED BY <1>1, <1>2, OnceInit, OnceStep, PTL DEF Spec, ImplementsLossless, Abstract!Spec
--------------------------------------------------------------------------------
(* Every step of the inbox is a step of the channel or leaves it alone *)

\* A step of the inbox is a step of its channel or leaves the channel alone.
LEMMA InboxStepIsChannelStep == [InboxNext]_inboxVars => [Next]_vars
BY DEF InboxNext, Poll, PollReady, PollRingEmpty, PollNone, Register, Repoll,
       InboxPush, Wake, Next, Pop, inboxVars

\* AsyncInboxQueue adds nothing to HybridChannel but the wake protocol.
THEOREM InboxIsChannel == InboxSpec => Spec
<1>1. InboxInit => Init
    BY DEF InboxInit
<1> QED BY <1>1, InboxStepIsChannelStep, PTL DEF InboxSpec, Spec

\* An inbox hands over every message exactly once.
THEOREM InboxExactlyOnce == InboxSpec => []ExactlyOnce
BY InboxIsChannel, DeliveredExactlyOnce, PTL

\* An inbox stores each sender's messages in order.
THEOREM InboxStorageOrdered == InboxSpec => []StoredInOrder
BY InboxIsChannel, StorageOrdered, PTL

\* An inbox implements the lossless channel.
THEOREM InboxRefinement == InboxSpec => ImplementsLossless
BY InboxIsChannel, Refinement, PTL

--------------------------------------------------------------------------------
(* The wake protocol *)

HasStored == ring # <<>> \/ overflow # <<>>

\* While the task has not been woken since its poll began: once it has registered,
\* its waker stays registered; whatever arrived after its second look at the ring,
\* or after it parked, comes from a producer that has still to call wake.
WakeInv ==
    /\ TypeInv /\ InboxTypeOK
    /\ tpc \in {"register", "parked"} => cpc = "idle"
    /\ tpc \in {"second", "parked"} /\ ~woken => waker
    /\ tpc = "second" /\ cpc = "overflow" /\ ~woken /\ ring # <<>> => waking # {}
    /\ tpc = "parked" /\ ~woken /\ HasStored => waking # {}

\* A push either stores its message, and owes a wake, or changes neither queue.
LEMMA PushOwesWake ==
    ASSUME WakeInv, NEW p \in Producers, InboxPush(p)
    PROVE  /\ waking' \subseteq Producers /\ waking \subseteq waking'
           /\ \/ waking' # {}
              \/ ring' = ring /\ overflow' = overflow
           /\ UNCHANGED <<waker, woken, tpc, cpc>>
<1>1. waking \subseteq Producers /\ sent \in [Producers -> Nat]
    BY MaxSendsAssumption DEF WakeInv, InboxTypeOK, TypeOK
<1>2. /\ waking' = IF sent'[p] # sent[p] THEN waking \cup {p} ELSE waking
      /\ UNCHANGED <<waker, woken, tpc>> /\ Push(p)
    BY DEF InboxPush
<1>3. waking' \subseteq Producers /\ waking \subseteq waking'
    BY <1>1, <1>2
<1>4. CASE PushCheck(p)
    BY <1>2, <1>3, <1>4 DEF PushCheck
<1>5. ASSUME sent' = [sent EXCEPT ![p] = @ + 1], UNCHANGED cpc
      PROVE  waking' # {} /\ UNCHANGED <<waker, woken, tpc, cpc>>
    <2>1. sent'[p] # sent[p]
        BY <1>1, <1>5
    <2> QED BY <1>2, <1>5, <2>1
<1>6. CASE PushRing(p)
    BY <1>2, <1>3, <1>5, <1>6 DEF PushRing
<1>7. CASE PushOverflow(p)
    BY <1>3, <1>5, <1>7 DEF PushOverflow
<1> QED BY <1>2, <1>4, <1>6, <1>7 DEF Push

\* Every step of push, wake and poll_pop keeps the wake protocol invariant.
LEMMA WakeStep == WakeInv /\ [InboxNext]_inboxVars => WakeInv'
<1> SUFFICES ASSUME WakeInv, [InboxNext]_inboxVars PROVE WakeInv'
    OBVIOUS
<1>t. TypeInv' /\ TypeOK'
    BY InboxStepIsChannelStep, TypeStep DEF WakeInv, TypeInv
<1>1. ASSUME NEW p \in Producers, InboxPush(p) PROVE WakeInv'
    BY <1>t, <1>1, PushOwesWake DEF WakeInv, InboxTypeOK, HasStored
<1>2. ASSUME NEW p \in Producers, Wake(p) PROVE WakeInv'
    BY <1>t, <1>2 DEF WakeInv, InboxTypeOK, HasStored, Wake, vars
<1>3. ASSUME PollReady PROVE WakeInv'
    BY <1>t, <1>3 DEF WakeInv, InboxTypeOK, PollReady
<1>4. ASSUME PollRingEmpty PROVE WakeInv'
    BY <1>t, <1>4 DEF WakeInv, InboxTypeOK, HasStored, PollRingEmpty, PopRing
<1>5. ASSUME PollNone PROVE WakeInv'
    BY <1>t, <1>5 DEF WakeInv, InboxTypeOK, HasStored, PollNone, PopOverflow
<1>6. ASSUME Register PROVE WakeInv'
    BY <1>t, <1>6 DEF WakeInv, InboxTypeOK, HasStored, Register, vars
<1>7. ASSUME Repoll PROVE WakeInv'
    BY <1>t, <1>7 DEF WakeInv, InboxTypeOK, HasStored, Repoll, vars
<1>8. ASSUME UNCHANGED inboxVars PROVE WakeInv'
    BY <1>t, <1>8 DEF WakeInv, InboxTypeOK, HasStored, inboxVars, vars
<1> QED BY <1>1, <1>2, <1>3, <1>4, <1>5, <1>6, <1>7, <1>8 DEF InboxNext, Poll

\* The wake protocol starts in its invariant.
LEMMA WakeInit == InboxInit => WakeInv
<1>1. Init => TypeInv /\ TypeOK /\ cpc = "idle"
    BY CapacityAssumption, MaxSendsAssumption DEF Init, TypeInv, TypeOK, PushHasMessage
<1> QED BY <1>1 DEF InboxInit, WakeInv, InboxTypeOK, HasStored

\* The state of the inbox always has its declared shape.
THEOREM InboxTypeCorrect == InboxSpec => []InboxTypeOK
<1>1. WakeInv => InboxTypeOK
    BY DEF WakeInv
<1> QED BY <1>1, WakeInit, WakeStep, PTL DEF InboxSpec

\* A parked receiver with a message stored is about to be woken, for any number of
\* senders: registering before the second look closes the race of poll_pop.
THEOREM WakeupsAreNotLost == InboxSpec => []NoLostWakeup
<1>1. WakeInv => NoLostWakeup
    BY DEF WakeInv, NoLostWakeup, HasStored
<1> QED BY <1>1, WakeInit, WakeStep, PTL DEF InboxSpec
================================================================================
