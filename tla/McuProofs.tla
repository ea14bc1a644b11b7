------------------------------ MODULE McuProofs ------------------------------
(***************************************************************************)
(* Proofs about Mcu, for every set of messages, of synchronous and of      *)
(* retried ones, every number of tries, range of sequence numbers, and     *)
(* however often the ring is full and the in-band flag goes off.           *)
(***************************************************************************)
EXTENDS Mcu, SequenceTheorems, TLAPS

(* A thread between AndesDequeueCmdMsg() and the ring has a message in its *)
(* hands, and no message is in the hands of two.                           *)
Hands ==
    /\ \A t \in Msgs : hold[t] \in Msgs <=> pc[t] \in {"fill", "kick", "write"}
    /\ \A t, u \in Msgs : hold[t] = hold[u] /\ hold[t] \in Msgs => t = u

(* No message is linked twice.                                             *)
Once(q) == \A i, j \in 1 .. Len(q) : q[i] = q[j] => i = j

Taken(m) == \E t \in Msgs : Carrying(t, m)

(* A message still has to go to the ring.                                  *)
Waiting(m) == m \in Members(txq) \/ Taken(m)

(* A message is in one place only.  What a thread has put on the ring, and *)
(* holds until it has written the ring's index, is on another queue by     *)
(* then, or back from it.                                                  *)
Apart ==
    /\ Once(txq) /\ Once(ackq) /\ Once(doneq)
    /\ Members(ackq) \subseteq Sync
    /\ \A m \in Members(txq) : ~ Carried(m)
    /\ \A m \in Msgs : Waiting(m) => m \notin Members(ackq) \cup Members(doneq)
    /\ \A m \in Members(ackq) : m \notin Members(doneq)

(* Where a message can be, for each place of its thread.                   *)
Fresh == \A m \in Msgs : pc[m] = "start" =>
    /\ msg[m].seq = 0 /\ msg[m].live /\ msg[m].pkt /\ ~ msg[m].acked
    /\ ~ Carried(m) /\ ~ Waiting(m) /\ m \notin Members(ackq) /\ m \notin Members(doneq)
Asleep == \A m \in Msgs : pc[m] \in {"wait", "woken", "late"} =>
    m \in Sync /\ m \notin Members(txq)
Awake == \A m \in Msgs :
    /\ pc[m] \in {"woken", "late"} => ~ Taken(m)
    /\ pc[m] = "late" => ~ Carried(m)
Finished == \A m \in Members(doneq) : m \in Sync => pc[m] = "done"
Unanswered == \A m \in Members(ackq) : msg[m].state = "wait_ack" \/ (pc[m] = "done" /\ ~ up)
Threads == Fresh /\ Asleep /\ Awake /\ Finished /\ Unanswered

(* A message that still has to go to the ring has its packet, and nobody   *)
(* has completed it; the copy is there for a message that may be sent      *)
(* again; a message that has been freed has nothing.                       *)
Packed == \A m \in Msgs : Waiting(m) => msg[m].pkt /\ ~ msg[m].acked
CopyKept == \A m \in Msgs :
    up /\ pc[m] # "start" /\ msg[m].retry > 1 => Waiting(m) \/ msg[m].copy
CopyMade == \A t \in Msgs : pc[t] = "kick" /\ msg[hold[t]].retry > 1 => msg[hold[t]].copy
Empty == \A m \in Msgs : ~ msg[m].live => msg[m].retry = 0 /\ msg[m].seq = 0 /\ ~ msg[m].pkt
Packets == Packed /\ CopyKept /\ CopyMade /\ Empty

Unloading == up <=> exit = "running"

(* Until it is through with it, the thread of a message that waits to be   *)
(* sent is there.                                                          *)
Awaited == Healthy => \A m \in Sync : Waiting(m) => pc[m] # "done"

(* While no number has come round too early, commands on their way have    *)
(* different numbers, and what the firmware has not answered has the number*)
(* of the command it was.                                                  *)
Active(m) == Carried(m) \/ m \notin Members(doneq)
Different == up /\ ~ reused =>
    \A m, k \in Msgs :
        Active(m) /\ Active(k) /\ msg[m].seq = msg[k].seq /\ msg[m].seq # 0 => m = k
Own == up /\ ~ reused =>
    \A c \in fw, m \in Msgs : Active(m) /\ msg[m].seq = c.seq /\ c.seq # 0 => m = c.m
Numbers == Different /\ Own

IInv ==
    /\ TypeOK /\ Hands /\ Apart /\ Threads /\ Packets /\ Unloading
    /\ Awaited /\ Numbers /\ NoDangling /\ NoLateAnswer

-----------------------------------------------------------------------------
(* Queues: what the list operations do to the members of a list in which   *)
(* no message is linked twice.                                             *)
LEMMA EmptyQueue == Members(<<>>) = {} /\ Once(<<>>) /\ <<>> \in Seq(Msgs)
  BY DEF Members, Once

LEMMA MembersTyped ==
    ASSUME NEW q \in Seq(Msgs) PROVE Members(q) \subseteq Msgs /\ (q # <<>> => Members(q) # {})
  BY DEF Members

LEMMA QueueTail ==
    ASSUME NEW q \in Seq(Msgs), Once(q), NEW m \in Msgs, m \notin Members(q)
    PROVE  /\ Append(q, m) \in Seq(Msgs) /\ Once(Append(q, m))
           /\ Members(Append(q, m)) = Members(q) \cup {m}
<1> DEFINE r == Append(q, m)
<1>1. /\ r \in Seq(Msgs) /\ Len(r) = Len(q) + 1 /\ Len(q) \in Nat
      /\ \A i \in 1 .. Len(q) : r[i] = q[i]
      /\ r[Len(q) + 1] = m
  BY AppendProperties, LenProperties
<1>2. \A i \in 1 .. Len(r) : r[i] = m \/ (i \in 1 .. Len(q) /\ r[i] = q[i])
  BY <1>1
<1> HIDE DEF r
<1>3. Members(r) = Members(q) \cup {m}
  BY <1>1, <1>2 DEF Members
<1>4. Once(r)
  BY <1>1, <1>2 DEF Once, Members
<1> QED
  BY <1>1, <1>3, <1>4 DEF r

LEMMA QueueHead ==
    ASSUME NEW q \in Seq(Msgs), Once(q), NEW m \in Msgs, m \notin Members(q)
    PROVE  /\ <<m>> \o q \in Seq(Msgs) /\ Once(<<m>> \o q)
           /\ Members(<<m>> \o q) = Members(q) \cup {m}
<1> DEFINE r == <<m>> \o q
<1>1. <<m>> \in Seq(Msgs) /\ Len(<<m>>) = 1 /\ <<m>>[1] = m
  OBVIOUS
<1>2. /\ r \in Seq(Msgs) /\ Len(r) = 1 + Len(q) /\ Len(q) \in Nat
      /\ \A i \in 1 .. Len(r) : r[i] = IF i = 1 THEN m ELSE q[i - 1]
  BY <1>1, ConcatProperties, LenProperties
<1> HIDE DEF r
<1>3. r[1] = m /\ \A i \in 1 .. Len(q) : r[i + 1] = q[i]
  BY <1>2
<1>4. Members(r) = Members(q) \cup {m}
  <2>1. ASSUME NEW x \in Members(r) PROVE x \in Members(q) \cup {m}
    BY <1>2, <2>1 DEF Members
  <2>2. ASSUME NEW x \in Members(q) PROVE x \in Members(r)
    <3>1. PICK i \in 1 .. Len(q) : x = q[i]
      BY DEF Members
    <3>2. i + 1 \in 1 .. Len(r) /\ r[i + 1] = x
      BY <1>2, <1>3, <3>1
    <3> QED
      BY <3>2 DEF Members
  <2>3. m \in Members(r)
    BY <1>2, <1>3 DEF Members
  <2> QED
    BY <2>1, <2>2, <2>3
<1>5. Once(r)
  <2> SUFFICES ASSUME NEW i \in 1 .. Len(r), NEW j \in 1 .. Len(r), r[i] = r[j] PROVE i = j
    BY DEF Once
  <2>1. \A k \in 1 .. Len(r) : k # 1 => k - 1 \in 1 .. Len(q) /\ r[k] = q[k - 1] /\ q[k - 1] # m
    BY <1>2 DEF Members
  <2>2. CASE i = 1 \/ j = 1
    BY <1>3, <2>1, <2>2
  <2>3. CASE i # 1 /\ j # 1
    <3>1. i - 1 \in 1 .. Len(q) /\ j - 1 \in 1 .. Len(q) /\ q[i - 1] = q[j - 1]
      BY <2>1, <2>3
    <3>2. i - 1 = j - 1
      BY <3>1 DEF Once
    <3> QED
      BY <3>2
  <2> QED
    BY <2>2, <2>3
<1> QED
  BY <1>2, <1>4, <1>5 DEF r

LEMMA QueueRest ==
    ASSUME NEW q \in Seq(Msgs), Once(q), q # <<>>
    PROVE  /\ Tail(q) \in Seq(Msgs) /\ Once(Tail(q)) /\ Head(q) \in Members(q)
           /\ Members(Tail(q)) = Members(q) \ {Head(q)}
<1>1. /\ Tail(q) \in Seq(Msgs) /\ Len(q) \in Nat \ {0} /\ Len(Tail(q)) = Len(q) - 1
      /\ \A i \in 1 .. Len(Tail(q)) : Tail(q)[i] = q[i + 1]
  BY HeadTailProperties, EmptySeq
<1>2. Head(q) = q[1]
  OBVIOUS
<1>3. Members(Tail(q)) = Members(q) \ {Head(q)}
  <2>1. ASSUME NEW x \in Members(Tail(q)) PROVE x \in Members(q) \ {Head(q)}
    BY <1>1, <1>2, <2>1 DEF Members, Once
  <2>2. ASSUME NEW x \in Members(q) \ {Head(q)} PROVE x \in Members(Tail(q))
    <3>1. PICK i \in 1 .. Len(q) : x = q[i]
      BY DEF Members
    <3>2. i # 1 /\ i - 1 \in 1 .. Len(Tail(q)) /\ Tail(q)[i - 1] = x
      BY <1>1, <1>2, <2>2, <3>1
    <3> QED
      BY <3>2 DEF Members
  <2> QED
    BY <2>1, <2>2
<1> QED
  BY <1>1, <1>2, <1>3 DEF Once, Members

LEMMA QueueUnlink ==
    ASSUME NEW q \in Seq(Msgs), Once(q), NEW m
    PROVE  /\ Unlink(q, m) \in Seq(Msgs) /\ Once(Unlink(q, m))
           /\ Members(Unlink(q, m)) = Members(q) \ {m}
<1>1. CASE m \notin Members(q)
  BY <1>1 DEF Unlink
<1>2. CASE m \in Members(q)
  <2> DEFINE p == Place(q, m)
             a == SubSeq(q, 1, p - 1)
             b == SubSeq(q, p + 1, Len(q))
             r == a \o b
  <2>1. p \in 1 .. Len(q) /\ q[p] = m /\ Len(q) \in Nat
    BY <1>2, LenProperties DEF Members, Place
  <2> HIDE DEF p
  <2>2. \A i \in 1 .. Len(q) : q[i] \in Msgs
    BY ElementOfSeq
  <2>3. /\ a \in Seq(Msgs) /\ Len(a) = p - 1 /\ \A i \in 1 .. p - 1 : a[i] = q[i]
    <3>1. \A i \in 1 .. p - 1 : q[i] \in Msgs
      BY <2>1, <2>2
    <3> QED
      BY <2>1, <3>1, SubSeqProperties
  <2>4. /\ b \in Seq(Msgs) /\ Len(b) = Len(q) - p
        /\ \A i \in 1 .. Len(q) - p : b[i] = q[p + i]
    <3>1. \A i \in p + 1 .. Len(q) : q[i] \in Msgs
      BY <2>1, <2>2
    <3>2. /\ b \in Seq(Msgs) /\ Len(b) = IF p + 1 <= Len(q) THEN Len(q) - (p + 1) + 1 ELSE 0
          /\ \A i \in 1 .. Len(q) - (p + 1) + 1 : b[i] = q[(p + 1) + i - 1]
      BY <2>1, <3>1, SubSeqProperties
    <3> HIDE DEF b
    <3> QED
      BY <2>1, <3>2
  <2>5. /\ r \in Seq(Msgs) /\ Len(r) = Len(q) - 1
        /\ \A i \in 1 .. Len(r) : r[i] = IF i < p THEN q[i] ELSE q[i + 1]
    <3> HIDE DEF a, b
    <3>1. /\ r \in Seq(Msgs) /\ Len(r) = Len(a) + Len(b)
          /\ \A i \in 1 .. Len(a) + Len(b) : r[i] = IF i <= Len(a) THEN a[i] ELSE b[i - Len(a)]
      BY <2>3, <2>4, ConcatProperties
    <3> HIDE DEF r
    <3>2. Len(r) = Len(q) - 1
      BY <2>1, <2>3, <2>4, <3>1
    <3>3. ASSUME NEW i \in 1 .. Len(r) PROVE r[i] = IF i < p THEN q[i] ELSE q[i + 1]
      <4>1. CASE i < p
        BY <2>1, <2>3, <2>4, <3>1, <3>2, <4>1
      <4>2. CASE i >= p
        <5>1. i - Len(a) \in 1 .. Len(q) - p /\ p + (i - Len(a)) = i + 1 /\ ~ (i <= Len(a))
          BY <2>1, <2>3, <3>2, <4>2
        <5>2. r[i] = b[i - Len(a)]
          BY <2>3, <2>4, <3>1, <3>2, <5>1
        <5>3. b[i - Len(a)] = q[p + (i - Len(a))]
          BY <2>4, <5>1
        <5> QED
          BY <2>1, <4>2, <5>1, <5>2, <5>3
      <4> QED
        BY <2>1, <4>1, <4>2
    <3> QED
      BY <3>1, <3>2, <3>3
  <2>6. Unlink(q, m) = r
    BY <1>2 DEF Unlink, p
  <2> HIDE DEF r
  <2>7. ASSUME NEW x \in Members(r) PROVE x \in Members(q) \ {m}
    BY <2>1, <2>5, <2>7 DEF Members, Once
  <2>8. ASSUME NEW x \in Members(q) \ {m} PROVE x \in Members(r)
    <3>1. PICK i \in 1 .. Len(q) : x = q[i]
      BY DEF Members
    <3>2. i # p
      BY <2>1, <2>8, <3>1
    <3>3. CASE i < p
      <4>1. i \in 1 .. Len(r) /\ r[i] = x
        BY <2>1, <2>5, <3>1, <3>3
      <4> QED
        BY <4>1 DEF Members
    <3>4. CASE i > p
      <4>1. i - 1 \in 1 .. Len(r) /\ r[i - 1] = x
        BY <2>1, <2>5, <3>1, <3>4
      <4> QED
        BY <4>1 DEF Members
    <3> QED
      BY <2>1, <3>1, <3>2, <3>3, <3>4
  <2>9. Once(r)
    <3> SUFFICES ASSUME NEW i \in 1 .. Len(r), NEW j \in 1 .. Len(r), r[i] = r[j] PROVE i = j
      BY DEF Once
    <3>1. (IF i < p THEN i ELSE i + 1) = (IF j < p THEN j ELSE j + 1)
      BY <2>1, <2>5 DEF Once
    <3> QED
      BY <2>1, <3>1
  <2> QED
    BY <2>5, <2>6, <2>7, <2>8, <2>9
<1> QED
  BY <1>1, <1>2
-----------------------------------------------------------------------------
LEMMA NoTries == 0 \in 0 .. Tries
  BY MsgsAssumption

LEMMA FreedMessage ==
    /\ Freed \in Message
    /\ Freed.seq = 0 /\ Freed.retry = 0 /\ ~ Freed.live
     /\ ~ Freed.acked /\ ~ Freed.pkt /\ ~ Freed.copy
  BY MsgsAssumption DEF Freed, Message

(* A step that gives no number and no command to the firmware leaves the   *)
(* numbers as they are.                                                    *)
LEMMA NumbersStay ==
    ASSUME Numbers, up' => up, reused => reused', fw' \subseteq fw,
           \A k \in Msgs : Active(k)' /\ msg'[k].seq # 0 => Active(k) /\ msg'[k].seq = msg[k].seq
    PROVE  Numbers'
<1>1. Different'
  BY DEF Numbers, Different
<1>2. Own'
  BY DEF Numbers, Own
<1> QED
  BY <1>1, <1>2 DEF Numbers

LEMMA Fields ==
    ASSUME TypeOK, NEW m \in Msgs
    PROVE  /\ msg[m] \in Message
           /\ msg[m].state \in {"illegal", "tx_start", "tx_retransmit", "wait_ack", "tx_done"}
           /\ msg[m].seq \in 0 .. SeqMax /\ msg[m].live \in BOOLEAN /\ msg[m].acked \in BOOLEAN
           /\ msg[m].retry \in 0 .. Tries /\ msg[m].pkt \in BOOLEAN /\ msg[m].copy \in BOOLEAN
           /\ 0 \in 0 .. Tries
  BY MsgsAssumption DEF TypeOK, Message

-----------------------------------------------------------------------------
(* AndesSendCmdMsg() queues a new command or starts to send it itself.     *)
LEMMA SendKeeps ==
  ASSUME IInv, NEW t \in Msgs, Send(t) PROVE IInv'
<1>1. txq' \in Seq(Msgs) /\ Once(txq') /\ Members(txq') = Members(txq) \cup {t}
  BY QueueTail DEF IInv, TypeOK, Apart, Threads, Fresh, Waiting, Send
<1>2. msg' \in [Msgs -> Message] /\ \A k \in Msgs : k # t => msg'[k] = msg[k]
  <2>1. \A r \in Message : [r EXCEPT !.state = "tx_start"] \in Message
    BY DEF Message
  <2>2. /\ msg[t] \in Message
        /\ msg' = [msg EXCEPT ![t] = [msg[t] EXCEPT !.state = "tx_start"]]
    BY DEF IInv, TypeOK, Set, Send
  <2> HIDE DEF Message
  <2> QED
    BY <2>1, <2>2 DEF IInv, TypeOK
<1>3. /\ msg'[t].state = ("tx_start")
      /\ msg'[t].seq = msg[t].seq
      /\ msg'[t].live = msg[t].live
      /\ msg'[t].acked = msg[t].acked
      /\ msg'[t].retry = msg[t].retry
      /\ msg'[t].pkt = msg[t].pkt
      /\ msg'[t].copy = msg[t].copy
  BY DEF IInv, TypeOK, Message, Set, Send
<1>4. /\ pc[t] = "start" /\ inband /\ pc' = [pc EXCEPT ![t] = "loop"]
      /\ UNCHANGED <<hold, ackq, doneq, bh, device>>
  BY DEF Send, Goto
<1>5. Members(txq) \subseteq Msgs /\ Members(ackq) \subseteq Msgs /\ Members(doneq) \subseteq Msgs
  BY MembersTyped DEF IInv, TypeOK
<1>6. TypeOK'
  BY <1>1, <1>2, <1>4 DEF IInv, TypeOK, Pcs, device
<1>7. Hands'
  BY <1>4 DEF IInv, Hands
<1>8. Apart'
  BY <1>1, <1>4 DEF IInv, Apart, Carried, Waiting, Taken, Carrying, Threads, Fresh
<1>9. Threads'
  <2>1. Fresh'
    BY <1>1, <1>2, <1>4 DEF IInv, TypeOK, Threads, Fresh, Carried, Waiting, Taken, Carrying
  <2>2. Asleep'
    BY <1>1, <1>4 DEF IInv, Threads, Asleep
  <2>3. Awake'
    BY <1>4 DEF IInv, Threads, Awake, Carried, Taken, Carrying
  <2>4. Finished'
    BY <1>4 DEF IInv, Threads, Finished
  <2>5. Unanswered'
    BY <1>2, <1>4, <1>5 DEF IInv, Threads, Unanswered, Fresh, device
  <2> QED
    BY <2>1, <2>2, <2>3, <2>4, <2>5 DEF Threads
<1>10. Packets'
  <2>1. Packed'
    BY <1>1, <1>2, <1>3, <1>4
       DEF IInv, Packets, Packed, Waiting, Taken, Carrying, Threads, Fresh
  <2>2. CopyKept'
    BY <1>1, <1>2, <1>4 DEF IInv, Packets, CopyKept, Waiting, Taken, Carrying, device
  <2>3. CopyMade'
    BY <1>2, <1>3, <1>4 DEF IInv, Hands, Packets, CopyMade
  <2>4. Empty'
    BY <1>2, <1>3 DEF IInv, Packets, Empty
  <2> QED
    BY <2>1, <2>2, <2>3, <2>4 DEF Packets
<1>11. Unloading'
  BY <1>4 DEF IInv, Unloading, device
<1>12. Awaited'
  BY <1>1, <1>4 DEF IInv, Awaited, Healthy, Waiting, Taken, Carrying, device
<1>13. Numbers'
  <2>1. \A k \in Msgs : Active(k)' /\ msg'[k].seq # 0 => Active(k) /\ msg'[k].seq = msg[k].seq
    BY <1>2, <1>3, <1>4 DEF IInv, Active, Carried
  <2>2. (up' => up) /\ (reused => reused') /\ fw' \subseteq fw
    BY <1>4 DEF device
  <2> QED
    BY <2>1, <2>2, NumbersStay DEF IInv
<1>14. NoDangling'
  BY <1>1, <1>2, <1>3, <1>4 DEF IInv, NoDangling, Healthy, Carrying, Threads, Fresh, device
<1>15. NoLateAnswer'
  BY <1>4 DEF IInv, NoLateAnswer, Healthy, device
<1> QED
  BY <1>6, <1>7, <1>8, <1>9, <1>10, <1>11, <1>12, <1>13, <1>14, <1>15 DEF IInv

(* AndesSendCmdMsg() refuses a command when MCU_INIT is not set.           *)
LEMMA RefuseKeeps ==
  ASSUME IInv, NEW t \in Msgs, Refuse(t) PROVE IInv'
<1>1. msg' \in [Msgs -> Message] /\ \A k \in Msgs : k # t => msg'[k] = msg[k]
  BY FreedMessage DEF IInv, TypeOK, Free, Refuse
<1>2. msg'[t] = Freed
  BY DEF IInv, TypeOK, Free, Refuse
<1>3. /\ msg'[t].seq = 0 /\ ~ msg'[t].live /\ ~ msg'[t].acked
      /\ msg'[t].retry = 0 /\ ~ msg'[t].pkt /\ ~ msg'[t].copy
  BY <1>2 DEF Freed
<1>4. /\ pc[t] = "start" /\ pc' = [pc EXCEPT ![t] = "done"]
      /\ UNCHANGED <<hold, queues, bh, device>>
  BY DEF Refuse, Goto
<1>5. Members(txq) \subseteq Msgs /\ Members(ackq) \subseteq Msgs /\ Members(doneq) \subseteq Msgs
  BY MembersTyped DEF IInv, TypeOK
<1>6. TypeOK'
  BY <1>1, <1>4 DEF IInv, TypeOK, Pcs, queues, device
<1>7. Hands'
  BY <1>4 DEF IInv, Hands
<1>8. Apart'
  BY <1>4 DEF IInv, Apart, Carried, Waiting, Taken, Carrying, queues
<1>9. Threads'
  <2>1. Fresh'
    BY <1>1, <1>4 DEF IInv, TypeOK, Threads, Fresh, Carried, Waiting, Taken, Carrying, queues
  <2>2. Asleep'
    BY <1>4 DEF IInv, Threads, Asleep, queues
  <2>3. Awake'
    BY <1>4 DEF IInv, Threads, Awake, Carried, Taken, Carrying
  <2>4. Finished'
    BY <1>4 DEF IInv, Threads, Finished, queues
  <2>5. Unanswered'
    BY <1>1, <1>4, <1>5 DEF IInv, Threads, Unanswered, Fresh, queues, device
  <2> QED
    BY <2>1, <2>2, <2>3, <2>4, <2>5 DEF Threads
<1>10. Packets'
  <2>1. Packed'
    BY <1>1, <1>4 DEF IInv, Packets, Packed, Waiting, Taken, Carrying, Threads, Fresh, queues
  <2>2. CopyKept'
    BY <1>1, <1>3, <1>4 DEF IInv, Packets, CopyKept, Waiting, Taken, Carrying, queues, device
  <2>3. CopyMade'
    BY <1>1, <1>3, <1>4 DEF IInv, Hands, Packets, CopyMade
  <2>4. Empty'
    BY <1>1, <1>3 DEF IInv, Packets, Empty
  <2> QED
    BY <2>1, <2>2, <2>3, <2>4 DEF Packets
<1>11. Unloading'
  BY <1>4 DEF IInv, Unloading, device
<1>12. Awaited'
  BY <1>4 DEF IInv, Awaited, Healthy, Waiting, Taken, Carrying, Threads, Fresh, queues, device
<1>13. Numbers'
  <2>1. \A k \in Msgs : Active(k)' /\ msg'[k].seq # 0 => Active(k) /\ msg'[k].seq = msg[k].seq
    BY <1>1, <1>3, <1>4 DEF IInv, Active, Carried, queues
  <2>2. (up' => up) /\ (reused => reused') /\ fw' \subseteq fw
    BY <1>4 DEF device
  <2> QED
    BY <2>1, <2>2, NumbersStay DEF IInv
<1>14. NoDangling'
  BY <1>1, <1>4 DEF IInv, TypeOK, NoDangling, Healthy, Carrying, Threads, Fresh, Waiting,
     Taken, queues, device
<1>15. NoLateAnswer'
  BY <1>4 DEF IInv, NoLateAnswer, Healthy, Threads, Fresh, queues, device
<1> QED
  BY <1>6, <1>7, <1>8, <1>9, <1>10, <1>11, <1>12, <1>13, <1>14, <1>15 DEF IInv

(* A thread takes the first message of txq.                                *)
LEMMA DequeueKeeps ==
  ASSUME IInv, NEW t \in Msgs, Dequeue(t) PROVE IInv'
<1>1. /\ txq' \in Seq(Msgs) /\ Once(txq') /\ Members(txq') = Members(txq) \ {hold'[t]}
      /\ hold'[t] \in Members(txq) /\ hold'[t] \in Msgs
  BY QueueRest DEF IInv, TypeOK, Apart, Dequeue
<1>2. Members(txq) \subseteq Msgs /\ Members(ackq) \subseteq Msgs /\ Members(doneq) \subseteq Msgs
  BY MembersTyped DEF IInv, TypeOK
<1>3. TypeOK'
  BY DEF IInv, TypeOK, Dequeue, Goto, Pcs, device
<1>4. Hands'
  BY <1>1 DEF IInv, TypeOK, Hands, Apart, Carried, Dequeue, Goto
<1>5. Apart'
  BY <1>1 DEF IInv, Apart, Carried, Waiting, Taken, Carrying, Dequeue, Goto
<1>6. Threads'
  <2>1. Fresh'
    BY <1>1 DEF IInv, Threads, Fresh, Carried, Waiting, Taken, Carrying, Dequeue, Goto
  <2>2. Asleep'
    BY <1>1 DEF IInv, Threads, Asleep, Dequeue, Goto
  <2>3. Awake'
    BY <1>1 DEF IInv, Threads, Awake, Carried, Taken, Carrying, Asleep, Dequeue, Goto
  <2>4. Finished'
    BY DEF IInv, Threads, Finished, Dequeue, Goto
  <2>5. Unanswered'
    BY DEF IInv, Threads, Unanswered, Dequeue, Goto, device
  <2> QED
    BY <2>1, <2>2, <2>3, <2>4, <2>5 DEF Threads
<1>7. Packets'
  <2>1. Packed'
    BY <1>1 DEF IInv, Packets, Packed, Waiting, Taken, Carrying, Dequeue, Goto
  <2>2. CopyKept'
    BY <1>1 DEF IInv, Packets, CopyKept, Waiting, Taken, Carrying, Hands, Dequeue, Goto, device
  <2>3. CopyMade'
    BY DEF IInv, Packets, CopyMade, Dequeue, Goto
  <2>4. Empty'
    BY DEF IInv, Packets, Empty, Dequeue
  <2> QED
    BY <2>1, <2>2, <2>3, <2>4 DEF Packets
<1>8. Unloading'
  BY DEF IInv, Unloading, Dequeue, device
<1>9. Awaited'
  BY <1>1 DEF IInv, Awaited, Healthy, Waiting, Taken, Carrying, Dequeue, Goto, device
<1>10. Numbers'
  <2>1. \A k \in Msgs : Active(k)' /\ msg'[k].seq # 0 => Active(k) /\ msg'[k].seq = msg[k].seq
    BY <1>1 DEF IInv, Active, Carried, Apart, Waiting, Dequeue
  <2>2. (up' => up) /\ (reused => reused') /\ fw' \subseteq fw
    BY DEF Dequeue, device
  <2> QED
    BY <2>1, <2>2, NumbersStay DEF IInv
<1>11. NoDangling'
  BY <1>1 DEF IInv, NoDangling, Healthy, Carrying, Dequeue, Goto, device
<1>12. NoLateAnswer'
  BY DEF IInv, NoLateAnswer, Healthy, Dequeue, Goto, device
<1> QED
  BY <1>3, <1>4, <1>5, <1>6, <1>7, <1>8, <1>9, <1>10, <1>11, <1>12 DEF IInv

(* A thread finds txq empty.                                               *)
LEMMA QueueEmptyKeeps ==
  ASSUME IInv, NEW t \in Msgs, QueueEmpty(t) PROVE IInv'
<1>1. bh' \in BOOLEAN
  BY DEF IInv, QueueEmpty, BhSchedule
<1>2. Members(txq) = {}
  BY EmptyQueue DEF QueueEmpty
<1>3. Members(txq) \subseteq Msgs /\ Members(ackq) \subseteq Msgs /\ Members(doneq) \subseteq Msgs
  BY MembersTyped DEF IInv, TypeOK
<1>4. TypeOK'
  BY <1>1 DEF IInv, TypeOK, QueueEmpty, Goto, Pcs, queues, device
<1>5. Hands'
  BY DEF IInv, Hands, QueueEmpty, Goto
<1>6. Apart'
  BY DEF IInv, Apart, Carried, Waiting, Taken, Carrying, QueueEmpty, Goto, queues
<1>7. Threads'
  <2>1. Fresh'
    BY DEF IInv, Threads, Fresh, Carried, Waiting, Taken, Carrying, QueueEmpty, Goto, queues
  <2>2. Asleep'
    BY <1>2 DEF IInv, Threads, Asleep, QueueEmpty, Goto, queues
  <2>3. Awake'
    BY DEF IInv, Threads, Awake, Carried, Taken, Carrying, QueueEmpty, Goto
  <2>4. Finished'
    BY DEF IInv, Threads, Finished, QueueEmpty, Goto, queues
  <2>5. Unanswered'
    BY DEF IInv, Threads, Unanswered, QueueEmpty, Goto, queues, device
  <2> QED
    BY <2>1, <2>2, <2>3, <2>4, <2>5 DEF Threads
<1>8. Packets'
  <2>1. Packed'
    BY DEF IInv, Packets, Packed, Waiting, Taken, Carrying, QueueEmpty, Goto, queues
  <2>2. CopyKept'
    BY <1>2 DEF IInv, Packets, CopyKept, Waiting, Taken, Carrying, QueueEmpty, Goto, device
  <2>3. CopyMade'
    BY DEF IInv, Packets, CopyMade, QueueEmpty, Goto
  <2>4. Empty'
    BY DEF IInv, Packets, Empty, QueueEmpty
  <2> QED
    BY <2>1, <2>2, <2>3, <2>4 DEF Packets
<1>9. Unloading'
  BY DEF IInv, Unloading, QueueEmpty, device
<1>10. Awaited'
  BY DEF IInv, Awaited, Healthy, Waiting, Taken, Carrying, QueueEmpty, Goto, queues, device
<1>11. Numbers'
  <2>1. \A k \in Msgs : Active(k)' /\ msg'[k].seq # 0 => Active(k) /\ msg'[k].seq = msg[k].seq
    BY DEF IInv, Active, Carried, QueueEmpty, queues
  <2>2. (up' => up) /\ (reused => reused') /\ fw' \subseteq fw
    BY DEF QueueEmpty, device
  <2> QED
    BY <2>1, <2>2, NumbersStay DEF IInv
<1>12. NoDangling'
  BY DEF IInv, NoDangling, Healthy, Carrying, QueueEmpty, Goto, queues, device
<1>13. NoLateAnswer'
  BY DEF IInv, NoLateAnswer, Healthy, Apart, QueueEmpty, Goto, queues, device
<1> QED
  BY <1>4, <1>5, <1>6, <1>7, <1>8, <1>9, <1>10, <1>11, <1>12, <1>13 DEF IInv

(* What Skip leaves in the messages are messages.                          *)
LEMMA SkipTyped ==
  ASSUME TypeOK, NEW t \in Msgs, hold[t] \in Msgs, Skip(t)
    PROVE  msg' \in [Msgs -> Message] /\ \A k \in Msgs : k # hold[t] => msg'[k] = msg[k]
<1>1. \A r \in Message : [r EXCEPT !.copy = TRUE, !.pkt = FALSE] \in Message
  BY DEF Message
<1>2. \/ msg' = [msg EXCEPT ![hold[t]] = Freed]
      \/ msg' = [msg EXCEPT ![hold[t]] = [msg[hold[t]] EXCEPT !.copy = TRUE, !.pkt = FALSE]]
      \/ msg' = msg
  BY DEF Skip, Free
<1>3. CASE msg' = [msg EXCEPT ![hold[t]] = Freed]
  BY <1>3, FreedMessage DEF TypeOK
<1>4. CASE msg' = [msg EXCEPT ![hold[t]] = [msg[hold[t]] EXCEPT !.copy = TRUE, !.pkt = FALSE]]
  BY <1>1, <1>4 DEF TypeOK
<1>5. CASE msg' = msg
  BY <1>5 DEF TypeOK
<1> QED
  BY <1>2, <1>3, <1>4, <1>5

(* Only the in-band flag is off: the message taken is freed or completed.  *)
LEMMA SkipKeeps ==
  ASSUME IInv, NEW t \in Msgs, Skip(t) PROVE IInv'
<1>1. hold[t] \in Msgs /\ Taken(hold[t])
  BY DEF IInv, Hands, Skip, Taken, Carrying
<1>2. msg' \in [Msgs -> Message] /\ \A k \in Msgs : k # hold[t] => msg'[k] = msg[k]
  BY <1>1, SkipTyped DEF IInv
<1>3. hold[t] \notin Sync => /\ ~ msg'[hold[t]].live
                             /\ msg'[hold[t]].retry = 0 /\ msg'[hold[t]].seq = 0
                            /\ ~ msg'[hold[t]].pkt /\ ~ msg'[hold[t]].acked
  BY <1>1, FreedMessage DEF IInv, TypeOK, Free, Skip
<1>4. hold[t] \in Sync =>
          /\ msg'[hold[t]].state = msg[hold[t]].state /\ msg'[hold[t]].seq = msg[hold[t]].seq
          /\ msg'[hold[t]].live = msg[hold[t]].live /\ msg'[hold[t]].acked = msg[hold[t]].acked
          /\ msg'[hold[t]].retry = msg[hold[t]].retry
          /\ msg[hold[t]].live /\ (msg[hold[t]].retry > 1 => msg'[hold[t]].copy)
  BY <1>1 DEF IInv, TypeOK, Packets, Packed, Empty, Waiting, Skip
<1>5. /\ \A u \in Msgs : u # t => hold[u] # hold[t]
      /\ \A k \in Msgs : (Carried(k)' => Carried(k)) /\ (Waiting(k)' => Waiting(k))
  BY NoMsgAssumption DEF IInv, Hands, Carried, Waiting, Taken, Carrying, Skip, Goto, queues
<1>6. Members(txq) \subseteq Msgs /\ Members(ackq) \subseteq Msgs /\ Members(doneq) \subseteq Msgs
  BY MembersTyped DEF IInv, TypeOK
<1>7. /\ pc[t] = "fill" /\ pc' = [pc EXCEPT ![t] = "loop"] /\ hold' = [hold EXCEPT ![t] = NoMsg]
      /\ UNCHANGED <<queues, bh, device>>
  BY DEF Skip, Goto
<1>8. TypeOK'
  BY <1>2, <1>7 DEF IInv, TypeOK, Pcs, queues, device
<1>9. Hands'
  BY <1>7, NoMsgAssumption DEF IInv, TypeOK, Hands
<1>10. Apart'
  BY <1>5, <1>6, <1>7 DEF IInv, Apart, queues
<1>11. Threads'
  <2>1. Fresh'
    BY <1>2, <1>5, <1>7 DEF IInv, Threads, Fresh, Carried, queues
  <2>2. Asleep'
    BY <1>7 DEF IInv, Threads, Asleep, queues
  <2>3. Awake'
    BY <1>7, NoMsgAssumption DEF IInv, Threads, Awake, Carried, Taken, Carrying
  <2>4. Finished'
    BY <1>7 DEF IInv, Threads, Finished, queues
  <2>5. Unanswered'
    BY <1>2, <1>6, <1>7
       DEF IInv, Threads, Unanswered, Apart, Waiting, Taken, Carrying, queues, device
  <2> QED
    BY <2>1, <2>2, <2>3, <2>4, <2>5 DEF Threads
<1>12. Packets'
  <2>1. Packed'
    BY <1>2, <1>7, NoMsgAssumption
       DEF IInv, TypeOK, Packets, Packed, Waiting, Taken, Carrying, Hands, Apart, Carried,
       queues
  <2>2. CopyKept'
    BY <1>2, <1>3, <1>4, <1>7
       DEF IInv, Packets, CopyKept, Waiting, Taken, Carrying, queues, device
  <2>3. CopyMade'
    BY <1>2, <1>7 DEF IInv, Hands, Packets, CopyMade
  <2>4. Empty'
    BY <1>2, <1>3, <1>4 DEF IInv, Packets, Empty
  <2> QED
    BY <2>1, <2>2, <2>3, <2>4 DEF Packets
<1>13. Unloading'
  BY <1>7 DEF IInv, Unloading, device
<1>14. Awaited'
  BY <1>5, <1>7, MsgsAssumption DEF IInv, Awaited, Healthy, device
<1>15. Numbers'
  <2>1. \A k \in Msgs : Active(k)' /\ msg'[k].seq # 0 => Active(k) /\ msg'[k].seq = msg[k].seq
    BY <1>2, <1>3, <1>4, <1>5, <1>7 DEF IInv, Active, queues
  <2>2. (up' => up) /\ (reused => reused') /\ fw' \subseteq fw
    BY <1>7 DEF device
  <2> QED
    BY <2>1, <2>2, NumbersStay DEF IInv
<1>16. NoDangling'
  BY <1>2, <1>4, <1>7, NoMsgAssumption
     DEF IInv, TypeOK, NoDangling, Healthy, Carrying, Hands, Apart, Waiting, Taken, Carried,
     queues, device
<1>17. NoLateAnswer'
  BY <1>7 DEF IInv, NoLateAnswer, Healthy, queues, device
<1> QED
  BY <1>8, <1>9, <1>10, <1>11, <1>12, <1>13, <1>14, <1>15, <1>16, <1>17 DEF IInv

(* The message taken gets its sequence number.                             *)
LEMMA FillKeeps ==
  ASSUME IInv, NEW t \in Msgs, Fill(t) PROVE IInv'
<1>1. hold[t] \in Msgs /\ Taken(hold[t])
  BY DEF IInv, Hands, Fill, Taken, Carrying
<1>2. NextSeq \subseteq 1 .. SeqMax
  BY MsgsAssumption DEF NextSeq, FreeSeq, After, IInv, TypeOK
<1>3. PICK n \in IF TakesSeq(hold[t]) THEN NextSeq ELSE {msg[hold[t]].seq} :
          /\ cmdSeq' = IF TakesSeq(hold[t]) THEN n ELSE cmdSeq
          /\ reused' = (reused \/ (TakesSeq(hold[t]) /\ InUse(n)))
          /\ msg' = [msg EXCEPT ![hold[t]].seq = n, ![hold[t]].copy = @ \/ Copied(hold[t])]
  BY DEF Fill
<1>4. /\ n \in 0 .. SeqMax /\ (TakesSeq(hold[t]) => n # 0)
      /\ (~ TakesSeq(hold[t]) => n = msg[hold[t]].seq)
      /\ reused' \in BOOLEAN /\ cmdSeq' \in 0 .. SeqMax
  BY <1>1, <1>2, <1>3 DEF IInv, TypeOK, Message
<1>5. msg' \in [Msgs -> Message] /\ \A k \in Msgs : k # hold[t] => msg'[k] = msg[k]
  <2> DEFINE made == msg[hold[t]].copy \/ msg[hold[t]].retry > 1
  <2>1. \A r \in Message, b \in BOOLEAN : [r EXCEPT !.seq = n, !.copy = b] \in Message
    BY <1>4 DEF Message
  <2>2. /\ msg[hold[t]] \in Message
        /\ msg' = [msg EXCEPT ![hold[t]] = [msg[hold[t]] EXCEPT !.seq = n, !.copy = made]]
    BY <1>1, <1>3 DEF IInv, TypeOK, Copied
  <2>3. made \in BOOLEAN
    BY DEF IInv
  <2> HIDE DEF made
  <2>4. [msg[hold[t]] EXCEPT !.seq = n, !.copy = made] \in Message
    BY <2>1, <2>2, <2>3
  <2> QED
    BY <2>2, <2>4 DEF IInv, TypeOK
<1>6. /\ msg'[hold[t]].seq = n
      /\ msg'[hold[t]].copy = ((msg[hold[t]].copy \/ msg[hold[t]].retry > 1))
      /\ msg'[hold[t]].state = msg[hold[t]].state
      /\ msg'[hold[t]].live = msg[hold[t]].live
      /\ msg'[hold[t]].acked = msg[hold[t]].acked
      /\ msg'[hold[t]].retry = msg[hold[t]].retry
      /\ msg'[hold[t]].pkt = msg[hold[t]].pkt
  BY <1>1, <1>3 DEF IInv, TypeOK, Copied
<1>7. \A u \in Msgs : u # t => hold[u] # hold[t]
  BY <1>1 DEF IInv, Hands
<1>8. ~ reused' =>
        \/ n = msg[hold[t]].seq
        \/ (\A c \in fw : c.seq # n) /\ (\A k \in Msgs : Active(k) => msg[k].seq # n)
  <2>1. CASE ~ TakesSeq(hold[t])
    BY <2>1
  <2>2. CASE TakesSeq(hold[t]) /\ ~ InUse(n)
    BY <2>2 DEF InUse, Active
  <2>3. CASE TakesSeq(hold[t]) /\ InUse(n)
    BY <1>3, <2>3
  <2> QED
    BY <2>1, <2>2, <2>3
<1>9. \A k \in Msgs : Active(k)' <=> Active(k)
  BY DEF Fill, Active, Carried, queues
<1>10. /\ pc[t] = "fill" /\ pc' = [pc EXCEPT ![t] = "kick"]
      /\ UNCHANGED <<hold, queues, bh, fw, up, inband, exit, full, off>>
  BY DEF Fill, Goto
<1>11. /\ Members(txq) \subseteq Msgs /\ Members(ackq) \subseteq Msgs
       /\ Members(doneq) \subseteq Msgs
  BY MembersTyped DEF IInv, TypeOK
<1>12. TypeOK'
  BY <1>4, <1>5, <1>10 DEF IInv, TypeOK, Pcs, queues
<1>13. Hands'
  BY <1>10 DEF IInv, Hands
<1>14. Apart'
  BY <1>10 DEF IInv, Apart, Carried, Waiting, Taken, Carrying, queues
<1>15. Threads'
  <2>1. Fresh'
    BY <1>1, <1>5, <1>10 DEF IInv, Threads, Fresh, Carried, Waiting, Taken, Carrying, queues
  <2>2. Asleep'
    BY <1>10 DEF IInv, Threads, Asleep, queues
  <2>3. Awake'
    BY <1>10 DEF IInv, Threads, Awake, Carried, Taken, Carrying
  <2>4. Finished'
    BY <1>10 DEF IInv, Threads, Finished, queues
  <2>5. Unanswered'
    BY <1>5, <1>6, <1>10, <1>11 DEF IInv, Threads, Unanswered, queues
  <2> QED
    BY <2>1, <2>2, <2>3, <2>4, <2>5 DEF Threads
<1>16. Packets'
  <2>1. Packed'
    BY <1>5, <1>6, <1>10 DEF IInv, Packets, Packed, Waiting, Taken, Carrying, queues
  <2>2. CopyKept'
    BY <1>5, <1>10 DEF IInv, Packets, CopyKept, Waiting, Taken, Carrying, queues
  <2>3. CopyMade'
    <3> SUFFICES ASSUME NEW u \in Msgs, pc'[u] = "kick", msg'[hold[u]].retry > 1
                 PROVE  msg'[hold[u]].copy
      BY <1>10 DEF CopyMade
    <3>1. CASE u = t
      BY <1>6, <3>1
    <3>2. CASE u # t
      <4>1. pc[u] = "kick" /\ hold[u] \in Msgs /\ hold[u] # hold[t]
        BY <1>10, <3>2 DEF IInv, Hands
      <4>2. msg'[hold[u]] = msg[hold[u]]
        BY <1>5, <4>1
      <4> QED
        BY <4>1, <4>2 DEF IInv, Packets, CopyMade
    <3> QED
      BY <3>1, <3>2
  <2>4. Empty'
    BY <1>1, <1>5, <1>6 DEF IInv, Packets, Empty, Packed, Waiting
  <2> QED
    BY <2>1, <2>2, <2>3, <2>4 DEF Packets
<1>17. Unloading'
  BY <1>10 DEF IInv, Unloading
<1>18. Awaited'
  BY <1>10 DEF IInv, Awaited, Healthy, Waiting, Taken, Carrying, queues
<1>19. Numbers'
  <2>1. Different'
    <3> SUFFICES ASSUME up', ~ reused', NEW m \in Msgs, NEW k \in Msgs, Active(m)', Active(k)',
                        msg'[m].seq = msg'[k].seq, msg'[m].seq # 0
                 PROVE  m = k
      BY DEF Different
    <3>1. up /\ ~ reused /\ Active(m) /\ Active(k)
      BY <1>3, <1>9, <1>10 DEF IInv
    <3>2. \A x \in Msgs : msg'[x].seq = IF x = hold[t] THEN n ELSE msg[x].seq
      BY <1>5, <1>6
    <3>3. CASE n = msg[hold[t]].seq
      BY <3>1, <3>2, <3>3 DEF IInv, Numbers, Different
    <3>4. CASE \A x \in Msgs : Active(x) => msg[x].seq # n
      <4>1. CASE m = hold[t] /\ k # hold[t]
        BY <3>1, <3>2, <3>4, <4>1
      <4>2. CASE m # hold[t] /\ k = hold[t]
        BY <3>1, <3>2, <3>4, <4>2
      <4>3. CASE m # hold[t] /\ k # hold[t]
        BY <3>1, <3>2, <4>3 DEF IInv, Numbers, Different
      <4> QED
        BY <4>1, <4>2, <4>3
    <3> QED
      BY <1>8, <3>3, <3>4
  <2>2. Own'
    <3> SUFFICES ASSUME up', ~ reused', NEW c \in fw, NEW m \in Msgs, Active(m)',
                        msg'[m].seq = c.seq, c.seq # 0
                 PROVE  m = c.m
      BY <1>10 DEF Own
    <3>1. up /\ ~ reused /\ Active(m)
      BY <1>3, <1>9, <1>10 DEF IInv
    <3>2. \A x \in Msgs : msg'[x].seq = IF x = hold[t] THEN n ELSE msg[x].seq
      BY <1>5, <1>6
    <3>3. msg[m].seq = c.seq
      BY <1>8, <3>2
    <3> QED
      BY <3>1, <3>3 DEF IInv, Numbers, Own
  <2> QED
    BY <2>1, <2>2 DEF Numbers
<1>20. NoDangling'
  BY <1>5, <1>6, <1>10 DEF IInv, NoDangling, Healthy, Carrying, queues
<1>21. NoLateAnswer'
  BY <1>10 DEF IInv, NoLateAnswer, Healthy, queues
<1> QED
  BY <1>12, <1>13, <1>14, <1>15, <1>16, <1>17, <1>18, <1>19, <1>20, <1>21 DEF IInv

(* The ring is full: the message is freed or completed.                    *)
LEMMA KickFailsKeeps ==
  ASSUME IInv, NEW t \in Msgs, KickFails(t) PROVE IInv'
<1>1. hold[t] \in Msgs /\ Taken(hold[t]) /\ bh' \in BOOLEAN /\ full' \in 0 .. MaxFull
  BY MsgsAssumption DEF IInv, TypeOK, Hands, KickFails, BhSchedule, Taken, Carrying
<1>2. ~ Healthy'
  BY DEF IInv, TypeOK, KickFails, Healthy
<1>3. msg' \in [Msgs -> Message] /\ \A k \in Msgs : k # hold[t] => msg'[k] = msg[k]
  BY FreedMessage DEF IInv, TypeOK, Free, KickFails
<1>4. msg'[hold[t]] = Freed
  BY <1>1 DEF IInv, TypeOK, Free, KickFails
<1>5. /\ msg'[hold[t]].seq = 0 /\ ~ msg'[hold[t]].live /\ ~ msg'[hold[t]].acked
      /\ msg'[hold[t]].retry = 0 /\ ~ msg'[hold[t]].pkt /\ ~ msg'[hold[t]].copy
  BY <1>4 DEF Freed
<1>6. /\ \A u \in Msgs : u # t => hold[u] # hold[t]
      /\ \A k \in Msgs : (Carried(k)' => Carried(k)) /\ (Waiting(k)' => Waiting(k))
  BY NoMsgAssumption DEF IInv, Hands, Carried, Waiting, Taken, Carrying, KickFails, Goto, queues
<1>7. Members(txq) \subseteq Msgs /\ Members(ackq) \subseteq Msgs /\ Members(doneq) \subseteq Msgs
  BY MembersTyped DEF IInv, TypeOK
<1>8. /\ hold[t] \notin Members(txq) /\ hold[t] \notin Members(ackq)
      /\ hold[t] \notin Members(doneq)
  BY <1>1 DEF IInv, Apart, Waiting, Carried
<1>9. /\ pc[t] = "kick" /\ pc' = [pc EXCEPT ![t] = "done"] /\ hold' = [hold EXCEPT ![t] = NoMsg]
      /\ UNCHANGED <<queues, cmdSeq, fw, up, inband, exit, off, reused>>
  BY DEF KickFails, Goto
<1>10. TypeOK'
  BY <1>1, <1>3, <1>9 DEF IInv, TypeOK, Pcs, queues
<1>11. Hands'
  BY <1>9, NoMsgAssumption DEF IInv, TypeOK, Hands
<1>12. Apart'
  BY <1>6, <1>7, <1>9 DEF IInv, Apart, queues
<1>13. Threads'
  <2>1. Fresh'
    BY <1>3, <1>6, <1>9 DEF IInv, Threads, Fresh, Carried, queues
  <2>2. Asleep'
    BY <1>9 DEF IInv, Threads, Asleep, queues
  <2>3. Awake'
    BY <1>6, <1>9, NoMsgAssumption DEF IInv, Threads, Awake, Taken, Carrying
  <2>4. Finished'
    BY <1>9 DEF IInv, Threads, Finished, queues
  <2>5. Unanswered'
    BY <1>3, <1>7, <1>8, <1>9 DEF IInv, Threads, Unanswered, queues
  <2> QED
    BY <2>1, <2>2, <2>3, <2>4, <2>5 DEF Threads
<1>14. Packets'
  <2>1. Packed'
    BY <1>3, <1>6, <1>8, <1>9, NoMsgAssumption
       DEF IInv, TypeOK, Packets, Packed, Waiting, Taken, Carrying, queues
  <2>2. CopyKept'
    BY <1>3, <1>5, <1>9, MsgsAssumption, NoMsgAssumption
       DEF IInv, Packets, CopyKept, Waiting, Taken, Carrying, queues
  <2>3. CopyMade'
    BY <1>3, <1>9 DEF IInv, Hands, Packets, CopyMade, TypeOK
  <2>4. Empty'
    BY <1>3, <1>5 DEF IInv, Packets, Empty
  <2> QED
    BY <2>1, <2>2, <2>3, <2>4 DEF Packets
<1>15. Unloading'
  BY <1>9 DEF IInv, Unloading
<1>16. Awaited'
  BY <1>2 DEF IInv, Awaited
<1>17. Numbers'
  <2>1. \A k \in Msgs : Active(k)' /\ msg'[k].seq # 0 => Active(k) /\ msg'[k].seq = msg[k].seq
    BY <1>3, <1>5, <1>6, <1>9 DEF IInv, Active, queues
  <2>2. (up' => up) /\ (reused => reused') /\ fw' \subseteq fw
    BY <1>9
  <2> QED
    BY <2>1, <2>2, NumbersStay DEF IInv
<1>18. NoDangling'
  BY <1>2 DEF IInv, NoDangling
<1>19. NoLateAnswer'
  BY <1>2 DEF IInv, NoLateAnswer
<1> QED
  BY <1>10, <1>11, <1>12, <1>13, <1>14, <1>15, <1>16, <1>17, <1>18, <1>19 DEF IInv

(* The message goes to the ring and, if it is answered, to ackq first.     *)
LEMMA KickKeeps ==
  ASSUME IInv, NEW t \in Msgs, Kick(t) PROVE IInv'
<1>1. hold[t] \in Msgs /\ Taken(hold[t])
  BY DEF IInv, Hands, Kick, Taken, Carrying
<1>2. /\ ackq' \in Seq(Msgs) /\ Once(ackq')
      /\ Members(ackq') = IF hold[t] \in Sync THEN Members(ackq) \cup {hold[t]} ELSE Members(ackq)
  BY <1>1, QueueTail DEF IInv, TypeOK, Apart, Waiting, Kick
<1>3. /\ doneq' \in Seq(Msgs) /\ Once(doneq')
      /\ Members(doneq') = IF hold[t] \in Sync THEN Members(doneq)
                             ELSE Members(doneq) \cup {hold[t]}
  BY <1>1, QueueTail DEF IInv, TypeOK, Apart, Waiting, Kick
<1>4. msg' \in [Msgs -> Message] /\ \A k \in Msgs : k # hold[t] => msg'[k] = msg[k]
  <2>1. \A r \in Message : [r EXCEPT
                    !.state = IF hold[t] \in Sync THEN "wait_ack" ELSE "tx_done",
                    !.pkt = FALSE] \in Message
    BY DEF Message
  <2>2. /\ msg[hold[t]] \in Message
        /\ msg' = [msg EXCEPT ![hold[t]] = [msg[hold[t]] EXCEPT
                    !.state = IF hold[t] \in Sync THEN "wait_ack" ELSE "tx_done",
                    !.pkt = FALSE]]
    BY <1>1 DEF IInv, TypeOK, Kick
  <2> HIDE DEF Message
  <2> QED
    BY <2>1, <2>2 DEF IInv, TypeOK
<1>5. /\ msg'[hold[t]].state = (IF hold[t] \in Sync THEN "wait_ack" ELSE "tx_done")
      /\ msg'[hold[t]].pkt = FALSE
      /\ msg'[hold[t]].seq = msg[hold[t]].seq
      /\ msg'[hold[t]].live = msg[hold[t]].live
      /\ msg'[hold[t]].acked = msg[hold[t]].acked
      /\ msg'[hold[t]].retry = msg[hold[t]].retry
      /\ msg'[hold[t]].copy = msg[hold[t]].copy
  BY <1>1 DEF IInv, TypeOK, Kick
<1>6. \A u \in Msgs : u # t => hold[u] # hold[t]
  BY <1>1 DEF IInv, Hands
<1>7. /\ pc[t] = "kick" /\ up /\ pc' = [pc EXCEPT ![t] = "write"]
      /\ UNCHANGED <<hold, txq, bh, device>>
  BY DEF Kick, Goto
<1>8. Members(txq) \subseteq Msgs /\ Members(ackq) \subseteq Msgs /\ Members(doneq) \subseteq Msgs
  BY MembersTyped DEF IInv, TypeOK
<1>9. TypeOK'
  BY <1>2, <1>3, <1>4, <1>7 DEF IInv, TypeOK, Pcs, device
<1>10. Hands'
  BY <1>7 DEF IInv, Hands
<1>11. Apart'
  BY <1>2, <1>3, <1>6, <1>7, <1>8 DEF IInv, TypeOK, Apart, Carried, Waiting, Taken, Carrying
<1>12. Threads'
  <2>1. Fresh'
    BY <1>2, <1>3, <1>4, <1>7 DEF IInv, Threads, Fresh, Carried, Waiting, Taken, Carrying
  <2>2. Asleep'
    BY <1>7 DEF IInv, Threads, Asleep
  <2>3. Awake'
    BY <1>7 DEF IInv, Threads, Awake, Carried, Taken, Carrying
  <2>4. Finished'
    BY <1>3, <1>7 DEF IInv, Threads, Finished
  <2>5. Unanswered'
    BY <1>2, <1>4, <1>5, <1>7, <1>8 DEF IInv, Threads, Unanswered, Apart
  <2> QED
    BY <2>1, <2>2, <2>3, <2>4, <2>5 DEF Threads
<1>13. Packets'
  <2>1. Packed'
    BY <1>4, <1>6, <1>7
       DEF IInv, TypeOK, Packets, Packed, Waiting, Taken, Carrying, Apart, Carried
  <2>2. CopyKept'
    BY <1>4, <1>5, <1>7, MsgsAssumption
       DEF IInv, Packets, CopyKept, Waiting, Taken, Carrying, CopyMade, device
  <2>3. CopyMade'
    BY <1>4, <1>5, <1>7 DEF IInv, Hands, Packets, CopyMade
  <2>4. Empty'
    BY <1>4, <1>5 DEF IInv, Packets, Empty
  <2> QED
    BY <2>1, <2>2, <2>3, <2>4 DEF Packets
<1>14. Unloading'
  BY <1>7 DEF IInv, Unloading, device
<1>15. Awaited'
  BY <1>7 DEF IInv, Awaited, Healthy, Waiting, Taken, Carrying, device
<1>16. Numbers'
  <2>1. \A k \in Msgs : Active(k)' /\ msg'[k].seq # 0 => Active(k) /\ msg'[k].seq = msg[k].seq
    BY <1>3, <1>4, <1>5, <1>7 DEF IInv, Active, Carried
  <2>2. (up' => up) /\ (reused => reused') /\ fw' \subseteq fw
    BY <1>7 DEF device
  <2> QED
    BY <2>1, <2>2, NumbersStay DEF IInv
<1>17. NoDangling'
  BY <1>2, <1>3, <1>4, <1>5, <1>7 DEF IInv, NoDangling, Healthy, Carrying, device
<1>18. NoLateAnswer'
  BY <1>1, <1>2, <1>7 DEF IInv, NoLateAnswer, Healthy, Awaited, Waiting, device
<1> QED
  BY <1>9, <1>10, <1>11, <1>12, <1>13, <1>14, <1>15, <1>16, <1>17, <1>18 DEF IInv

(* The index of the ring is written: the firmware has the command.         *)
LEMMA WriteKeeps ==
  ASSUME IInv, NEW t \in Msgs, Write(t) PROVE IInv'
<1>1. hold[t] \in Msgs /\ bh' \in BOOLEAN /\ pc' \in [Msgs -> Pcs]
  <2>1. bh' \in BOOLEAN
    BY DEF IInv, TypeOK, Write, BhSchedule
  <2>2. hold[t] \in Msgs
    BY DEF IInv, Hands, Write
  <2>3. pc' = [pc EXCEPT ![t] = "loop"] \/ pc' = [pc EXCEPT ![t] = "done"]
    BY DEF Write, Goto
  <2>4. pc' \in [Msgs -> Pcs]
    BY <2>3 DEF IInv, TypeOK, Pcs
  <2> QED
    BY <2>1, <2>2, <2>4
<1>2. /\ \A u \in Msgs : u # t => hold[u] # hold[t]
      /\ \A k \in Msgs : (Carried(k)' => Carried(k)) /\ (Waiting(k)' => Waiting(k))
  BY NoMsgAssumption DEF IInv, TypeOK, Hands, Carried, Waiting, Taken, Carrying, Write, Goto,
     queues
<1>3. Members(txq) \subseteq Msgs /\ Members(ackq) \subseteq Msgs /\ Members(doneq) \subseteq Msgs
  BY MembersTyped DEF IInv, TypeOK
<1>4. fw' = IF up /\ hold[t] \in Sync
            THEN fw \cup {[m |-> hold[t], seq |-> msg[hold[t]].seq,
                             try |-> msg[hold[t]].retry]}
            ELSE fw
  BY DEF Write
<1>5. fw' \subseteq [m : Sync, seq : 0 .. SeqMax, try : 0 .. Tries]
  BY <1>1, <1>4, Fields DEF IInv, TypeOK
<1>6. \A c \in fw' \ fw : c.m = hold[t] /\ c.seq = msg[hold[t]].seq
  BY <1>4
<1>7. TypeOK'
  BY <1>1, <1>5 DEF IInv, TypeOK, Write, queues
<1>8. Hands'
  BY NoMsgAssumption DEF IInv, TypeOK, Hands, Write, Goto
<1>9. Apart'
  BY <1>2, <1>3 DEF IInv, Apart, Write, queues
<1>10. Threads'
  <2>1. Fresh'
    BY <1>1, <1>2 DEF IInv, Threads, Fresh, Write, Goto, queues
  <2>2. Asleep'
    BY <1>1 DEF IInv, Threads, Asleep, Write, Goto, queues
  <2>3. Awake'
    BY <1>2, NoMsgAssumption DEF IInv, TypeOK, Threads, Awake, Taken, Carrying, Write, Goto
  <2>4. Finished'
    BY <1>1, <1>3 DEF IInv, Threads, Finished, Write, Goto, queues
  <2>5. Unanswered'
    BY <1>1, <1>3 DEF IInv, Threads, Unanswered, Write, Goto, queues
  <2> QED
    BY <2>1, <2>2, <2>3, <2>4, <2>5 DEF Threads
<1>11. Packets'
  <2>1. Packed'
    BY <1>2 DEF IInv, Packets, Packed, Write
  <2>2. CopyKept'
    <3> SUFFICES ASSUME NEW k \in Msgs, up', pc'[k] # "start", msg'[k].retry > 1
                 PROVE  Waiting(k)' \/ msg'[k].copy
      BY DEF CopyKept
    <3>1. msg' = msg /\ up /\ pc[k] # "start"
      BY <1>1 DEF IInv, Write, Goto
    <3>2. Waiting(k) \/ msg[k].copy
      BY <3>1 DEF IInv, Packets, CopyKept
    <3>3. Waiting(k) => Waiting(k)'
      BY <1>1 DEF IInv, Waiting, Taken, Carrying, Write, Goto, queues
    <3> QED
      BY <3>1, <3>2, <3>3
  <2>3. CopyMade'
    BY <1>1 DEF IInv, Packets, CopyMade, Write, Goto
  <2>4. Empty'
    BY DEF IInv, Packets, Empty, Write
  <2> QED
    BY <2>1, <2>2, <2>3, <2>4 DEF Packets
<1>12. Unloading'
  BY DEF IInv, Unloading, Write
<1>13. Awaited'
  BY <1>1, <1>2, MsgsAssumption DEF IInv, Awaited, Healthy, Write, Goto
<1>14. Numbers'
  <2>1. Different'
    BY <1>2 DEF IInv, Numbers, Different, Active, Write, queues
  <2>2. Own'
    BY <1>1, <1>2 DEF IInv, Numbers, Own, Active, Carried, Different, Write, queues
  <2> QED
    BY <2>1, <2>2 DEF Numbers
<1>15. NoDangling'
  BY NoMsgAssumption DEF IInv, TypeOK, NoDangling, Healthy, Carrying, Write, Goto, queues
<1>16. NoLateAnswer'
  BY <1>1, <1>3 DEF IInv, NoLateAnswer, Healthy, Write, Goto, queues
<1> QED
  BY <1>7, <1>8, <1>9, <1>10, <1>11, <1>12, <1>13, <1>14, <1>15, <1>16 DEF IInv

-----------------------------------------------------------------------------
(* The answer, or an exit, wakes the thread of a command.                  *)
LEMMA WokenKeeps ==
  ASSUME IInv, NEW t \in Msgs, Woken(t) PROVE IInv'
<1>1. msg' \in [Msgs -> Message] /\ \A k \in Msgs : k # t => msg'[k] = msg[k]
  <2>1. \A r \in Message : [r EXCEPT !.acked = FALSE] \in Message
    BY DEF Message
  <2>2. /\ msg[t] \in Message
        /\ msg' = [msg EXCEPT ![t] = [msg[t] EXCEPT !.acked = FALSE]]
    BY DEF IInv, TypeOK, Set, Woken
  <2> HIDE DEF Message
  <2> QED
    BY <2>1, <2>2 DEF IInv, TypeOK
<1>2. /\ msg'[t].acked = FALSE
      /\ msg'[t].state = msg[t].state
      /\ msg'[t].seq = msg[t].seq
      /\ msg'[t].live = msg[t].live
      /\ msg'[t].retry = msg[t].retry
      /\ msg'[t].pkt = msg[t].pkt
      /\ msg'[t].copy = msg[t].copy
  BY DEF IInv, TypeOK, Message, Set, Woken
<1>3. /\ pc[t] = "wait" /\ msg[t].acked /\ pc' = [pc EXCEPT ![t] = "woken"]
      /\ UNCHANGED <<hold, queues, bh, device>>
  BY DEF Woken, Goto
<1>4. Members(txq) \subseteq Msgs /\ Members(ackq) \subseteq Msgs /\ Members(doneq) \subseteq Msgs
  BY MembersTyped DEF IInv, TypeOK
<1>5. TypeOK'
  BY <1>1, <1>3 DEF IInv, TypeOK, Pcs, queues, device
<1>6. Hands'
  BY <1>3 DEF IInv, Hands
<1>7. Apart'
  BY <1>3 DEF IInv, Apart, Carried, Waiting, Taken, Carrying, queues
<1>8. Threads'
  <2>1. Fresh'
    BY <1>1, <1>3 DEF IInv, Threads, Fresh, Carried, Waiting, Taken, Carrying, queues
  <2>2. Asleep'
    BY <1>3 DEF IInv, Threads, Asleep, queues
  <2>3. Awake'
    BY <1>3 DEF IInv, Threads, Awake, Carried, Waiting, Taken, Carrying, Packets, Packed
  <2>4. Finished'
    BY <1>3 DEF IInv, Threads, Finished, queues
  <2>5. Unanswered'
    BY <1>1, <1>2, <1>3, <1>4 DEF IInv, Threads, Unanswered, queues, device
  <2> QED
    BY <2>1, <2>2, <2>3, <2>4, <2>5 DEF Threads
<1>9. Packets'
  <2>1. Packed'
    BY <1>1, <1>3 DEF IInv, Packets, Packed, Waiting, Taken, Carrying, queues
  <2>2. CopyKept'
    BY <1>1, <1>2, <1>3 DEF IInv, Packets, CopyKept, Waiting, Taken, Carrying, queues, device
  <2>3. CopyMade'
    BY <1>1, <1>2, <1>3 DEF IInv, Hands, Packets, CopyMade
  <2>4. Empty'
    BY <1>1, <1>2 DEF IInv, Packets, Empty
  <2> QED
    BY <2>1, <2>2, <2>3, <2>4 DEF Packets
<1>10. Unloading'
  BY <1>3 DEF IInv, Unloading, device
<1>11. Awaited'
  BY <1>3 DEF IInv, Awaited, Healthy, Waiting, Taken, Carrying, queues, device
<1>12. Numbers'
  <2>1. \A k \in Msgs : Active(k)' /\ msg'[k].seq # 0 => Active(k) /\ msg'[k].seq = msg[k].seq
    BY <1>1, <1>2, <1>3 DEF IInv, Active, Carried, queues
  <2>2. (up' => up) /\ (reused => reused') /\ fw' \subseteq fw
    BY <1>3 DEF device
  <2> QED
    BY <2>1, <2>2, NumbersStay DEF IInv
<1>13. NoDangling'
  BY <1>1, <1>2, <1>3 DEF IInv, NoDangling, Healthy, Carrying, queues, device
<1>14. NoLateAnswer'
  BY <1>3 DEF IInv, NoLateAnswer, Healthy, queues, device
<1> QED
  BY <1>5, <1>6, <1>7, <1>8, <1>9, <1>10, <1>11, <1>12, <1>13, <1>14 DEF IInv

(* A thread stops waiting for its answer, and takes the message from ackq. *)
LEMMA TimeoutKeeps ==
  ASSUME IInv, NEW t \in Msgs, Timeout(t) PROVE IInv'
<1>1. TypeOK'
  BY DEF IInv, TypeOK, Timeout, Goto, Pcs, queues, device
<1>2. Hands'
  BY DEF IInv, Hands, Timeout, Goto
<1>3. Apart'
  BY DEF IInv, Apart, Carried, Waiting, Taken, Carrying, Timeout, Goto, queues
<1>4. Threads'
  <2>1. Fresh'
    BY DEF IInv, Threads, Fresh, Carried, Waiting, Taken, Carrying, Timeout, Goto, queues
  <2>2. Asleep'
    BY DEF IInv, Threads, Asleep, Timeout, Goto, queues
  <2>3. Awake'
    BY DEF IInv, Threads, Awake, Carried, Taken, Carrying, Timeout, Goto
  <2>4. Finished'
    BY DEF IInv, Threads, Finished, Timeout, Goto, queues
  <2>5. Unanswered'
    BY DEF IInv, Threads, Unanswered, Timeout, Goto, queues, device
  <2> QED
    BY <2>1, <2>2, <2>3, <2>4, <2>5 DEF Threads
<1>5. Packets'
  <2>1. Packed'
    BY DEF IInv, Packets, Packed, Waiting, Taken, Carrying, Timeout, Goto, queues
  <2>2. CopyKept'
    BY DEF IInv, Packets, CopyKept, Waiting, Taken, Carrying, Timeout, Goto, queues, device
  <2>3. CopyMade'
    BY DEF IInv, Packets, CopyMade, Timeout, Goto
  <2>4. Empty'
    BY DEF IInv, Packets, Empty, Timeout
  <2> QED
    BY <2>1, <2>2, <2>3, <2>4 DEF Packets
<1>6. Unloading'
  BY DEF IInv, Unloading, Timeout, device
<1>7. Awaited'
  BY DEF IInv, Awaited, Healthy, Waiting, Taken, Carrying, Timeout, Goto, queues, device
<1>8. Numbers'
  <2>1. \A k \in Msgs : Active(k)' /\ msg'[k].seq # 0 => Active(k) /\ msg'[k].seq = msg[k].seq
    BY DEF IInv, Active, Carried, Timeout, queues
  <2>2. (up' => up) /\ (reused => reused') /\ fw' \subseteq fw
    BY DEF Timeout, device
  <2> QED
    BY <2>1, <2>2, NumbersStay DEF IInv
<1>9. NoDangling'
  BY DEF IInv, NoDangling, Healthy, Carrying, Timeout, Goto, queues, device
<1>10. NoLateAnswer'
  BY DEF IInv, NoLateAnswer, Healthy, Timeout, Goto, queues, device
<1> QED
  BY <1>1, <1>2, <1>3, <1>4, <1>5, <1>6, <1>7, <1>8, <1>9, <1>10 DEF IInv

(* The thread of a command gives up because the driver goes down.          *)
LEMMA GiveUpKeeps ==
  ASSUME IInv, NEW t \in Msgs, GiveUp(t) PROVE IInv'
<1>1. msg' \in [Msgs -> Message] /\ \A k \in Msgs : k # t => msg'[k] = msg[k]
  BY FreedMessage DEF IInv, TypeOK, Free, GiveUp
<1>2. msg'[t] = Freed
  BY DEF IInv, TypeOK, Free, GiveUp
<1>3. /\ msg'[t].seq = 0 /\ ~ msg'[t].live /\ ~ msg'[t].acked
      /\ msg'[t].retry = 0 /\ ~ msg'[t].pkt /\ ~ msg'[t].copy
  BY <1>2 DEF Freed
<1>4. /\ pc[t] \in {"woken", "late"} /\ ~ up /\ pc' = [pc EXCEPT ![t] = "done"]
      /\ UNCHANGED <<hold, queues, bh, device>>
  BY DEF GiveUp, Goto
<1>5. Members(txq) \subseteq Msgs /\ Members(ackq) \subseteq Msgs /\ Members(doneq) \subseteq Msgs
  BY MembersTyped DEF IInv, TypeOK
<1>6. TypeOK'
  BY <1>1, <1>4 DEF IInv, TypeOK, Pcs, queues, device
<1>7. Hands'
  BY <1>4 DEF IInv, Hands
<1>8. Apart'
  BY <1>4 DEF IInv, Apart, Carried, Waiting, Taken, Carrying, queues
<1>9. Threads'
  <2>1. Fresh'
    BY <1>1, <1>4 DEF IInv, Threads, Fresh, Carried, Waiting, Taken, Carrying, queues
  <2>2. Asleep'
    BY <1>4 DEF IInv, Threads, Asleep, queues
  <2>3. Awake'
    BY <1>4 DEF IInv, Threads, Awake, Carried, Taken, Carrying
  <2>4. Finished'
    BY <1>4 DEF IInv, Threads, Finished, queues
  <2>5. Unanswered'
    BY <1>1, <1>4, <1>5 DEF IInv, TypeOK, Threads, Unanswered, queues, device
  <2> QED
    BY <2>1, <2>2, <2>3, <2>4, <2>5 DEF Threads
<1>10. Packets'
  <2>1. Packed'
    BY <1>1, <1>4 DEF IInv, Packets, Packed, Waiting, Taken, Carrying, Threads, Awake, Asleep,
       queues
  <2>2. CopyKept'
    BY <1>4 DEF IInv, CopyKept, device
  <2>3. CopyMade'
    BY <1>1, <1>3, <1>4 DEF IInv, Hands, Packets, CopyMade
  <2>4. Empty'
    BY <1>1, <1>3 DEF IInv, Packets, Empty
  <2> QED
    BY <2>1, <2>2, <2>3, <2>4 DEF Packets
<1>11. Unloading'
  BY <1>4 DEF IInv, Unloading, device
<1>12. Awaited'
  BY <1>4 DEF IInv, Awaited, Healthy, device
<1>13. Numbers'
  <2>1. \A k \in Msgs : Active(k)' /\ msg'[k].seq # 0 => Active(k) /\ msg'[k].seq = msg[k].seq
    BY <1>1, <1>3, <1>4 DEF IInv, Active, Carried, queues
  <2>2. (up' => up) /\ (reused => reused') /\ fw' \subseteq fw
    BY <1>4 DEF device
  <2> QED
    BY <2>1, <2>2, NumbersStay DEF IInv
<1>14. NoDangling'
  BY <1>4 DEF IInv, NoDangling, Healthy, device
<1>15. NoLateAnswer'
  BY <1>4 DEF IInv, NoLateAnswer, Healthy, device
<1> QED
  BY <1>6, <1>7, <1>8, <1>9, <1>10, <1>11, <1>12, <1>13, <1>14, <1>15 DEF IInv

(* The thread of a command that got no answer sends it again.              *)
LEMMA AgainKeeps ==
  ASSUME IInv, NEW t \in Msgs, Again(t) PROVE IInv'
<1>1. /\ ackq' \in Seq(Msgs) /\ Once(ackq') /\ Members(ackq') = Members(ackq) \ {t}
  BY QueueUnlink DEF IInv, TypeOK, Apart, Threads, Unanswered, Again, Unacked
<1>2. txq' \in Seq(Msgs) /\ Once(txq') /\ Members(txq') = Members(txq) \cup {t}
  BY QueueHead DEF IInv, TypeOK, Apart, Threads, Asleep, Again
<1>3. msg[t].retry \in 0 .. Tries
  BY DEF IInv, TypeOK, Message
<1>4. pc[t] = "late" /\ msg[t].retry > 1 /\ Left(t) = msg[t].retry - 1 /\ Left(t) \in 0 .. Tries
  BY <1>3, MsgsAssumption, NoMsgAssumption DEF Again, Left
<1>5. msg[t].copy
  BY <1>4 DEF IInv, Threads, Awake, Asleep, Packets, CopyKept, Waiting, Again
<1>6. msg' \in [Msgs -> Message] /\ \A k \in Msgs : k # t => msg'[k] = msg[k]
  <2>1. \A r \in Message : [r EXCEPT !.pkt = TRUE, !.copy = FALSE, !.acked = FALSE,
                    !.retry = Left(t), !.state = "tx_retransmit"] \in Message
    BY <1>4 DEF Message
  <2>2. /\ msg[t] \in Message
        /\ msg' = [msg EXCEPT ![t] = [msg[t] EXCEPT !.pkt = TRUE, !.copy = FALSE, !.acked = FALSE,
                    !.retry = Left(t), !.state = "tx_retransmit"]]
    BY <1>5 DEF IInv, TypeOK, Again
  <2> HIDE DEF Message
  <2> QED
    BY <2>1, <2>2 DEF IInv, TypeOK
<1>7. /\ msg'[t].state = ("tx_retransmit")
      /\ msg'[t].acked = FALSE
      /\ msg'[t].retry = Left(t)
      /\ msg'[t].pkt = TRUE
      /\ msg'[t].copy = (FALSE)
      /\ msg'[t].seq = msg[t].seq
      /\ msg'[t].live = msg[t].live
  BY <1>5 DEF IInv, TypeOK, Again
<1>8. /\ up /\ pc' = [pc EXCEPT ![t] = "loop"]
      /\ UNCHANGED <<hold, doneq, bh, device>>
  BY DEF Again, Goto
<1>9. Members(txq) \subseteq Msgs /\ Members(ackq) \subseteq Msgs /\ Members(doneq) \subseteq Msgs
  BY MembersTyped DEF IInv, TypeOK
<1>10. TypeOK'
  BY <1>1, <1>2, <1>6, <1>8 DEF IInv, TypeOK, Pcs, device
<1>11. Hands'
  BY <1>4, <1>8 DEF IInv, Hands
<1>12. Apart'
  BY <1>1, <1>2, <1>4, <1>8
     DEF IInv, Apart, Carried, Waiting, Taken, Carrying, Threads, Finished, Awake, Asleep
<1>13. Threads'
  <2>1. Fresh'
    BY <1>1, <1>2, <1>4, <1>6, <1>8 DEF IInv, Threads, Fresh, Carried, Waiting, Taken, Carrying
  <2>2. Asleep'
    BY <1>2, <1>8 DEF IInv, TypeOK, Threads, Asleep
  <2>3. Awake'
    BY <1>4, <1>8 DEF IInv, Threads, Awake, Carried, Taken, Carrying
  <2>4. Finished'
    BY <1>4, <1>8 DEF IInv, Threads, Finished
  <2>5. Unanswered'
    BY <1>1, <1>6, <1>8, <1>9 DEF IInv, Threads, Unanswered
  <2> QED
    BY <2>1, <2>2, <2>3, <2>4, <2>5 DEF Threads
<1>14. Packets'
  <2>1. Packed'
    BY <1>2, <1>4, <1>6, <1>7, <1>8 DEF IInv, Packets, Packed, Waiting, Taken, Carrying
  <2>2. CopyKept'
    BY <1>2, <1>6, <1>8 DEF IInv, Packets, CopyKept, Waiting, Taken, Carrying
  <2>3. CopyMade'
    BY <1>4, <1>6, <1>8 DEF IInv, Hands, Packets, CopyMade, Threads, Awake, Taken, Carrying, New
  <2>4. Empty'
    BY <1>4, <1>6, <1>7 DEF IInv, Packets, Empty
  <2> QED
    BY <2>1, <2>2, <2>3, <2>4 DEF Packets
<1>15. Unloading'
  BY <1>8 DEF IInv, Unloading, device
<1>16. Awaited'
  BY <1>2, <1>4, <1>8 DEF IInv, Awaited, Healthy, Waiting, Taken, Carrying, device
<1>17. Numbers'
  <2>1. \A k \in Msgs : Active(k)' /\ msg'[k].seq # 0 => Active(k) /\ msg'[k].seq = msg[k].seq
    BY <1>6, <1>7, <1>8 DEF IInv, Active, Carried
  <2>2. (up' => up) /\ (reused => reused') /\ fw' \subseteq fw
    BY <1>8 DEF device
  <2> QED
    BY <2>1, <2>2, NumbersStay DEF IInv
<1>18. NoDangling'
  BY <1>1, <1>2, <1>4, <1>6, <1>7, <1>8
     DEF IInv, NoDangling, Healthy, Carrying, Threads, Asleep, device
<1>19. NoLateAnswer'
  BY <1>1, <1>8 DEF IInv, NoLateAnswer, Healthy, device
<1> QED
  BY <1>10, <1>11, <1>12, <1>13, <1>14, <1>15, <1>16, <1>17, <1>18, <1>19 DEF IInv

(* The thread of a command is through with it, and frees it.               *)
LEMMA FinishKeeps ==
  ASSUME IInv, NEW t \in Msgs, Finish(t) PROVE IInv'
<1>1. /\ ackq' \in Seq(Msgs) /\ Once(ackq') /\ Members(ackq') = Members(ackq) \ {t}
  BY QueueUnlink DEF IInv, TypeOK, Apart, Threads, Unanswered, Finish, Unacked
<1>2. doneq' \in Seq(Msgs) /\ Once(doneq') /\ Members(doneq') = Members(doneq) \cup {t}
  BY QueueTail DEF IInv, TypeOK, Apart, Threads, Asleep, Finished, Finish
<1>3. msg' \in [Msgs -> Message] /\ \A k \in Msgs : k # t => msg'[k] = msg[k]
  <2>1. \A r \in Message : [r EXCEPT !.retry = 0, !.state = "tx_done"] \in Message
    BY NoTries DEF Message
  <2>2. /\ msg[t] \in Message
        /\ msg' = [msg EXCEPT ![t] = [msg[t] EXCEPT !.retry = 0, !.state = "tx_done"]]
    BY DEF IInv, TypeOK, Finish
  <2> HIDE DEF Message
  <2> QED
    BY <2>1, <2>2 DEF IInv, TypeOK
<1>4. /\ msg'[t].state = ("tx_done")
      /\ msg'[t].retry = 0
      /\ msg'[t].seq = msg[t].seq
      /\ msg'[t].live = msg[t].live
      /\ msg'[t].acked = msg[t].acked
      /\ msg'[t].pkt = msg[t].pkt
      /\ msg'[t].copy = msg[t].copy
  BY DEF IInv, TypeOK, Finish
<1>5. /\ pc[t] \in {"woken", "late"} /\ up /\ pc' = [pc EXCEPT ![t] = "done"]
      /\ UNCHANGED <<hold, txq, bh, device>>
  BY DEF Finish, Goto
<1>6. Members(txq) \subseteq Msgs /\ Members(ackq) \subseteq Msgs /\ Members(doneq) \subseteq Msgs
  BY MembersTyped DEF IInv, TypeOK
<1>7. TypeOK'
  BY <1>1, <1>2, <1>3, <1>5 DEF IInv, TypeOK, Pcs, device
<1>8. Hands'
  BY <1>5 DEF IInv, Hands
<1>9. Apart'
  BY <1>1, <1>2, <1>5 DEF IInv, Apart, Carried, Waiting, Taken, Carrying, Threads, Awake, Asleep
<1>10. Threads'
  <2>1. Fresh'
    BY <1>1, <1>2, <1>3, <1>5 DEF IInv, Threads, Fresh, Carried, Waiting, Taken, Carrying
  <2>2. Asleep'
    BY <1>5 DEF IInv, Threads, Asleep
  <2>3. Awake'
    BY <1>5 DEF IInv, Threads, Awake, Carried, Taken, Carrying
  <2>4. Finished'
    BY <1>2, <1>5 DEF IInv, TypeOK, Threads, Finished
  <2>5. Unanswered'
    BY <1>1, <1>3, <1>5, <1>6 DEF IInv, Threads, Unanswered
  <2> QED
    BY <2>1, <2>2, <2>3, <2>4, <2>5 DEF Threads
<1>11. Packets'
  <2>1. Packed'
    BY <1>3, <1>4, <1>5 DEF IInv, Packets, Packed, Waiting, Taken, Carrying
  <2>2. CopyKept'
    BY <1>3, <1>4, <1>5 DEF IInv, Packets, CopyKept, Waiting, Taken, Carrying
  <2>3. CopyMade'
    <3> SUFFICES ASSUME NEW u \in Msgs, pc'[u] = "kick", msg'[hold'[u]].retry > 1
                 PROVE  msg'[hold'[u]].copy
      BY DEF CopyMade
    <3>1. pc[u] = "kick" /\ hold'[u] = hold[u] /\ hold[u] \in Msgs
      BY <1>5 DEF IInv, Hands
    <3>2. hold[u] # t
      BY <1>5 DEF IInv, Threads, Awake, Taken, Carrying
    <3>3. msg'[hold'[u]] = msg[hold[u]]
      BY <1>3, <3>1, <3>2
    <3> QED
      BY <3>1, <3>3 DEF IInv, Packets, CopyMade
  <2>4. Empty'
    BY <1>3, <1>4 DEF IInv, Packets, Empty
  <2> QED
    BY <2>1, <2>2, <2>3, <2>4 DEF Packets
<1>12. Unloading'
  BY <1>5 DEF IInv, Unloading, device
<1>13. Awaited'
  BY <1>5 DEF IInv, Awaited, Healthy, Waiting, Taken, Carrying, Threads, Awake, Asleep, device
<1>14. Numbers'
  <2>1. \A k \in Msgs : Active(k)' /\ msg'[k].seq # 0 => Active(k) /\ msg'[k].seq = msg[k].seq
    BY <1>2, <1>3, <1>4, <1>5 DEF IInv, Active, Carried
  <2>2. (up' => up) /\ (reused => reused') /\ fw' \subseteq fw
    BY <1>5 DEF device
  <2> QED
    BY <2>1, <2>2, NumbersStay DEF IInv
<1>15. NoDangling'
  BY <1>1, <1>2, <1>3, <1>4, <1>5
     DEF IInv, NoDangling, Healthy, Carrying, Threads, Asleep, device
<1>16. NoLateAnswer'
  BY <1>1, <1>5 DEF IInv, NoLateAnswer, Healthy, device
<1> QED
  BY <1>7, <1>8, <1>9, <1>10, <1>11, <1>12, <1>13, <1>14, <1>15, <1>16 DEF IInv

-----------------------------------------------------------------------------
(* What an answer changes in the messages.                                 *)
LEMMA AnsweredMsg ==
  ASSUME NEW c, Answer(c), msg \in [Msgs -> Message]
    PROVE  /\ msg' \in [Msgs -> Message]
           /\ \A k \in Msgs : \/ msg'[k] = msg[k]
                              \/ k \in Members(ackq) /\ msg'[k] = [msg[k] EXCEPT !.acked = TRUE]
<1>1. CASE Matching(c) = {}
  BY <1>1 DEF Answer
<1>2. CASE Matching(c) # {}
  <2>1. PICK i \in Matching(c) : msg' = Set(ackq[i], "acked", TRUE)
    BY <1>2 DEF Answer
  <2>2. ackq[i] \in Members(ackq)
    BY DEF Matching, Members
  <2>3. \A k \in Msgs : [msg[k] EXCEPT !.acked = TRUE] \in Message
    BY DEF Message
  <2>4. msg' = [msg EXCEPT ![ackq[i]] = [msg[ackq[i]] EXCEPT !.acked = TRUE]]
    BY <2>1 DEF Set
  <2> QED
    BY <2>2, <2>3, <2>4
<1> QED
  BY <1>1, <1>2

(* The answer of the firmware completes a message of ackq.                 *)
LEMMA AnswerKeeps ==
  ASSUME IInv, NEW c, Answer(c) PROVE IInv'
<1>1. Members(ackq) \subseteq Msgs
  BY MembersTyped DEF IInv, TypeOK
<1>2. /\ msg' \in [Msgs -> Message]
      /\ \A k \in Msgs : \/ msg'[k] = msg[k]
                         \/ k \in Members(ackq) /\ msg'[k] = [msg[k] EXCEPT !.acked = TRUE]
  BY AnsweredMsg DEF IInv, TypeOK
<1>3. \A k \in Msgs : /\ msg'[k].state = msg[k].state /\ msg'[k].seq = msg[k].seq
                      /\ msg'[k].live = msg[k].live
                      /\ msg'[k].retry = msg[k].retry /\ msg'[k].pkt = msg[k].pkt
                      /\ msg'[k].copy = msg[k].copy
                      /\ msg'[k].acked # msg[k].acked => k \in Members(ackq)
  <2>1. \A r \in Message : LET a == [r EXCEPT !.acked = TRUE] IN
           /\ a.state = r.state /\ a.seq = r.seq /\ a.live = r.live
           /\ a.retry = r.retry /\ a.pkt = r.pkt /\ a.copy = r.copy
    OBVIOUS
  <2>2. \A k \in Msgs : msg[k] \in Message
    BY DEF IInv, TypeOK
  <2> QED
    BY <1>2, <2>1, <2>2
<1>4. \A k \in Msgs : pc[k] = "start" => msg'[k] = msg[k]
  BY <1>2 DEF IInv, Threads, Fresh
<1>5. /\ up /\ c \in fw /\ fw' = fw \ {c}
      /\ UNCHANGED <<pc, hold, queues, bh, cmdSeq, up, inband, exit, full, off, reused>>
  BY DEF Answer
<1>6. Members(txq) \subseteq Msgs /\ Members(ackq) \subseteq Msgs /\ Members(doneq) \subseteq Msgs
  BY MembersTyped DEF IInv, TypeOK
<1>7. TypeOK'
  BY <1>2, <1>5 DEF IInv, TypeOK, queues
<1>8. Hands'
  BY <1>5 DEF IInv, Hands
<1>9. Apart'
  BY <1>5 DEF IInv, Apart, Carried, Waiting, Taken, Carrying, queues
<1>10. Threads'
  <2>1. Fresh'
    BY <1>4, <1>5 DEF IInv, Threads, Fresh, Carried, Waiting, Taken, Carrying, queues
  <2>2. Asleep'
    BY <1>5 DEF IInv, Threads, Asleep, queues
  <2>3. Awake'
    BY <1>5 DEF IInv, Threads, Awake, Carried, Taken, Carrying
  <2>4. Finished'
    BY <1>5 DEF IInv, Threads, Finished, queues
  <2>5. Unanswered'
    BY <1>3, <1>5, <1>6 DEF IInv, Threads, Unanswered, queues
  <2> QED
    BY <2>1, <2>2, <2>3, <2>4, <2>5 DEF Threads
<1>11. Packets'
  <2>1. Packed'
    BY <1>3, <1>5 DEF IInv, Packets, Packed, Waiting, Taken, Carrying, Apart, queues
  <2>2. CopyKept'
    BY <1>3, <1>5 DEF IInv, Packets, CopyKept, Waiting, Taken, Carrying, queues
  <2>3. CopyMade'
    BY <1>3, <1>5 DEF IInv, Hands, Packets, CopyMade
  <2>4. Empty'
    BY <1>3 DEF IInv, Packets, Empty
  <2> QED
    BY <2>1, <2>2, <2>3, <2>4 DEF Packets
<1>12. Unloading'
  BY <1>5 DEF IInv, Unloading
<1>13. Awaited'
  BY <1>5 DEF IInv, Awaited, Healthy, Waiting, Taken, Carrying, queues
<1>14. Numbers'
  <2>1. \A k \in Msgs : Active(k)' /\ msg'[k].seq # 0 => Active(k) /\ msg'[k].seq = msg[k].seq
    BY <1>3, <1>5 DEF IInv, Active, Carried, queues
  <2>2. (up' => up) /\ (reused => reused') /\ fw' \subseteq fw
    BY <1>5
  <2> QED
    BY <2>1, <2>2, NumbersStay DEF IInv
<1>15. NoDangling'
  BY <1>3, <1>5 DEF IInv, NoDangling, Healthy, Carrying, queues
<1>16. NoLateAnswer'
  BY <1>5 DEF IInv, NoLateAnswer, Healthy, queues
<1> QED
  BY <1>7, <1>8, <1>9, <1>10, <1>11, <1>12, <1>13, <1>14, <1>15, <1>16 DEF IInv

(* The tasklet frees a message of doneq.                                   *)
LEMMA BhFreeKeeps ==
  ASSUME IInv, BhFree PROVE IInv'
<1>1. /\ doneq' \in Seq(Msgs) /\ Once(doneq') /\ Members(doneq') = Members(doneq) \ {Head(doneq)}
      /\ Head(doneq) \in Members(doneq) /\ Head(doneq) \in Msgs
  BY QueueRest DEF IInv, TypeOK, Apart, BhFree
<1>2. msg' \in [Msgs -> Message] /\ \A k \in Msgs : k # Head(doneq) => msg'[k] = msg[k]
  BY FreedMessage DEF IInv, TypeOK, Free, BhFree
<1>3. msg'[Head(doneq)] = Freed
  BY DEF IInv, TypeOK, Free, BhFree
<1>4. /\ msg'[Head(doneq)].seq = 0 /\ ~ msg'[Head(doneq)].live /\ ~ msg'[Head(doneq)].acked
      /\ msg'[Head(doneq)].retry = 0 /\ ~ msg'[Head(doneq)].pkt /\ ~ msg'[Head(doneq)].copy
  BY <1>3 DEF Freed
<1>5. \A k \in Msgs : Waiting(k)' <=> Waiting(k)
  BY DEF BhFree, Waiting, Taken, Carrying
<1>6. Head(doneq) \notin Members(ackq) /\ ~ Waiting(Head(doneq))
  BY <1>1 DEF IInv, Apart
<1>7. /\ bh
      /\ UNCHANGED <<pc, hold, txq, ackq, bh, device>>
  BY DEF BhFree
<1>8. Members(txq) \subseteq Msgs /\ Members(ackq) \subseteq Msgs /\ Members(doneq) \subseteq Msgs
  BY MembersTyped DEF IInv, TypeOK
<1>9. TypeOK'
  BY <1>1, <1>2, <1>7 DEF IInv, TypeOK, device
<1>10. Hands'
  BY <1>7 DEF IInv, Hands
<1>11. Apart'
  BY <1>1, <1>5, <1>7 DEF IInv, Apart, Carried
<1>12. Threads'
  <2>1. Fresh'
    BY <1>1, <1>2, <1>5, <1>7 DEF IInv, Threads, Fresh, Carried
  <2>2. Asleep'
    BY <1>7 DEF IInv, Threads, Asleep
  <2>3. Awake'
    BY <1>7 DEF IInv, Threads, Awake, Carried, Taken, Carrying
  <2>4. Finished'
    BY <1>1, <1>7 DEF IInv, Threads, Finished
  <2>5. Unanswered'
    BY <1>2, <1>6, <1>7, <1>8 DEF IInv, Threads, Unanswered, device
  <2> QED
    BY <2>1, <2>2, <2>3, <2>4, <2>5 DEF Threads
<1>13. Packets'
  <2>1. Packed'
    BY <1>2, <1>5, <1>6 DEF IInv, Packets, Packed
  <2>2. CopyKept'
    <3> SUFFICES ASSUME NEW k \in Msgs, up', pc'[k] # "start", msg'[k].retry > 1
                 PROVE  Waiting(k)' \/ msg'[k].copy
      BY DEF CopyKept
    <3>1. k # Head(doneq)
      BY <1>4
    <3>2. msg'[k] = msg[k]
      BY <1>2, <3>1
    <3>3. up /\ pc[k] # "start"
      BY <1>7 DEF device
    <3>4. Waiting(k) \/ msg[k].copy
      BY <3>2, <3>3 DEF IInv, Packets, CopyKept
    <3> QED
      BY <3>2, <3>4, <1>5
  <2>3. CopyMade'
    BY <1>2, <1>4, <1>7 DEF IInv, Hands, Packets, CopyMade
  <2>4. Empty'
    BY <1>2, <1>4 DEF IInv, Packets, Empty
  <2> QED
    BY <2>1, <2>2, <2>3, <2>4 DEF Packets
<1>14. Unloading'
  BY <1>7 DEF IInv, Unloading, device
<1>15. Awaited'
  BY <1>7 DEF IInv, Awaited, Healthy, Waiting, Taken, Carrying, device
<1>16. Numbers'
  <2>1. \A k \in Msgs : Active(k)' /\ msg'[k].seq # 0 => Active(k) /\ msg'[k].seq = msg[k].seq
    BY <1>1, <1>2, <1>4, <1>7 DEF IInv, Active, Carried
  <2>2. (up' => up) /\ (reused => reused') /\ fw' \subseteq fw
    BY <1>7 DEF device
  <2> QED
    BY <2>1, <2>2, NumbersStay DEF IInv
<1>17. NoDangling'
  BY <1>1, <1>2, <1>5, <1>6, <1>7
     DEF IInv, NoDangling, Healthy, Waiting, Taken, Threads, Finished, device
<1>18. NoLateAnswer'
  BY <1>7 DEF IInv, NoLateAnswer, Healthy, device
<1> QED
  BY <1>9, <1>10, <1>11, <1>12, <1>13, <1>14, <1>15, <1>16, <1>17, <1>18 DEF IInv

(* The tasklet has emptied doneq.                                          *)
LEMMA BhEndKeeps ==
  ASSUME IInv, BhEnd PROVE IInv'
<1>1. TypeOK'
  BY DEF IInv, TypeOK, BhEnd, queues, device
<1>2. Hands'
  BY DEF IInv, Hands, BhEnd
<1>3. Apart'
  BY DEF IInv, Apart, Carried, Waiting, Taken, Carrying, BhEnd, queues
<1>4. Threads'
  <2>1. Fresh'
    BY DEF IInv, Threads, Fresh, Carried, Waiting, Taken, Carrying, BhEnd, queues
  <2>2. Asleep'
    BY DEF IInv, Threads, Asleep, BhEnd, queues
  <2>3. Awake'
    BY DEF IInv, Threads, Awake, Carried, Taken, Carrying, BhEnd
  <2>4. Finished'
    BY DEF IInv, Threads, Finished, BhEnd, queues
  <2>5. Unanswered'
    BY DEF IInv, Threads, Unanswered, BhEnd, queues, device
  <2> QED
    BY <2>1, <2>2, <2>3, <2>4, <2>5 DEF Threads
<1>5. Packets'
  <2>1. Packed'
    BY DEF IInv, Packets, Packed, Waiting, Taken, Carrying, BhEnd, queues
  <2>2. CopyKept'
    BY DEF IInv, Packets, CopyKept, Waiting, Taken, Carrying, BhEnd, queues, device
  <2>3. CopyMade'
    BY DEF IInv, Packets, CopyMade, BhEnd
  <2>4. Empty'
    BY DEF IInv, Packets, Empty, BhEnd
  <2> QED
    BY <2>1, <2>2, <2>3, <2>4 DEF Packets
<1>6. Unloading'
  BY DEF IInv, Unloading, BhEnd, device
<1>7. Awaited'
  BY DEF IInv, Awaited, Healthy, Waiting, Taken, Carrying, BhEnd, queues, device
<1>8. Numbers'
  <2>1. \A k \in Msgs : Active(k)' /\ msg'[k].seq # 0 => Active(k) /\ msg'[k].seq = msg[k].seq
    BY DEF IInv, Active, Carried, BhEnd, queues
  <2>2. (up' => up) /\ (reused => reused') /\ fw' \subseteq fw
    BY DEF BhEnd, device
  <2> QED
    BY <2>1, <2>2, NumbersStay DEF IInv
<1>9. NoDangling'
  BY DEF IInv, NoDangling, Healthy, Carrying, BhEnd, queues, device
<1>10. NoLateAnswer'
  BY DEF IInv, NoLateAnswer, Healthy, BhEnd, queues, device
<1> QED
  BY <1>1, <1>2, <1>3, <1>4, <1>5, <1>6, <1>7, <1>8, <1>9, <1>10 DEF IInv

(* The in-band flag goes off.                                              *)
LEMMA FlagOffKeeps ==
  ASSUME IInv, FlagOff PROVE IInv'
<1>1. off' \in 0 .. MaxOff
  BY MsgsAssumption DEF IInv, TypeOK, FlagOff
<1>2. TypeOK'
  BY <1>1 DEF IInv, TypeOK, FlagOff, queues
<1>3. Hands'
  BY DEF IInv, Hands, FlagOff
<1>4. Apart'
  BY DEF IInv, Apart, Carried, Waiting, Taken, Carrying, FlagOff, queues
<1>5. Threads'
  <2>1. Fresh'
    BY DEF IInv, Threads, Fresh, Carried, Waiting, Taken, Carrying, FlagOff, queues
  <2>2. Asleep'
    BY DEF IInv, Threads, Asleep, FlagOff, queues
  <2>3. Awake'
    BY DEF IInv, Threads, Awake, Carried, Taken, Carrying, FlagOff
  <2>4. Finished'
    BY DEF IInv, Threads, Finished, FlagOff, queues
  <2>5. Unanswered'
    BY DEF IInv, Threads, Unanswered, FlagOff, queues
  <2> QED
    BY <2>1, <2>2, <2>3, <2>4, <2>5 DEF Threads
<1>6. Packets'
  <2>1. Packed'
    BY DEF IInv, Packets, Packed, Waiting, Taken, Carrying, FlagOff, queues
  <2>2. CopyKept'
    BY DEF IInv, Packets, CopyKept, Waiting, Taken, Carrying, FlagOff, queues
  <2>3. CopyMade'
    BY DEF IInv, Packets, CopyMade, FlagOff
  <2>4. Empty'
    BY DEF IInv, Packets, Empty, FlagOff
  <2> QED
    BY <2>1, <2>2, <2>3, <2>4 DEF Packets
<1>7. Unloading'
  BY DEF IInv, Unloading, FlagOff
<1>8. Awaited'
  BY DEF IInv, Awaited, Healthy, Waiting, Taken, Carrying, FlagOff, queues
<1>9. Numbers'
  <2>1. \A k \in Msgs : Active(k)' /\ msg'[k].seq # 0 => Active(k) /\ msg'[k].seq = msg[k].seq
    BY DEF IInv, Active, Carried, FlagOff, queues
  <2>2. (up' => up) /\ (reused => reused') /\ fw' \subseteq fw
    BY DEF FlagOff
  <2> QED
    BY <2>1, <2>2, NumbersStay DEF IInv
<1>10. NoDangling'
  BY DEF IInv, NoDangling, Healthy, Carrying, FlagOff, queues
<1>11. NoLateAnswer'
  BY DEF IInv, NoLateAnswer, Healthy, FlagOff, queues
<1> QED
  BY <1>2, <1>3, <1>4, <1>5, <1>6, <1>7, <1>8, <1>9, <1>10, <1>11 DEF IInv

(* The in-band flag goes on again.                                         *)
LEMMA FlagOnKeeps ==
  ASSUME IInv, FlagOn PROVE IInv'
<1>1. TypeOK'
  BY DEF IInv, TypeOK, FlagOn, queues
<1>2. Hands'
  BY DEF IInv, Hands, FlagOn
<1>3. Apart'
  BY DEF IInv, Apart, Carried, Waiting, Taken, Carrying, FlagOn, queues
<1>4. Threads'
  <2>1. Fresh'
    BY DEF IInv, Threads, Fresh, Carried, Waiting, Taken, Carrying, FlagOn, queues
  <2>2. Asleep'
    BY DEF IInv, Threads, Asleep, FlagOn, queues
  <2>3. Awake'
    BY DEF IInv, Threads, Awake, Carried, Taken, Carrying, FlagOn
  <2>4. Finished'
    BY DEF IInv, Threads, Finished, FlagOn, queues
  <2>5. Unanswered'
    BY DEF IInv, Threads, Unanswered, FlagOn, queues
  <2> QED
    BY <2>1, <2>2, <2>3, <2>4, <2>5 DEF Threads
<1>5. Packets'
  <2>1. Packed'
    BY DEF IInv, Packets, Packed, Waiting, Taken, Carrying, FlagOn, queues
  <2>2. CopyKept'
    BY DEF IInv, Packets, CopyKept, Waiting, Taken, Carrying, FlagOn, queues
  <2>3. CopyMade'
    BY DEF IInv, Packets, CopyMade, FlagOn
  <2>4. Empty'
    BY DEF IInv, Packets, Empty, FlagOn
  <2> QED
    BY <2>1, <2>2, <2>3, <2>4 DEF Packets
<1>6. Unloading'
  BY DEF IInv, Unloading, FlagOn
<1>7. Awaited'
  BY DEF IInv, Awaited, Healthy, Waiting, Taken, Carrying, FlagOn, queues
<1>8. Numbers'
  <2>1. \A k \in Msgs : Active(k)' /\ msg'[k].seq # 0 => Active(k) /\ msg'[k].seq = msg[k].seq
    BY DEF IInv, Active, Carried, FlagOn, queues
  <2>2. (up' => up) /\ (reused => reused') /\ fw' \subseteq fw
    BY DEF FlagOn
  <2> QED
    BY <2>1, <2>2, NumbersStay DEF IInv
<1>9. NoDangling'
  BY DEF IInv, NoDangling, Healthy, Carrying, FlagOn, queues
<1>10. NoLateAnswer'
  BY DEF IInv, NoLateAnswer, Healthy, FlagOn, queues
<1> QED
  BY <1>1, <1>2, <1>3, <1>4, <1>5, <1>6, <1>7, <1>8, <1>9, <1>10 DEF IInv

(* AndesMTMcuExit() clears MCU_INIT.                                       *)
LEMMA ExitKeeps ==
  ASSUME IInv, Exit PROVE IInv'
<1>1. bh' \in BOOLEAN
  BY DEF IInv, Exit, BhSchedule
<1>2. TypeOK'
  BY <1>1 DEF IInv, TypeOK, Exit, queues
<1>3. Hands'
  BY DEF IInv, Hands, Exit
<1>4. Apart'
  BY DEF IInv, Apart, Carried, Waiting, Taken, Carrying, Exit, queues
<1>5. Threads'
  <2>1. Fresh'
    BY DEF IInv, Threads, Fresh, Carried, Waiting, Taken, Carrying, Exit, queues
  <2>2. Asleep'
    BY DEF IInv, Threads, Asleep, Exit, queues
  <2>3. Awake'
    BY DEF IInv, Threads, Awake, Carried, Taken, Carrying, Exit
  <2>4. Finished'
    BY DEF IInv, Threads, Finished, Exit, queues
  <2>5. Unanswered'
    BY DEF IInv, Threads, Unanswered, Exit, queues
  <2> QED
    BY <2>1, <2>2, <2>3, <2>4, <2>5 DEF Threads
<1>6. Packets'
  <2>1. Packed'
    BY DEF IInv, Packets, Packed, Waiting, Taken, Carrying, Exit, queues
  <2>2. CopyKept'
    BY DEF IInv, CopyKept, Exit
  <2>3. CopyMade'
    BY DEF IInv, Packets, CopyMade, Exit
  <2>4. Empty'
    BY DEF IInv, Packets, Empty, Exit
  <2> QED
    BY <2>1, <2>2, <2>3, <2>4 DEF Packets
<1>7. Unloading'
  BY DEF IInv, Unloading, Exit
<1>8. Awaited'
  BY DEF IInv, Awaited, Healthy, Exit
<1>9. Numbers'
  <2>1. \A k \in Msgs : Active(k)' /\ msg'[k].seq # 0 => Active(k) /\ msg'[k].seq = msg[k].seq
    BY DEF IInv, Active, Carried, Exit, queues
  <2>2. (up' => up) /\ (reused => reused') /\ fw' \subseteq fw
    BY DEF Exit
  <2> QED
    BY <2>1, <2>2, NumbersStay DEF IInv
<1>10. NoDangling'
  BY DEF IInv, NoDangling, Healthy, Exit
<1>11. NoLateAnswer'
  BY DEF IInv, NoLateAnswer, Healthy, Exit
<1> QED
  BY <1>2, <1>3, <1>4, <1>5, <1>6, <1>7, <1>8, <1>9, <1>10, <1>11 DEF IInv

(* AndesMTMcuExit() kills the tasklet.                                     *)
LEMMA KillTaskletKeeps ==
  ASSUME IInv, KillTasklet PROVE IInv'
<1>1. TypeOK'
  BY DEF IInv, TypeOK, KillTasklet, queues
<1>2. Hands'
  BY DEF IInv, Hands, KillTasklet
<1>3. Apart'
  BY DEF IInv, Apart, Carried, Waiting, Taken, Carrying, KillTasklet, queues
<1>4. Threads'
  <2>1. Fresh'
    BY DEF IInv, Threads, Fresh, Carried, Waiting, Taken, Carrying, KillTasklet, queues
  <2>2. Asleep'
    BY DEF IInv, Threads, Asleep, KillTasklet, queues
  <2>3. Awake'
    BY DEF IInv, Threads, Awake, Carried, Taken, Carrying, KillTasklet
  <2>4. Finished'
    BY DEF IInv, Threads, Finished, KillTasklet, queues
  <2>5. Unanswered'
    BY DEF IInv, Threads, Unanswered, KillTasklet, queues
  <2> QED
    BY <2>1, <2>2, <2>3, <2>4, <2>5 DEF Threads
<1>5. Packets'
  <2>1. Packed'
    BY DEF IInv, Packets, Packed, Waiting, Taken, Carrying, KillTasklet, queues
  <2>2. CopyKept'
    BY DEF IInv, Packets, CopyKept, Waiting, Taken, Carrying, KillTasklet, queues
  <2>3. CopyMade'
    BY DEF IInv, Packets, CopyMade, KillTasklet
  <2>4. Empty'
    BY DEF IInv, Packets, Empty, KillTasklet
  <2> QED
    BY <2>1, <2>2, <2>3, <2>4 DEF Packets
<1>6. Unloading'
  BY DEF IInv, Unloading, KillTasklet
<1>7. Awaited'
  BY DEF IInv, Awaited, Healthy, Unloading, KillTasklet
<1>8. Numbers'
  <2>1. \A k \in Msgs : Active(k)' /\ msg'[k].seq # 0 => Active(k) /\ msg'[k].seq = msg[k].seq
    BY DEF IInv, Active, Carried, KillTasklet, queues
  <2>2. (up' => up) /\ (reused => reused') /\ fw' \subseteq fw
    BY DEF KillTasklet
  <2> QED
    BY <2>1, <2>2, NumbersStay DEF IInv
<1>9. NoDangling'
  BY DEF IInv, NoDangling, Healthy, Carrying, KillTasklet, queues
<1>10. NoLateAnswer'
  BY DEF IInv, NoLateAnswer, Healthy, KillTasklet, queues
<1> QED
  BY <1>1, <1>2, <1>3, <1>4, <1>5, <1>6, <1>7, <1>8, <1>9, <1>10 DEF IInv

(* What AndesCleanupCmdMsg() leaves in the messages are messages.          *)
LEMMA CleanedTyped ==
  ASSUME TypeOK, NEW q PROVE Cleaned(q) \in [Msgs -> Message]
<1>1. \A r \in Message : [r EXCEPT !.acked = TRUE] \in Message
  BY DEF Message
<1>2. \A m \in Msgs : msg[m] \in Message
  BY DEF TypeOK
<1> QED
  BY <1>1, <1>2, FreedMessage DEF Cleaned

(* AndesMTMcuExit() empties txq,                                           *)
LEMMA CleanTxKeeps ==
  ASSUME IInv, CleanTx PROVE IInv'
<1>1. txq' \in Seq(Msgs) /\ Once(txq') /\ Members(txq') = {}
  BY EmptyQueue DEF CleanTx
<1>2. ~ up
  BY DEF IInv, Unloading, CleanTx
<1>3. msg' \in [Msgs -> Message]
  BY CleanedTyped DEF IInv, CleanTx
<1>4. Members(txq) \subseteq Msgs /\ Members(ackq) \subseteq Msgs /\ Members(doneq) \subseteq Msgs
  BY MembersTyped DEF IInv, TypeOK
<1>5. TypeOK'
  BY <1>3 DEF IInv, TypeOK, CleanTx
<1>6. Hands'
  BY DEF IInv, Hands, CleanTx
<1>7. Apart'
  BY <1>1 DEF IInv, Apart, Waiting, Taken, Carrying, CleanTx
<1>8. Threads'
  <2>1. Fresh'
    BY <1>1 DEF IInv, Threads, Fresh, Carried, Waiting, Taken, Carrying, CleanTx, Cleaned
  <2>2. Asleep'
    BY <1>1 DEF IInv, Threads, Asleep, CleanTx
  <2>3. Awake'
    BY DEF IInv, Threads, Awake, Carried, Taken, Carrying, CleanTx
  <2>4. Finished'
    BY DEF IInv, Threads, Finished, CleanTx
  <2>5. Unanswered'
    BY <1>4 DEF IInv, Threads, Unanswered, Apart, CleanTx, Cleaned
  <2> QED
    BY <2>1, <2>2, <2>3, <2>4, <2>5 DEF Threads
<1>9. Packets'
  <2>1. Packed'
    BY <1>1 DEF IInv, Packets, Packed, Waiting, Taken, Carrying, Apart, Carried, CleanTx,
       Cleaned
  <2>2. CopyKept'
    BY <1>2 DEF IInv, CopyKept, CleanTx
  <2>3. CopyMade'
    BY DEF IInv, Hands, Packets, CopyMade, CleanTx, Cleaned, Freed
  <2>4. Empty'
    BY DEF IInv, Packets, Empty, CleanTx, Cleaned, Freed
  <2> QED
    BY <2>1, <2>2, <2>3, <2>4 DEF Packets
<1>10. Unloading'
  BY DEF IInv, Unloading, CleanTx
<1>11. Awaited'
  BY DEF IInv, Awaited, Healthy, Unloading, CleanTx
<1>12. Numbers'
  BY <1>2 DEF Numbers, Different, Own, CleanTx
<1>13. NoDangling'
  BY <1>2 DEF IInv, NoDangling, Healthy, CleanTx
<1>14. NoLateAnswer'
  BY DEF IInv, NoLateAnswer, Healthy, CleanTx
<1> QED
  BY <1>5, <1>6, <1>7, <1>8, <1>9, <1>10, <1>11, <1>12, <1>13, <1>14 DEF IInv

(* then ackq,                                                              *)
LEMMA CleanAckKeeps ==
  ASSUME IInv, CleanAck PROVE IInv'
<1>1. ackq' \in Seq(Msgs) /\ Once(ackq') /\ Members(ackq') = {}
  BY EmptyQueue DEF CleanAck
<1>2. ~ up
  BY DEF IInv, Unloading, CleanAck
<1>3. msg' \in [Msgs -> Message]
  BY CleanedTyped DEF IInv, CleanAck
<1>4. Members(txq) \subseteq Msgs /\ Members(ackq) \subseteq Msgs /\ Members(doneq) \subseteq Msgs
  BY MembersTyped DEF IInv, TypeOK
<1>5. TypeOK'
  BY <1>3 DEF IInv, TypeOK, CleanAck
<1>6. Hands'
  BY DEF IInv, Hands, CleanAck
<1>7. Apart'
  BY <1>1 DEF IInv, Apart, Carried, Waiting, Taken, Carrying, CleanAck
<1>8. Threads'
  <2>1. Fresh'
    BY <1>1 DEF IInv, Threads, Fresh, Carried, Waiting, Taken, Carrying, CleanAck, Cleaned
  <2>2. Asleep'
    BY DEF IInv, Threads, Asleep, CleanAck
  <2>3. Awake'
    BY DEF IInv, Threads, Awake, Carried, Taken, Carrying, CleanAck
  <2>4. Finished'
    BY DEF IInv, Threads, Finished, CleanAck
  <2>5. Unanswered'
    BY <1>1 DEF IInv, Unanswered
  <2> QED
    BY <2>1, <2>2, <2>3, <2>4, <2>5 DEF Threads
<1>9. Packets'
  <2>1. Packed'
    BY DEF IInv, Packets, Packed, Waiting, Taken, Carrying, Apart, CleanAck, Cleaned
  <2>2. CopyKept'
    BY <1>2 DEF IInv, CopyKept, CleanAck
  <2>3. CopyMade'
    BY DEF IInv, Hands, Packets, CopyMade, CleanAck, Cleaned, Freed
  <2>4. Empty'
    BY DEF IInv, Packets, Empty, CleanAck, Cleaned, Freed
  <2> QED
    BY <2>1, <2>2, <2>3, <2>4 DEF Packets
<1>10. Unloading'
  BY DEF IInv, Unloading, CleanAck
<1>11. Awaited'
  BY DEF IInv, Awaited, Healthy, Waiting, Taken, Carrying, CleanAck
<1>12. Numbers'
  <2>1. \A k \in Msgs : Active(k)' /\ msg'[k].seq # 0 => Active(k) /\ msg'[k].seq = msg[k].seq
    BY DEF IInv, Active, Carried, CleanAck, Cleaned, Freed
  <2>2. (up' => up) /\ (reused => reused') /\ fw' \subseteq fw
    BY DEF CleanAck
  <2> QED
    BY <2>1, <2>2, NumbersStay DEF IInv
<1>13. NoDangling'
  BY <1>2 DEF IInv, NoDangling, Healthy, CleanAck
<1>14. NoLateAnswer'
  BY <1>2 DEF IInv, NoLateAnswer, Healthy, CleanAck
<1> QED
  BY <1>5, <1>6, <1>7, <1>8, <1>9, <1>10, <1>11, <1>12, <1>13, <1>14 DEF IInv

(* then doneq.                                                             *)
LEMMA CleanDoneKeeps ==
  ASSUME IInv, CleanDone PROVE IInv'
<1>1. doneq' \in Seq(Msgs) /\ Once(doneq') /\ Members(doneq') = {}
  BY EmptyQueue DEF CleanDone
<1>2. ~ up
  BY DEF IInv, Unloading, CleanDone
<1>3. msg' \in [Msgs -> Message]
  BY CleanedTyped DEF IInv, CleanDone
<1>4. Members(txq) \subseteq Msgs /\ Members(ackq) \subseteq Msgs /\ Members(doneq) \subseteq Msgs
  BY MembersTyped DEF IInv, TypeOK
<1>5. TypeOK'
  BY <1>3 DEF IInv, TypeOK, CleanDone
<1>6. Hands'
  BY DEF IInv, Hands, CleanDone
<1>7. Apart'
  BY <1>1 DEF IInv, Apart, Carried, Waiting, Taken, Carrying, CleanDone
<1>8. Threads'
  <2>1. Fresh'
    BY <1>1 DEF IInv, Threads, Fresh, Carried, Waiting, Taken, Carrying, CleanDone, Cleaned
  <2>2. Asleep'
    BY DEF IInv, Threads, Asleep, CleanDone
  <2>3. Awake'
    BY DEF IInv, Threads, Awake, Carried, Taken, Carrying, CleanDone
  <2>4. Finished'
    BY <1>1 DEF IInv, Finished
  <2>5. Unanswered'
    BY <1>4 DEF IInv, Threads, Unanswered, Apart, CleanDone, Cleaned
  <2> QED
    BY <2>1, <2>2, <2>3, <2>4, <2>5 DEF Threads
<1>9. Packets'
  <2>1. Packed'
    BY DEF IInv, Packets, Packed, Waiting, Taken, Carrying, Apart, CleanDone, Cleaned
  <2>2. CopyKept'
    BY <1>2 DEF IInv, CopyKept, CleanDone
  <2>3. CopyMade'
    BY DEF IInv, Hands, Packets, CopyMade, CleanDone, Cleaned, Freed
  <2>4. Empty'
    BY DEF IInv, Packets, Empty, CleanDone, Cleaned, Freed
  <2> QED
    BY <2>1, <2>2, <2>3, <2>4 DEF Packets
<1>10. Unloading'
  BY DEF IInv, Unloading, CleanDone
<1>11. Awaited'
  BY DEF IInv, Awaited, Healthy, Waiting, Taken, Carrying, CleanDone
<1>12. Numbers'
  BY <1>2 DEF Numbers, Different, Own, CleanDone
<1>13. NoDangling'
  BY <1>2 DEF IInv, NoDangling, Healthy, CleanDone
<1>14. NoLateAnswer'
  BY DEF IInv, NoLateAnswer, Healthy, CleanDone
<1> QED
  BY <1>5, <1>6, <1>7, <1>8, <1>9, <1>10, <1>11, <1>12, <1>13, <1>14 DEF IInv

(* A step of nothing.                                                      *)
LEMMA StutterKeeps ==
  ASSUME IInv, UNCHANGED vars PROVE IInv'
<1>1. TypeOK'
  BY DEF IInv, TypeOK, vars, queues, device
<1>2. Hands'
  BY DEF IInv, Hands, vars
<1>3. Apart'
  BY DEF IInv, Apart, Carried, Waiting, Taken, Carrying, vars, queues
<1>4. Threads'
  <2>1. Fresh'
    BY DEF IInv, Threads, Fresh, Carried, Waiting, Taken, Carrying, vars, queues
  <2>2. Asleep'
    BY DEF IInv, Threads, Asleep, vars, queues
  <2>3. Awake'
    BY DEF IInv, Threads, Awake, Carried, Taken, Carrying, vars
  <2>4. Finished'
    BY DEF IInv, Threads, Finished, vars, queues
  <2>5. Unanswered'
    BY DEF IInv, Threads, Unanswered, vars, queues, device
  <2> QED
    BY <2>1, <2>2, <2>3, <2>4, <2>5 DEF Threads
<1>5. Packets'
  <2>1. Packed'
    BY DEF IInv, Packets, Packed, Waiting, Taken, Carrying, vars, queues
  <2>2. CopyKept'
    BY DEF IInv, Packets, CopyKept, Waiting, Taken, Carrying, vars, queues, device
  <2>3. CopyMade'
    BY DEF IInv, Packets, CopyMade, vars
  <2>4. Empty'
    BY DEF IInv, Packets, Empty, vars
  <2> QED
    BY <2>1, <2>2, <2>3, <2>4 DEF Packets
<1>6. Unloading'
  BY DEF IInv, Unloading, vars, device
<1>7. Awaited'
  BY DEF IInv, Awaited, Healthy, Waiting, Taken, Carrying, vars, queues, device
<1>8. Numbers'
  <2>1. \A k \in Msgs : Active(k)' /\ msg'[k].seq # 0 => Active(k) /\ msg'[k].seq = msg[k].seq
    BY DEF IInv, Active, Carried, vars, queues
  <2>2. (up' => up) /\ (reused => reused') /\ fw' \subseteq fw
    BY DEF vars, device
  <2> QED
    BY <2>1, <2>2, NumbersStay DEF IInv
<1>9. NoDangling'
  BY DEF IInv, NoDangling, Healthy, Carrying, vars, queues, device
<1>10. NoLateAnswer'
  BY DEF IInv, NoLateAnswer, Healthy, vars, queues, device
<1> QED
  BY <1>1, <1>2, <1>3, <1>4, <1>5, <1>6, <1>7, <1>8, <1>9, <1>10 DEF IInv

-----------------------------------------------------------------------------
(* The driver starts with nothing queued.                                  *)
LEMMA InitInv == Init => IInv
<1> SUFFICES ASSUME Init PROVE IInv
  OBVIOUS
<1>1. /\ Members(txq) = {} /\ Members(ackq) = {} /\ Members(doneq) = {}
      /\ Once(txq) /\ Once(ackq) /\ Once(doneq)
      /\ txq \in Seq(Msgs) /\ ackq \in Seq(Msgs) /\ doneq \in Seq(Msgs)
  BY EmptyQueue DEF Init
<1>2. \A m \in Msgs :
        /\ pc[m] = "start" /\ hold[m] = NoMsg /\ msg[m] = New(m) /\ New(m) \in Message
        /\ msg[m].seq = 0 /\ msg[m].live /\ msg[m].pkt /\ ~ msg[m].acked
  <2>1. ASSUME NEW m \in Msgs PROVE New(m) \in Message
    <3>1. 0 \in 0 .. Tries /\ Tries \in 0 .. Tries /\ 0 \in 0 .. SeqMax
      BY MsgsAssumption
    <3> QED
      BY <3>1 DEF New, Message
  <2>2. \A m \in Msgs : New(m).seq = 0 /\ New(m).live /\ New(m).pkt /\ ~ New(m).acked
    BY DEF New
  <2> QED
    BY <2>1, <2>2 DEF Init
<1>3. \A m \in Msgs : ~ Carried(m) /\ ~ Waiting(m) /\ ~ Taken(m)
  BY <1>1, <1>2, NoMsgAssumption DEF Carried, Waiting, Taken, Carrying
<1>4. TypeOK
  <2>1. \A m \in Msgs : msg[m] \in Message
    BY <1>2
  <2>2. msg \in [Msgs -> Message]
    BY <2>1 DEF Init
  <2>3. pc \in [Msgs -> Pcs] /\ hold \in [Msgs -> Msgs \cup {NoMsg}]
    BY DEF Init, Pcs
  <2>4. cmdSeq \in 0 .. SeqMax /\ full \in 0 .. MaxFull /\ off \in 0 .. MaxOff
    BY MsgsAssumption DEF Init
  <2> QED
    BY <1>1, <2>2, <2>3, <2>4 DEF TypeOK, Init
<1>5. Hands /\ Apart
  BY <1>1, <1>2, <1>3, NoMsgAssumption DEF Hands, Apart
<1>6. Threads
  BY <1>1, <1>2, <1>3 DEF Threads, Fresh, Asleep, Awake, Finished, Unanswered
<1>7. Packets /\ Unloading /\ Awaited
  <2>1. Packed /\ CopyKept /\ CopyMade /\ Empty
    BY <1>2, <1>3 DEF Packed, CopyKept, CopyMade, Empty
  <2>2. Unloading
    BY DEF Unloading, Init
  <2>3. Awaited
    BY <1>3, MsgsAssumption DEF Awaited
  <2> QED
    BY <2>1, <2>2, <2>3 DEF Packets
<1>8. Numbers
  BY <1>2 DEF Numbers, Different, Own, Init
<1>9. NoDangling /\ NoLateAnswer
  BY <1>1, <1>2 DEF NoDangling, NoLateAnswer
<1> QED
  BY <1>4, <1>5, <1>6, <1>7, <1>8, <1>9 DEF IInv

(* Every step keeps the invariant.                                         *)
LEMMA NextInv == IInv /\ [Next]_vars => IInv'
<1> SUFFICES ASSUME IInv, [Next]_vars PROVE IInv'
  OBVIOUS
<1>1. ASSUME NEW t \in Msgs, Send(t) \/ Refuse(t) PROVE IInv'
  BY <1>1, SendKeeps, RefuseKeeps
<1>2. ASSUME NEW t \in Msgs, Dequeue(t) \/ QueueEmpty(t) \/ Skip(t) \/ Fill(t) PROVE IInv'
  BY <1>2, DequeueKeeps, QueueEmptyKeeps, SkipKeeps, FillKeeps
<1>3. ASSUME NEW t \in Msgs, KickFails(t) \/ Kick(t) \/ Write(t) PROVE IInv'
  BY <1>3, KickFailsKeeps, KickKeeps, WriteKeeps
<1>4. ASSUME NEW t \in Msgs, Woken(t) \/ Timeout(t) \/ GiveUp(t) \/ Again(t) \/ Finish(t)
      PROVE  IInv'
  BY <1>4, WokenKeeps, TimeoutKeeps, GiveUpKeeps, AgainKeeps, FinishKeeps
<1>5. ASSUME NEW c \in fw, Answer(c) PROVE IInv'
  BY <1>5, AnswerKeeps
<1>6. CASE Tasklet
  BY <1>6, BhFreeKeeps, BhEndKeeps DEF Tasklet
<1>7. CASE FlagOff \/ FlagOn \/ Exit
  BY <1>7, FlagOffKeeps, FlagOnKeeps, ExitKeeps
<1>8. CASE Unload
  BY <1>8, KillTaskletKeeps, CleanTxKeeps, CleanAckKeeps, CleanDoneKeeps DEF Unload
<1>9. CASE UNCHANGED vars
  BY <1>9, StutterKeeps
<1> QED
  BY <1>1, <1>2, <1>3, <1>4, <1>5, <1>6, <1>7, <1>8, <1>9 DEF Next, Work

(* The invariant always holds.                                             *)
LEMMA SpecInv == Spec => []IInv
<1> QED
  BY InitInv, NextInv, PTL DEF Spec

-----------------------------------------------------------------------------
(* The queues hold messages, sequence numbers stay in their range, and the *)
(* count of tries that AndesSendCmdMsg() takes down never passes below     *)
(* zero.                                                                   *)
THEOREM McuTypes == Spec => []TypeOK
<1>1. IInv => TypeOK
  BY DEF IInv
<1> QED
  BY <1>1, SpecInv, PTL

(* AndesForceFreeCmdMsg() and AndesCmdMsgBh() free a message only when it  *)
(* is on no queue, in no thread's hands and its own thread is through with *)
(* it, while the ring has not been full and MCU_INIT is set.               *)
THEOREM NothingDangles == Spec => []NoDangling
<1>1. IInv => NoDangling
  BY DEF IInv
<1> QED
  BY <1>1, SpecInv, PTL

(* A thread that has returned from AndesSendCmdMsg() has taken its message *)
(* from ackq, where HandleSeqNonZeroNormalEvents() looks for the message   *)
(* to write an answer to, while the ring has not been full and MCU_INIT is *)
(* set.                                                                    *)
THEOREM NoAnswerAfterReturn == Spec => []NoLateAnswer
<1>1. IInv => NoLateAnswer
  BY DEF IInv
<1> QED
  BY <1>1, SpecInv, PTL

(* AndesDequeueAndKickOutCmdMsgs() never puts a message without a packet   *)
(* on the ring: the first time it has its own, and when AndesSendCmdMsg()  *)
(* sends it again it has the copy.                                         *)
THEOREM PacketsThere == Spec => []PacketThere
<1>1. IInv => PacketThere
  <2> SUFFICES ASSUME IInv, NEW t \in Msgs, pc[t] = "kick" PROVE msg[hold[t]].pkt
    BY DEF PacketThere
  <2>1. hold[t] \in Msgs
    BY DEF IInv, Hands
  <2>2. Waiting(hold[t])
    BY DEF Waiting, Taken, Carrying
  <2> QED
    BY <2>1, <2>2 DEF IInv, Packets, Packed
<1> QED
  BY <1>1, SpecInv, PTL

(* A command leaves fw only when HandleSeqNonZeroNormalEvents() handles    *)
(* its answer.                                                             *)
LEMMA OnlyAnswers ==
    ASSUME Next, NEW c \in fw \ fw' PROVE Answer(c)
<1>1. ASSUME NEW t \in Msgs, Send(t) \/ Refuse(t) PROVE fw \subseteq fw'
  BY <1>1 DEF Send, Refuse, device
<1>2. ASSUME NEW t \in Msgs, Dequeue(t) \/ QueueEmpty(t) \/ Skip(t) \/ Fill(t) \/ KickFails(t)
                           \/ Kick(t) \/ Write(t)
      PROVE  fw \subseteq fw'
  BY <1>2 DEF Dequeue, QueueEmpty, Skip, Fill, KickFails, Kick, Write, device
<1>3. ASSUME NEW t \in Msgs, Woken(t) \/ Timeout(t) \/ GiveUp(t) \/ Again(t) \/ Finish(t)
      PROVE  fw \subseteq fw'
  BY <1>3 DEF Woken, Timeout, GiveUp, Again, Finish, device
<1>4. ASSUME NEW d \in fw, Answer(d) PROVE Answer(c)
  BY <1>4 DEF Answer
<1>5. ASSUME Tasklet \/ FlagOff \/ FlagOn \/ Exit \/ Unload PROVE fw \subseteq fw'
  BY <1>5 DEF Tasklet, BhFree, BhEnd, FlagOff, FlagOn, Exit, Unload, KillTasklet,
     CleanTx, CleanAck, CleanDone, device
<1> QED
  BY <1>1, <1>2, <1>3, <1>4, <1>5 DEF Next, Work

(* HandleSeqNonZeroNormalEvents() completes the first message of ackq with *)
(* the number of the answer, and that is the message the command was sent  *)
(* for, until AndesGetCmdMsgSeq() gives a number out that is still in use. *)
THEOREM AnswersAreOwn == Spec => AnswersOwn
<1> DEFINE Owner == ~ reused => \A c \in fw \ fw', m \in Msgs :
                        ~ msg[m].acked /\ msg'[m].acked => c.m = m
<1>1. ASSUME IInv, Next, ~ reused, NEW c \in fw \ fw', NEW m \in Msgs,
             ~ msg[m].acked, msg'[m].acked
      PROVE  c.m = m
  <2>1. Answer(c)
    BY <1>1, OnlyAnswers
  <2>2. PICK i \in Matching(c) : msg' = Set(ackq[i], "acked", TRUE)
    BY <1>1, <2>1 DEF Answer
  <2>3. i \in 1 .. Len(ackq) /\ msg[ackq[i]].seq = c.seq /\ c.seq # 0
    BY <2>2 DEF Matching
  <2>4. m = ackq[i]
    BY <1>1, <2>2 DEF Set, IInv, TypeOK
  <2>5. m \in Members(ackq) /\ Active(m)
    BY <1>1, <2>3, <2>4 DEF Members, Active, IInv, Apart
  <2> QED
    BY <1>1, <2>1, <2>3, <2>4, <2>5 DEF IInv, Numbers, Own, Answer
<1>2. IInv /\ [Next]_vars => [Owner]_vars
  BY <1>1
<1> QED
  BY <1>2, SpecInv, PTL DEF Spec, AnswersOwn
=============================================================================
