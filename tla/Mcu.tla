--------------------------------- MODULE Mcu ---------------------------------
(***************************************************************************)
(* The command queue between mt_wifi and the WiFi MCU (andes_core.c, with  *)
(* the PCI kick-out of hif_pci.c and the event handler of andes_mt.c).     *)
(*                                                                         *)
(* A thread sends one message and, if the message is synchronous, waits    *)
(* for the answer.  Every sender empties the transmit queue, so a thread   *)
(* may carry the message of another.  The firmware answers late, out of    *)
(* order, or never; the in-band flag goes off during recovery and suspend; *)
(* the command ring may be full; the driver may be unloaded.               *)
(*                                                                         *)
(* One step is what one lock protects, or the code between two locks.      *)
(* When every number is taken a thread waits for one, where                *)
(* AndesGetCmdMsgSeq() spins with the lock held.  Assumed: a command times *)
(* out later than a thread that carries it is preempted; allocation does   *)
(* not fail.  Left out: the early end of a wait during a WiFi reset, which *)
(* is compiled under WF_RESET_SUPPORT only, off by default (config.in).    *)
(***************************************************************************)
EXTENDS Integers, Sequences

CONSTANTS
    Msgs,       \* the messages; each has the thread that sends it
    Sync,       \* those that wait (CMD_SET_WITH_SYNC flag)
    Retries,    \* those that are sent again (NEED_RETRY flag)
    Tries,      \* CMD_MSG_RETRANSMIT_TIMES
    SeqMax,     \* 0xf, the largest sequence number
    MaxFull,    \* bound on finding the command ring full
    MaxOff      \* bound on the in-band flag going off

ASSUME MsgsAssumption ==
    /\ Retries \subseteq Sync /\ Sync \subseteq Msgs
    /\ Tries \in Nat \ {0} /\ SeqMax \in Nat \ {0}
    /\ MaxFull \in Nat /\ MaxOff \in Nat

VARIABLES
    pc,         \* where the thread of each message is
    hold,       \* the message that thread carries to the ring
    msg,        \* the messages (struct cmd_msg)
    txq, ackq, doneq,   \* ctl->txq, ctl->ackq, ctl->tx_doneq
    cmdSeq,     \* ctl->cmd_seq
    fw,         \* commands the firmware has not answered
    bh,         \* the tasklet AndesCmdMsgBh() is scheduled
    up,         \* MCU_INIT
    inband,     \* commands may be sent: fRTMP_ADAPTER_MCU_SEND_IN_BAND_CMD
                \* set, NIC_NOT_EXIST and SUSPEND clear
    exit,       \* progress of AndesCtrlExit()
    full, off,  \* used up of MaxFull and MaxOff
    reused      \* history: a number has come round while the command that
                \* had it was unanswered or on its way

queues == <<txq, ackq, doneq>>
device == <<cmdSeq, fw, up, inband, exit, full, off, reused>>
vars == <<pc, hold, msg, queues, bh, device>>

NoMsg == "none"
ASSUME NoMsgAssumption == NoMsg \notin Msgs

Members(q) == {q[i] : i \in 1 .. Len(q)}
Place(q, m) == CHOOSE i \in 1 .. Len(q) : q[i] = m
Unlink(q, m) == IF m \notin Members(q) THEN q
                ELSE SubSeq(q, 1, Place(q, m) - 1) \o SubSeq(q, Place(q, m) + 1, Len(q))

Carried(m) == \E t \in Msgs : hold[t] = m

(* AndesInitCmdMsg()                                                       *)
New(m) == [state |-> "illegal", seq |-> 0, live |-> TRUE, acked |-> FALSE,
           retry |-> IF m \in Retries THEN Tries ELSE 0,
           pkt |-> TRUE, copy |-> FALSE]

Init == /\ pc = [m \in Msgs |-> "start"] /\ hold = [m \in Msgs |-> NoMsg]
        /\ msg = [m \in Msgs |-> New(m)]
        /\ txq = <<>> /\ ackq = <<>> /\ doneq = <<>>
        /\ cmdSeq = 0 /\ fw = {} /\ bh = FALSE
        /\ up = TRUE /\ inband = TRUE /\ exit = "running"
        /\ full = 0 /\ off = 0 /\ reused = FALSE

Freed == [state |-> "illegal", seq |-> 0, live |-> FALSE, acked |-> FALSE,
          retry |-> 0, pkt |-> FALSE, copy |-> FALSE]

Goto(t, to) == pc' = [pc EXCEPT ![t] = to]
Set(m, field, v) == [msg EXCEPT ![m][field] = v]
Free(m) == [msg EXCEPT ![m] = Freed]

(* AndesBhSchedule()                                                       *)
BhSchedule == bh' = (bh \/ (up /\ doneq # <<>>))

-----------------------------------------------------------------------------
(* AndesSendCmdMsg(), up to the retransmit label.                          *)
Send(t) ==
    /\ pc[t] = "start" /\ inband
    /\ Goto(t, "loop")
    /\ msg' = Set(t, "state", "tx_start")
    /\ txq' = Append(txq, t)
    /\ UNCHANGED <<hold, ackq, doneq, bh, device>>

Refuse(t) ==
    /\ pc[t] = "start" /\ ~ inband
    /\ Goto(t, "done")
    /\ msg' = Free(t)
    /\ UNCHANGED <<hold, queues, bh, device>>

(* AndesDequeueAndKickOutCmdMsgs(): take the next message, whosever it is. *)
Dequeue(t) ==
    /\ pc[t] = "loop" /\ txq # <<>>
    /\ Goto(t, "fill")
    /\ hold' = [hold EXCEPT ![t] = Head(txq)]
    /\ txq' = Tail(txq)
    /\ UNCHANGED <<msg, ackq, doneq, bh, device>>

QueueEmpty(t) ==
    /\ pc[t] = "loop" /\ txq = <<>>
    /\ BhSchedule
    /\ Goto(t, IF t \in Sync THEN "wait" ELSE "done")
    /\ UNCHANGED <<hold, msg, queues, device>>

(* The message is dropped, without a word to a sender that waits for it.   *)
Skip(t) ==
    LET m == hold[t] IN
    /\ pc[t] = "fill" /\ ~ inband
    /\ Goto(t, "loop")
    /\ hold' = [hold EXCEPT ![t] = NoMsg]
    /\ msg' = IF m \notin Sync THEN Free(m)
              ELSE IF msg[m].retry > 1 /\ msg[m].pkt /\ ~ msg[m].copy
              THEN [msg EXCEPT ![m].copy = TRUE, ![m].pkt = FALSE]
              ELSE msg
    /\ UNCHANGED <<queues, bh, device>>

(* AndesGetCmdMsgSeq(): the next number that no waiting message has, in a  *)
(* set that is empty when all are taken.                                   *)
After(n) == ((cmdSeq + n - 1) % SeqMax) + 1
FreeSeq == {n \in 1 .. SeqMax : \A m \in Members(ackq) : msg[m].seq # After(n)}
NextSeq == {After(n) : n \in {n \in FreeSeq : \A k \in FreeSeq : n <= k}}

(* The number may still be answered, or be on its way to the firmware.     *)
InUse(n) == \/ \E c \in fw : c.seq = n
            \/ \E m \in Msgs : msg[m].seq = n /\ (Carried(m) \/ m \notin Members(doneq))

TakesSeq(m) == m \in Sync /\ msg[m].state # "tx_retransmit"

Copied_Late(m) == msg[m].retry > 2          \* mutant
Copied(m) == msg[m].retry > 1

Fill(t) ==
    LET m == hold[t] IN
    /\ pc[t] = "fill" /\ inband
    /\ Goto(t, "kick")
    /\ \E n \in IF TakesSeq(m) THEN NextSeq ELSE {msg[m].seq} :
        /\ cmdSeq' = IF TakesSeq(m) THEN n ELSE cmdSeq
        /\ reused' = (reused \/ (TakesSeq(m) /\ InUse(n)))
        /\ msg' = [msg EXCEPT ![m].seq = n, ![m].copy = @ \/ Copied(m)]
    /\ UNCHANGED <<hold, queues, bh, fw, up, inband, exit, full, off>>

(* pci_kick_out_cmd_msg(): no room, or the MCU is gone.  The message is    *)
(* freed although its own thread may be waiting for it.                    *)
KickFails(t) ==
    /\ pc[t] = "kick"
    /\ up => full < MaxFull
    /\ full' = IF up THEN full + 1 ELSE full
    /\ msg' = Free(hold[t])
    /\ hold' = [hold EXCEPT ![t] = NoMsg]
    /\ Goto(t, "done")
    /\ BhSchedule
    /\ UNCHANGED <<queues, cmdSeq, fw, up, inband, exit, off, reused>>

Kick(t) ==
    LET m == hold[t] IN
    /\ pc[t] = "kick" /\ up
    /\ Goto(t, "write")
    /\ msg' = [msg EXCEPT ![m].state = IF m \in Sync THEN "wait_ack" ELSE "tx_done",
                          ![m].pkt = FALSE]
    /\ ackq' = IF m \in Sync THEN Append(ackq, m) ELSE ackq
    /\ doneq' = IF m \in Sync THEN doneq ELSE Append(doneq, m)
    /\ UNCHANGED <<hold, txq, bh, device>>

(* MCU_INIT is tested once more before the ring's index is written.        *)
Write(t) ==
    LET m == hold[t] IN
    /\ pc[t] = "write"
    /\ hold' = [hold EXCEPT ![t] = NoMsg]
    /\ fw' = IF up /\ m \in Sync
             THEN fw \cup {[m |-> m, seq |-> msg[m].seq, try |-> msg[m].retry]} ELSE fw
    /\ IF up THEN Goto(t, "loop") /\ UNCHANGED bh
             ELSE Goto(t, "done") /\ BhSchedule
    /\ UNCHANGED <<msg, queues, cmdSeq, up, inband, exit, full, off, reused>>

-----------------------------------------------------------------------------
(* AndesSendCmdMsg(), from the wait on: completed, or timed out.           *)
Woken(t) ==
    /\ pc[t] = "wait" /\ msg[t].acked
    /\ Goto(t, "woken")
    /\ msg' = Set(t, "acked", FALSE)
    /\ UNCHANGED <<hold, queues, bh, device>>

Timeout(t) ==
    /\ pc[t] = "wait" /\ ~ msg[t].acked /\ ~ Carried(t)
    /\ Goto(t, "late")
    /\ UNCHANGED <<hold, msg, queues, bh, device>>

GiveUp(t) ==
    /\ pc[t] \in {"woken", "late"} /\ ~ up
    /\ Goto(t, "done")
    /\ msg' = Free(t)
    /\ UNCHANGED <<hold, queues, bh, device>>

Unacked_Late(t) == IF pc[t] = "late" THEN ackq ELSE Unlink(ackq, t)     \* mutant
Unacked(t) == IF msg[t].state = "wait_ack" THEN Unlink(ackq, t) ELSE ackq

Left_Wraps(t) == IF pc[t] = "late" THEN (msg[t].retry + 255) % 256 ELSE 0  \* mutant
Left_Same(t) == IF pc[t] = "late" THEN msg[t].retry ELSE 0      \* mutant
Left(t) == IF pc[t] = "late" /\ msg[t].retry > 0 THEN msg[t].retry - 1 ELSE 0

(* The retry packet becomes the packet, and the completion is reset.       *)
Again(t) ==
    /\ pc[t] \in {"woken", "late"} /\ up /\ Left(t) > 0
    /\ Goto(t, "loop")
    /\ ackq' = Unacked(t)
    /\ msg' = [msg EXCEPT ![t].pkt = msg[t].copy, ![t].copy = FALSE, ![t].acked = FALSE,
                          ![t].retry = Left(t), ![t].state = "tx_retransmit"]
    /\ txq' = <<t>> \o txq
    /\ UNCHANGED <<hold, doneq, bh, device>>

Finish(t) ==
    /\ pc[t] \in {"woken", "late"} /\ up /\ Left(t) = 0
    /\ Goto(t, "done")
    /\ ackq' = Unacked(t)
    /\ msg' = [msg EXCEPT ![t].retry = 0, ![t].state = "tx_done"]
    /\ doneq' = Append(doneq, t)
    /\ UNCHANGED <<hold, txq, bh, device>>

-----------------------------------------------------------------------------
(* HandleSeqNonZeroNormalEvents(): the first waiting message with the      *)
(* sequence number of the event is given the answer; an event without a    *)
(* number is taken for one that nobody waits for.  A command that the      *)
(* firmware loses is one whose answer never comes.                         *)
Matching_Any(c) == 1 .. Len(ackq)           \* mutant: the number is not compared
Matching(c) == {i \in 1 .. Len(ackq) : c.seq # 0 /\ msg[ackq[i]].seq = c.seq}

Answer(c) ==
    /\ c \in fw /\ up
    /\ fw' = fw \ {c}
    /\ IF Matching(c) = {} THEN UNCHANGED msg
       ELSE \E i \in Matching(c) : /\ \A j \in Matching(c) : i <= j
                                   /\ msg' = Set(ackq[i], "acked", TRUE)
    /\ UNCHANGED <<pc, hold, queues, bh, cmdSeq, up, inband, exit, full, off, reused>>

(* AndesCmdMsgBh()                                                         *)
BhFree ==
    /\ bh /\ doneq # <<>>
    /\ msg' = Free(Head(doneq))
    /\ doneq' = Tail(doneq)
    /\ UNCHANGED <<pc, hold, txq, ackq, bh, device>>

BhEnd ==
    /\ bh /\ doneq = <<>>
    /\ bh' = FALSE
    /\ UNCHANGED <<pc, hold, msg, queues, device>>

(* Recovery, suspend, and pci_mcu_fw_exit().                               *)
FlagOff ==
    /\ inband /\ off < MaxOff
    /\ inband' = FALSE /\ off' = off + 1
    /\ UNCHANGED <<pc, hold, msg, queues, bh, cmdSeq, fw, up, exit, full, reused>>

FlagOn ==
    /\ ~ inband /\ exit = "running"
    /\ inband' = TRUE
    /\ UNCHANGED <<pc, hold, msg, queues, bh, cmdSeq, fw, up, exit, full, off, reused>>

(* AndesCtrlExit(), after the in-band flag has been cleared.               *)
Exit ==
    /\ exit = "running" /\ ~ inband
    /\ BhSchedule
    /\ up' = FALSE /\ exit' = "kill"
    /\ UNCHANGED <<pc, hold, msg, queues, cmdSeq, fw, inband, full, off, reused>>

KillTasklet ==
    /\ exit = "kill" /\ ~ bh
    /\ exit' = "txq"
    /\ UNCHANGED <<pc, hold, msg, queues, bh, cmdSeq, fw, up, inband, full, off, reused>>

(* AndesCleanupCmdMsg(): threads that wait are woken, the rest is freed.   *)
Cleaned(q) == [m \in Msgs |->
    IF m \notin Members(q) THEN msg[m]
    ELSE IF m \in Sync THEN [msg[m] EXCEPT !.acked = TRUE] ELSE Freed]

CleanTx ==
    /\ exit = "txq" /\ exit' = "ackq"
    /\ msg' = Cleaned(txq) /\ txq' = <<>>
    /\ UNCHANGED <<pc, hold, ackq, doneq, bh, cmdSeq, fw, up, inband, full, off, reused>>

CleanAck ==
    /\ exit = "ackq" /\ exit' = "doneq"
    /\ msg' = Cleaned(ackq) /\ ackq' = <<>>
    /\ UNCHANGED <<pc, hold, txq, doneq, bh, cmdSeq, fw, up, inband, full, off, reused>>

CleanDone ==
    /\ exit = "doneq" /\ exit' = "down"
    /\ msg' = Cleaned(doneq) /\ doneq' = <<>>
    /\ UNCHANGED <<pc, hold, txq, ackq, bh, cmdSeq, fw, up, inband, full, off, reused>>

-----------------------------------------------------------------------------
Work(t) == \/ Dequeue(t) \/ QueueEmpty(t) \/ Skip(t) \/ Fill(t)
           \/ KickFails(t) \/ Kick(t) \/ Write(t)
           \/ Woken(t) \/ Timeout(t) \/ GiveUp(t) \/ Again(t) \/ Finish(t)
Tasklet == BhFree \/ BhEnd
Unload == KillTasklet \/ CleanTx \/ CleanAck \/ CleanDone

Next == \/ \E t \in Msgs : Send(t) \/ Refuse(t) \/ Work(t)
        \/ \E c \in fw : Answer(c)
        \/ Tasklet \/ FlagOff \/ FlagOn \/ Exit \/ Unload

(* Threads run on, a wait times out, and a scheduled tasklet runs.         *)
Spec == Init /\ [][Next]_vars
FairSpec == Spec /\ (\A t \in Msgs : WF_vars(Work(t))) /\ WF_vars(Tasklet)

-----------------------------------------------------------------------------
Pcs == {"start", "loop", "fill", "kick", "write", "wait", "woken", "late", "done"}
Message == [state : {"illegal", "tx_start", "tx_retransmit", "wait_ack", "tx_done"},
            seq : 0 .. SeqMax, live : BOOLEAN, acked : BOOLEAN,
            retry : 0 .. Tries, pkt : BOOLEAN, copy : BOOLEAN]

TypeOK ==
    /\ pc \in [Msgs -> Pcs] /\ hold \in [Msgs -> Msgs \cup {NoMsg}]
    /\ msg \in [Msgs -> Message]
    /\ txq \in Seq(Msgs) /\ ackq \in Seq(Msgs) /\ doneq \in Seq(Msgs)
    /\ cmdSeq \in 0 .. SeqMax /\ fw \subseteq [m : Sync, seq : 0 .. SeqMax, try : 0 .. Tries]
    /\ bh \in BOOLEAN /\ up \in BOOLEAN /\ inband \in BOOLEAN
    /\ exit \in {"running", "kill", "txq", "ackq", "doneq", "down"}
    /\ full \in 0 .. MaxFull /\ off \in 0 .. MaxOff /\ reused \in BOOLEAN

(* The ring has never been full, and the driver is not being unloaded.     *)
Healthy == up /\ full = 0

(* A message that has been freed is on no queue, in no thread's hands, and *)
(* its own thread is through with it.                                      *)
Carrying(t, m) == hold[t] = m /\ pc[t] # "write"
NoDangling ==
    Healthy => \A m \in Msgs : ~ msg[m].live =>
        /\ m \notin Members(txq) \cup Members(ackq) \cup Members(doneq)
        /\ \A t \in Msgs : ~ Carrying(t, m)
        /\ m \in Sync => pc[m] = "done"

(* When AndesSendCmdMsg() has returned, no answer can reach the message:   *)
(* the response handler writes to the caller's buffer.                     *)
NoLateAnswer ==
    Healthy => \A m \in Members(ackq) : pc[m] # "done"

(* An answer completes the command it answers, however late it comes and   *)
(* however often the command is sent again, until the numbers have come    *)
(* round to one that is still in use: AndesGetCmdMsgSeq() looks only at the*)
(* commands that wait now.                                                 *)
AnswersOwn == [][~ reused => \A c \in fw \ fw', m \in Msgs :
                    ~ msg[m].acked /\ msg'[m].acked => c.m = m]_vars

(* What is put on the ring has its packet, sent again or not.              *)
PacketThere == \A t \in Msgs : pc[t] = "kick" => msg[hold[t]].pkt

(* Every call of AndesSendCmdMsg() returns.                                *)
SendEnds == \A t \in Msgs : pc[t] = "loop" ~> pc[t] = "done"

-----------------------------------------------------------------------------
(* "msg will be free after enqueuing to tx_doneq" (andes_core.c): while    *)
(* MCU_INIT is set, a message its thread waits for is not freed.           *)
FreedWhenDone == up => \A m \in Sync : pc[m] = "wait" => msg[m].live
=============================================================================
