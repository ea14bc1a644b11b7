------------------------------- MODULE TxFlow --------------------------------
(***************************************************************************)
(* Transmission with tokens in mt_wifi: the dequeue task of fp_qm.c takes  *)
(* packets while the token pool allows it, and gives up otherwise; the     *)
(* handler of the firmware's TxFree events (mt_fmac.c) puts the tokens     *)
(* back and must wake the task.  One band's token queue and its task.      *)
(*                                                                         *)
(* Abstracted: the TX ring always has room, the task's limit on packets    *)
(* per run (8192) exceeds what its queues hold, and events that the task   *)
(* drains by itself are handled by the handler in between.                 *)
(*                                                                         *)
(* Left out: what stops the task from outside, TX_FLAG_STOP_DEQUEUE while  *)
(* the driver is halted or reset, tx_deq_delay() of CONFIG_TX_DELAY, and   *)
(* forbid_data_tx or a missing wdev in front of a frame.  Drains is about  *)
(* a device where none of them holds.                                      *)
(***************************************************************************)
EXTENDS TokenPool

CONSTANTS
    Low, High,      \* low_water_mark, high_water_mark
    PerBand,        \* high_water_mark_per_band
    Mixed,          \* an event may end with a token of the other band
    MaxPkts         \* bound on the packets that arrive

ASSUME MarksAssumption ==
    /\ Low \in Nat \ {0} /\ High \in Low .. N /\ PerBand \in 0 .. N
    /\ Mixed \in BOOLEAN /\ MaxPkts \in Nat

VARIABLES
    left,       \* packets that have not arrived
    queued,     \* packets in fp_que
    sched,      \* TX_DEQ_TASK is scheduled
    task,       \* progress of fp_tx_pkt_deq_func()
    low,        \* token_state is TX_TOKEN_LOW
    ev          \* progress of the TxFree handler

flow == <<left, queued, sched, task, low, ev>>
vars == <<pool, flow>>

FlowInit == /\ Init
            /\ left = MaxPkts /\ queued = 0 /\ sched = FALSE
            /\ task = "idle" /\ low = FALSE /\ ev = "idle"

(* fp_enq_dataq_pkt()                                                      *)
Arrive ==
    /\ left > 0
    /\ left' = left - 1 /\ queued' = queued + 1 /\ sched' = TRUE
    /\ UNCHANGED <<pool, task, low, ev>>

-----------------------------------------------------------------------------
(* mt_ct_check_hw_resource(): the count is read as an unsigned number.     *)
Short_Never == FALSE                        \* mutant
Short == free_token_cnt \in 0 .. Low - 1
Over == used_token > PerBand

TaskStart ==
    /\ sched /\ task = "idle"
    /\ sched' = FALSE /\ task' = "look"
    /\ UNCHANGED <<pool, left, queued, low, ev>>

TaskLook ==
    /\ task = "look"
    /\ task' = IF queued = 0 THEN "idle" ELSE IF Short THEN "low"
               ELSE IF Over THEN "again" ELSE "send"
    /\ UNCHANGED <<pool, left, queued, sched, low, ev>>

(* fp_check_tx_resource(): the check is repeated before the task gives up. *)
Recheck ==
    /\ task = "again"
    /\ task' = IF Short THEN "lowAgain" ELSE IF Over THEN "idle" ELSE "high"
    /\ UNCHANGED <<pool, left, queued, sched, low, ev>>

AfterLow_Once(from) == "idle"               \* mutant: no second check
AfterLow(from) == IF from = "low" THEN "again" ELSE "idle"

SetLow ==
    /\ task \in {"low", "lowAgain"}
    /\ low' = TRUE /\ task' = AfterLow(task)
    /\ UNCHANGED <<pool, left, queued, sched, ev>>

SetHigh ==
    /\ task = "high"
    /\ low' = FALSE /\ task' = "send"
    /\ UNCHANGED <<pool, left, queued, sched, ev>>

(* The packet leaves the queue and is given a token.                       *)
Send ==
    /\ task = "send"
    /\ EnqTake
    /\ queued' = queued - 1 /\ task' = "sending"
    /\ UNCHANGED <<left, sched, low, ev>>

Sending ==
    /\ EnqStore \/ EnqClear \/ EnqMove \/ EnqCount
    /\ task' = IF EnqCount THEN "look" ELSE task
    /\ UNCHANGED <<left, queued, sched, low, ev>>

-----------------------------------------------------------------------------
(* tx_free_v3_notify_handler()                                             *)
EvStart ==
    /\ ev = "idle" /\ air # {}
    /\ ev' = "run"
    /\ UNCHANGED <<pool, left, queued, sched, task, low>>

Report(t) ==
    /\ ev = "run" /\ DeqTake(t)
    /\ UNCHANGED flow

PutBack ==
    /\ DeqPut \/ DeqMove \/ DeqCount
    /\ UNCHANGED flow

(* The queue of the event's last token is the one that is looked at: its   *)
(* state, then its count.                                                  *)
EvRead ==
    /\ ev = "run" /\ deq.pc = "idle"
    /\ \E last \in IF Mixed THEN BOOLEAN ELSE {TRUE} :
        ev' = IF last /\ low THEN "count" ELSE "idle"
    /\ UNCHANGED <<pool, left, queued, sched, task, low>>

EvCount ==
    /\ ev = "count"
    /\ ev' = IF free_token_cnt \in 0 .. High - 1 THEN "idle" ELSE "clear"
    /\ UNCHANGED <<pool, left, queued, sched, task, low>>

EvClear ==
    /\ ev = "clear"
    /\ low' = FALSE /\ ev' = "wake"
    /\ UNCHANGED <<pool, left, queued, sched, task>>

(* fp_schedule_tx_que()                                                    *)
EvWake ==
    /\ ev = "wake"
    /\ sched' = (sched \/ queued > 0) /\ ev' = "idle"
    /\ UNCHANGED <<pool, left, queued, task, low>>

Task == TaskStart \/ TaskLook \/ Recheck \/ SetLow \/ SetHigh \/ Send \/ Sending
Handler == EvStart \/ PutBack \/ EvRead \/ EvCount \/ EvClear \/ EvWake
FlowNext == Arrive \/ Task \/ Handler \/ \E t \in Tokens : Report(t)

(* The task and the handler run on, and every packet is reported.          *)
FlowSpec == /\ FlowInit /\ [][FlowNext]_vars
            /\ WF_vars(Task) /\ WF_vars(Handler)
            /\ \A t \in Tokens : SF_vars(t \in air /\ Report(t))

-----------------------------------------------------------------------------
FlowTypeOK ==
    /\ TypeOK
    /\ left \in 0 .. MaxPkts /\ queued \in 0 .. MaxPkts
    /\ sched \in BOOLEAN /\ low \in BOOLEAN
    /\ task \in {"idle", "look", "low", "lowAgain", "again", "high", "send", "sending"}
    /\ ev \in {"idle", "run", "count", "clear", "wake"}

(* The check the task made holds when it takes the token: the caller of    *)
(* token_tx_enq() does not look at what it returns.                        *)
TokenThere == task = "send" => free_id[id_head] # None

(* Packets do not wait for ever.                                           *)
Drains == queued > 0 ~> queued = 0
=============================================================================
