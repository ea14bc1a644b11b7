------------------------------- MODULE Reorder -------------------------------
(***************************************************************************)
(* The recipient's side of a block-ack session in mt_wifi (ba_action.c):   *)
(* frames that arrive out of order wait in a sorted list until the missing *)
(* ones come, a block-ack request or a newer frame moves the window, or    *)
(* the flush timer gives up on them.                                       *)
(*                                                                         *)
(* The receive path (frames and block-ack requests), the flush timer and   *)
(* the MLME thread (sessions begin and end) work on one session.  A step   *)
(* is what RxReRingLock protects, or an access without it: LastIndSeq and  *)
(* the status are read and written outside the lock.                       *)
(*                                                                         *)
(* A frame is the number its sender counts it by; its sequence number is   *)
(* that number modulo MAXSEQ + 1.  Frames are not aggregated (A-MSDU).     *)
(* FlushTimer serves all the sessions; here it serves one.  It does not    *)
(* expire between being armed and SetFlushTimer being set.  A renewed      *)
(* session keeps its window; recipient_offload, the status that a session  *)
(* has when the hardware reorders its frames, is left out.                 *)
(***************************************************************************)
EXTENDS Integers, Sequences, FiniteSets

CONSTANTS
    Seqs,           \* MAXSEQ + 1
    BAWinSize,      \* the window
    First, MaxFrame,    \* bounds on the frames
    MaxSessions     \* bound on the times a session is made or ended

ASSUME SeqsAssumption ==
    /\ BAWinSize \in Nat \ {0} /\ Seqs \in Nat /\ 2 * (2 * BAWinSize) <= Seqs
    /\ First \in 0 .. MaxFrame /\ MaxFrame \in Nat /\ MaxSessions \in Nat

VARIABLES
    status,         \* REC_BA_Status
    idx,            \* BARecWcidArray[] names the session
    list,           \* the frames that wait
    LastIndSeq,     \* the last sequence number indicated
    flushSet,       \* SetFlushTimer
    pending,        \* FlushTimer is armed
    rx, timer, mlme,    \* progress of the three
    front,          \* history: the newest frame received or asked for
    top, ordered,   \* history: the newest frame passed up in this session,
                    \* and whether they have been passed up in order
    again,          \* history: the frame about to be passed up directly has
                    \* a copy that waits
    raced, torn,    \* history: two of the three have overlapped; the MLME and
                    \* the receive path have
    sessions        \* bound

session == <<status, idx, list, LastIndSeq>>
alarm == <<flushSet, pending>>
passed == <<top, ordered, again>>
vars == <<session, alarm, rx, timer, mlme, front, passed, raced, torn, sessions>>

Idle == [pc |-> "idle", n |-> 0, to |-> 0]

Init ==
    /\ status = "NONE" /\ idx = FALSE /\ list = <<>> /\ LastIndSeq = 0
    /\ flushSet = FALSE /\ pending = FALSE
    /\ rx = Idle /\ timer = Idle /\ mlme = "idle"
    /\ front = First - 1 /\ top = -1 /\ ordered = TRUE /\ again = FALSE
    /\ raced = FALSE /\ torn = FALSE /\ sessions = 0

Busy == rx.pc # "idle" \/ timer.pc # "idle" \/ mlme # "idle"
Starts(tears) == raced' = (raced \/ Busy) /\ torn' = (torn \/ tears)

-----------------------------------------------------------------------------
(* SEQ_SMALLER(), SEQ_STEPONE()                                            *)
SN(n) == n % Seqs
Smaller(s, t) == (s - t) % Seqs >= Seqs \div 2
StepOne(s, t) == s = (t + 1) % Seqs
Before_Unmasked(s) == s - 1                 \* mutant
Before(s) == (s - 1) % Seqs

(* What is passed up, in this order.                                       *)
PassUp(ns) ==
    /\ ordered' = (ordered /\ (raced \/ \A i \in 1 .. Len(ns) :
                                ns[i] > IF i = 1 THEN top ELSE ns[i - 1]))
    /\ top' = IF raced \/ ns = <<>> THEN top ELSE ns[Len(ns)]
    /\ again' = again

(* A frame that was not given a block is passed up whether or not its copy *)
(* has just been taken off the list: then it comes twice.                  *)
PassUpDirect(n) ==
    /\ ordered' = (ordered /\ (raced \/ n > top \/ (again /\ n = top)))
    /\ top' = IF raced THEN top ELSE n
    /\ again' = FALSE

(* How many frames at the head of the list belong to the set.              *)
Leading(good) == Cardinality({k \in 1 .. Len(list) : 1 .. k \subseteq good})

Take(k) == list' = SubSeq(list, k + 1, Len(list)) /\ PassUp(SubSeq(list, 1, k))

(* ba_indicate_reordering_mpdus_le_seq()                                   *)
UpTo(s) == Leading({i \in 1 .. Len(list) : SN(list[i]) = s \/ Smaller(SN(list[i]), s)})

(* ba_indicate_reordering_mpdus_in_order()                                 *)
After_One(s) == IF list # <<>> /\ SN(list[1]) = (s + 1) % Seqs THEN 1 ELSE 0     \* mutant
After(s) == Leading({i \in 1 .. Len(list) : SN(list[i]) = (s + i) % Seqs})

(* ba_refresh_reordering_mpdus()                                           *)
Refresh ==
    /\ Take(Len(list))
    /\ LastIndSeq' = IF list = <<>> THEN LastIndSeq ELSE SN(list[Len(list)])

(* ba_reordering_mpdu_insertsorted()                                       *)
Place(s) == Leading({i \in 1 .. Len(list) : Smaller(SN(list[i]), s)})
Duplicate_Never(s) == FALSE                 \* mutant
Duplicate(s) == Place(s) < Len(list) /\ SN(list[Place(s) + 1]) = s
Inserted(n) == SubSeq(list, 1, Place(SN(n))) \o <<n>>
               \o SubSeq(list, Place(SN(n)) + 1, Len(list))

-----------------------------------------------------------------------------
(* The sender: frames may be lost, and come again or late while its window *)
(* holds them.  It does not lose so many in a row that numbers are confused.*)
Ahead == Seqs \div 2 - BAWinSize - 1
Sendable == {n \in First .. MaxFrame : n > front - BAWinSize /\ n <= front + Ahead}

(* ba_reorder(): no session, and the frame is passed up as it comes.       *)
Receive(n) ==
    /\ rx.pc = "idle" /\ n \in Sendable
    /\ front' = IF n > front THEN n ELSE front
    /\ IF idx THEN rx' = [pc |-> "start", n |-> n, to |-> 0] /\ Starts(mlme # "idle")
              ELSE UNCHANGED <<rx, raced, torn>>
    /\ UNCHANGED <<session, alarm, timer, mlme, passed, sessions>>

(* The session has been deleted meanwhile: the frame is not even released. *)
RxLeak ==
    /\ rx.pc = "start" /\ status \in {"NONE", "USED"}
    /\ Refresh
    /\ rx' = Idle
    /\ UNCHANGED <<status, idx, alarm, timer, mlme, front, raced, torn, sessions>>

RxFirst ==
    /\ rx.pc = "start" /\ status = "Initialization"
    /\ Refresh
    /\ rx' = [rx EXCEPT !.pc = "begin"]
    /\ UNCHANGED <<status, idx, alarm, timer, mlme, front, raced, torn, sessions>>

RxBegin ==
    /\ rx.pc = "begin"
    /\ LastIndSeq' = Before(SN(rx.n)) /\ status' = "Established"
    /\ rx' = [rx EXCEPT !.pc = "check"]
    /\ top' = -1 /\ UNCHANGED <<ordered, again>>
    /\ UNCHANGED <<idx, list, alarm, timer, mlme, front, raced, torn, sessions>>

RxGoOn ==
    /\ rx.pc = "start" /\ status = "Established"
    /\ rx' = [rx EXCEPT !.pc = "check"]
    /\ UNCHANGED <<session, alarm, timer, mlme, front, passed, raced, torn, sessions>>

Old_Kept(s) == s = LastIndSeq               \* mutant
Old(s) == s = LastIndSeq \/ Smaller(s, LastIndSeq)
Within_OneMore(s) == Smaller(s, (LastIndSeq + BAWinSize + 2) % Seqs)   \* mutant
Within(s) == Smaller(s, (LastIndSeq + BAWinSize + 1) % Seqs)

RxCheck ==
    /\ rx.pc = "check"
    /\ LET s == SN(rx.n) IN
       IF StepOne(s, LastIndSeq)
       THEN rx' = [pc |-> "mark", n |-> 0, to |-> s] /\ PassUp(<<rx.n>>)
       ELSE /\ rx' = IF Old(s) THEN Idle
                     ELSE IF Within(s) THEN [rx EXCEPT !.pc = "enqueue"]
                     ELSE [rx EXCEPT !.pc = "uptoCheck", !.to = (s - BAWinSize) % Seqs]
            /\ UNCHANGED passed
    /\ UNCHANGED <<session, alarm, timer, mlme, front, raced, torn, sessions>>

(* ba_enqueue_reordering_packet()                                          *)
Arm_Never == FALSE                          \* mutant
Arm == Len(list') <= BAWinSize /\ ~ flushSet

RxInsert ==
    /\ rx.pc = "enqueue"
    /\ list' = IF Duplicate(SN(rx.n)) THEN list ELSE Inserted(rx.n)
    /\ flushSet' = (flushSet \/ Arm) /\ pending' = (pending \/ Arm)
    /\ rx' = Idle
    /\ UNCHANGED <<status, idx, LastIndSeq, timer, mlme, front, passed, raced, torn, sessions>>

(* An EAPOL frame, or no block is free: the frame does not wait.           *)
RxDirect ==
    /\ rx.pc = "enqueue"
    /\ rx' = [rx EXCEPT !.pc = "uptoPass", !.to = SN(rx.n)]
    /\ again' = (~ raced /\ \E i \in 1 .. Len(list) : list[i] = rx.n)
    /\ UNCHANGED <<session, alarm, timer, mlme, front, top, ordered, raced, torn, sessions>>

(* bar_process()                                                           *)
Bar(n) ==
    /\ rx.pc = "idle" /\ idx /\ n \in Sendable /\ Smaller(LastIndSeq, SN(n + 1))
    /\ front' = IF n > front THEN n ELSE front
    /\ rx' = [pc |-> "upto", n |-> 0, to |-> SN(n)] /\ Starts(mlme # "idle")
    /\ UNCHANGED <<session, alarm, timer, mlme, passed, sessions>>

RxUpTo ==
    /\ rx.pc \in {"upto", "uptoPass", "uptoCheck"}
    /\ Take(UpTo(rx.to))
    /\ rx' = [rx EXCEPT !.pc = CASE rx.pc = "upto" -> "mark" [] rx.pc = "uptoPass" -> "markPass"
                                 [] OTHER -> "markCheck"]
    /\ UNCHANGED <<status, idx, LastIndSeq, alarm, timer, mlme, front, raced, torn, sessions>>

RxMark ==
    /\ rx.pc \in {"mark", "markPass", "markCheck"}
    /\ LastIndSeq' = rx.to
    /\ IF rx.pc = "markPass" THEN PassUpDirect(rx.n) ELSE UNCHANGED passed
    /\ rx' = IF rx.pc = "markCheck" THEN [rx EXCEPT !.pc = "followCheck", !.to = 0]
                                     ELSE [Idle EXCEPT !.pc = "follow"]
    /\ UNCHANGED <<status, idx, list, alarm, timer, mlme, front, raced, torn, sessions>>

RxFollow ==
    /\ rx.pc \in {"follow", "followCheck"}
    /\ LET k == After(LastIndSeq)
           next == IF rx.pc = "follow" THEN "idle" ELSE "check" IN
       /\ Take(k)
       /\ rx' = IF k > 0 THEN [rx EXCEPT !.pc = IF next = "idle" THEN "settle" ELSE "settleCheck",
                                         !.to = SN(list[k])]
                ELSE IF next = "idle" THEN Idle ELSE [rx EXCEPT !.pc = "check"]
    /\ UNCHANGED <<status, idx, LastIndSeq, alarm, timer, mlme, front, raced, torn, sessions>>

RxSettle ==
    /\ rx.pc \in {"settle", "settleCheck"}
    /\ LastIndSeq' = rx.to
    /\ rx' = IF rx.pc = "settle" THEN Idle ELSE [rx EXCEPT !.pc = "check", !.to = 0]
    /\ UNCHANGED <<status, idx, list, alarm, timer, mlme, front, passed, raced, torn, sessions>>

-----------------------------------------------------------------------------
(* ba_reorder_timeout_Exec(), ba_flush_reordering_timeout_mpdus()          *)
TimerFire ==
    /\ pending /\ timer.pc = "idle"
    /\ pending' = FALSE
    /\ timer' = [Idle EXCEPT !.pc = "exec"] /\ Starts(FALSE)
    /\ UNCHANGED <<session, flushSet, rx, mlme, front, passed, sessions>>

TimerExec ==
    /\ timer.pc = "exec"
    /\ flushSet' = FALSE
    /\ timer' = IF status = "NONE" \/ list = <<>> THEN Idle ELSE [timer EXCEPT !.pc = "look"]
    /\ UNCHANGED <<session, pending, rx, mlme, front, passed, raced, torn, sessions>>

TimerLook(late) ==
    /\ timer.pc = "look"
    /\ timer' = IF list # <<>> /\ late THEN [timer EXCEPT !.pc = "upto", !.to = SN(list[1])]
                                       ELSE [Idle EXCEPT !.pc = "rearm"]
    /\ UNCHANGED <<session, alarm, rx, mlme, front, passed, raced, torn, sessions>>

TimerUpTo ==
    /\ timer.pc = "upto"
    /\ Take(UpTo(timer.to))
    /\ timer' = [timer EXCEPT !.pc = "mark"]
    /\ UNCHANGED <<status, idx, LastIndSeq, alarm, rx, mlme, front, raced, torn, sessions>>

TimerMark ==
    /\ timer.pc \in {"mark", "settle"}
    /\ LastIndSeq' = timer.to
    /\ timer' = IF timer.pc = "mark" THEN [timer EXCEPT !.pc = "follow"]
                                     ELSE [Idle EXCEPT !.pc = "look"]
    /\ UNCHANGED <<status, idx, list, alarm, rx, mlme, front, passed, raced, torn, sessions>>

TimerFollow ==
    /\ timer.pc = "follow"
    /\ LET k == After(timer.to) IN
       /\ Take(k)
       /\ timer' = IF k > 0 THEN [timer EXCEPT !.pc = "settle", !.to = SN(list[k])]
                            ELSE [Idle EXCEPT !.pc = "look"]
    /\ UNCHANGED <<status, idx, LastIndSeq, alarm, rx, mlme, front, raced, torn, sessions>>

Rearm_Never == FALSE                        \* mutant
Rearm == list # <<>> /\ ~ flushSet

TimerRearm ==
    /\ timer.pc = "rearm"
    /\ flushSet' = (flushSet \/ Rearm) /\ pending' = (pending \/ Rearm)
    /\ timer' = Idle
    /\ UNCHANGED <<session, rx, mlme, front, passed, raced, torn, sessions>>

-----------------------------------------------------------------------------
(* ba_resrc_rec_add(), ba_alloc_rec_entry()                                *)
Add ==
    /\ mlme = "idle" /\ sessions < MaxSessions /\ Starts(rx.pc # "idle")
    /\ sessions' = sessions + 1
    /\ \/ idx /\ Refresh /\ UNCHANGED status
       \/ ~ idx /\ status = "NONE" /\ status' = "USED" /\ UNCHANGED <<list, LastIndSeq, passed>>
    /\ mlme' = "add"
    /\ UNCHANGED <<idx, alarm, rx, timer, front>>

AddDone ==
    /\ mlme = "add"
    /\ status' = "Initialization" /\ idx' = TRUE
    /\ mlme' = "idle"
    /\ UNCHANGED <<list, LastIndSeq, alarm, rx, timer, front, passed, raced, torn, sessions>>

(* ba_resrc_rec_del(), ba_free_rec_entry()                                 *)
Del ==
    /\ mlme = "idle" /\ idx /\ sessions < MaxSessions /\ Starts(rx.pc # "idle")
    /\ sessions' = sessions + 1
    /\ status' = "NONE" /\ idx' = FALSE
    /\ mlme' = "del"
    /\ UNCHANGED <<list, LastIndSeq, alarm, rx, timer, front, passed>>

DelDone ==
    /\ mlme = "del"
    /\ Refresh
    /\ mlme' = "idle"
    /\ UNCHANGED <<status, idx, alarm, rx, timer, front, raced, torn, sessions>>

-----------------------------------------------------------------------------
RxNext == RxLeak \/ RxFirst \/ RxBegin \/ RxGoOn \/ RxCheck \/ RxInsert \/ RxDirect
          \/ RxUpTo \/ RxMark \/ RxFollow \/ RxSettle
TimerNext == TimerFire \/ TimerExec \/ (\E late \in BOOLEAN : TimerLook(late)) \/ TimerUpTo
             \/ TimerMark \/ TimerFollow \/ TimerRearm
MlmeNext == AddDone \/ DelDone

Next ==
    \/ \E n \in First .. MaxFrame : Receive(n) \/ Bar(n)
    \/ RxNext \/ TimerNext
    \/ Add \/ Del \/ MlmeNext

Spec == Init /\ [][Next]_vars

(* The tasklet that receives, the timer's thread and the MLME thread go    *)
(* on, a timer that is armed fires, and a frame that waits does not stay   *)
(* younger than REORDERING_PACKET_TIMEOUT_IN_MS for ever.                  *)
FairSpec ==
    /\ Spec /\ WF_vars(RxNext) /\ WF_vars(TimerNext) /\ WF_vars(MlmeNext)
    /\ SF_vars(TimerLook(TRUE))

-----------------------------------------------------------------------------
(* Type invariant.  ba_reorder() keeps every sequence number within MAXSEQ,*)
(* also before number 0.                                                   *)
TypeOK ==
    /\ status \in {"NONE", "USED", "Initialization", "Established"} /\ idx \in BOOLEAN
    /\ list \in Seq(First .. MaxFrame) /\ LastIndSeq \in 0 .. Seqs - 1
    /\ flushSet \in BOOLEAN /\ pending \in BOOLEAN
    /\ front \in First - 1 .. MaxFrame /\ top \in -1 .. MaxFrame
    /\ ordered \in BOOLEAN /\ again \in BOOLEAN /\ raced \in BOOLEAN /\ torn \in BOOLEAN /\ sessions \in 0 .. MaxSessions

(* While the three do not overlap:                                         *)
(*                                                                         *)
(* The list is in the order the sender counts in, no frame is in it twice, *)
(* also when the sequence numbers wrap (ba_reordering_mpdu_insertsorted).  *)
Sorted == raced \/ \A i \in 1 .. Len(list) - 1 : list[i] < list[i + 1]

(* The frames that wait all belong to one window whose first frame is      *)
(* missing: what case IV of ba_reorder() lets in, after what case V and    *)
(* bar_process() have passed up, never fills the window, and between calls *)
(* each is one of the BAWinSize numbers after LastIndSeq.                  *)
InWindow(s) == (s - LastIndSeq) % Seqs \in 1 .. BAWinSize
WindowFits ==
    ~ raced => /\ Len(list) < BAWinSize
               /\ ~ Busy /\ status = "Established" =>
                      \A i \in 1 .. Len(list) : InWindow(SN(list[i]))

(* What ba_reorder() is for: within a session frames are passed up in the  *)
(* sender's order, each once, through losses, retransmissions, block-ack   *)
(* requests, timeouts and the wrap of the sequence numbers.  The exception *)
(* is ba_enqueue_reordering_packet() with no block left: a retransmission  *)
(* of a frame that waits is passed up right after it (2101 to 2104).       *)
InOrder == raced \/ ordered

(* No frame is kept waiting behind one that has come or been given up:     *)
(* after every call the whole list is ahead of LastIndSeq, and its head    *)
(* not next to it.                                                         *)
NoneHeldBack ==
    ~ raced /\ ~ Busy /\ status = "Established" /\ list # <<>> =>
        /\ \A i \in 1 .. Len(list) : Smaller(LastIndSeq, SN(list[i]))
        /\ ~ StepOne(SN(list[1]), LastIndSeq)

(* However the receive path and the flush timer overlap, a frame that waits*)
(* has the timer armed: SetFlushTimer never stays set without it           *)
(* (ba_enqueue_reordering_packet() against ba_reorder_timeout_Exec()),     *)
(* unless the MLME thread has changed the session under a frame (torn).    *)
NoLostTimer ==
    ~ Busy /\ ~ torn /\ status # "NONE" /\ list # <<>> => pending

(* A frame that waits for one that never comes is passed up all the same,  *)
(* unless its session ends or is changed under a frame (torn).             *)
Delivered == (list # <<>> /\ status # "NONE") ~> (list = <<>> \/ status = "NONE" \/ torn)

(* "report all mpdu in reordering buffer after ba_free_rec_entry to make   *)
(* sure the reordering buffer will be empty" (ba_action.c:1511-1514).      *)
EmptyWhenDeleted == mlme = "idle" /\ ~ idx /\ status = "NONE" => list = <<>>
=============================================================================
