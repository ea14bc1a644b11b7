---------------------------- MODULE ReorderProofs ----------------------------
(***************************************************************************)
(* Proofs about Reorder, for every window, range of sequence numbers and   *)
(* number of frames and sessions: types, and that a frame that waits has   *)
(* the flush timer armed.  And, while the receive path, the flush timer    *)
(* and the MLME thread do not overlap, that frames are passed up in order, *)
(* and what waits is sorted, fits the window and is not held back.         *)
(***************************************************************************)
EXTENDS Reorder, FiniteSetTheorems, SequenceTheorems, TLAPS

Frames == First .. MaxFrame
Numbers == 0 .. Seqs - 1

RxSteps == {"idle", "start", "begin", "check", "enqueue", "upto", "uptoPass", "uptoCheck", "mark",
            "markPass", "markCheck", "follow", "followCheck", "settle", "settleCheck"}
TimerSteps == {"idle", "exec", "look", "upto", "mark", "follow", "settle", "rearm"}

(* What the three are at, and that a step with a frame has one.            *)
Progress ==
    /\ rx \in [pc : RxSteps, n : 0 .. MaxFrame, to : Numbers]
    /\ rx.pc \in {"start", "begin", "check", "enqueue", "uptoPass", "markPass", "uptoCheck",
                  "markCheck", "followCheck", "settleCheck"} => rx.n \in Frames
    /\ timer \in [pc : TimerSteps, n : {0}, to : Numbers]
    /\ mlme \in {"idle", "add", "del"}

(* SetFlushTimer stays set until ba_reorder_timeout_Exec() has cleared it. *)
Armed == flushSet => pending \/ timer.pc = "exec"

(* A frame that waits has SetFlushTimer set, or will have when the flush   *)
(* that goes on ends, or is about to be passed up by ba_resrc_rec_del().   *)
Watched == list # <<>> => flushSet \/ timer.pc \in TimerSteps \ {"idle", "exec"} \/ mlme = "del" \/ torn

(* Nothing is received for a session that is being deleted.                *)
Apart == mlme = "del" => ~ idx /\ (torn \/ rx.pc = "idle")

(* A session that has ended has no frames, unless it is being deleted or   *)
(* has been while one was received.                                        *)
Over ==
    /\ idx => status # "NONE"
    /\ status = "NONE" /\ rx.pc # "idle" => torn
    /\ status = "NONE" /\ list # <<>> => mlme = "del" \/ torn

IInv == TypeOK /\ Progress /\ Armed /\ Watched /\ Apart /\ Over

-----------------------------------------------------------------------------
LEMMA Constants ==
    /\ BAWinSize \in Nat \ {0} /\ Seqs \in Nat \ {0} /\ First \in Nat /\ MaxFrame \in Nat
    /\ First <= MaxFrame /\ 0 \in Numbers
    /\ \A i \in Int : i % Seqs \in Numbers
<1>1. /\ BAWinSize \in Nat \ {0} /\ Seqs \in Nat \ {0} /\ First \in Nat /\ MaxFrame \in Nat
      /\ First <= MaxFrame
  BY SeqsAssumption
<1> QED
  BY <1>1 DEF Numbers

(* The head of the list is part of it.                                     *)
LEMMA LeadingPart ==
    ASSUME list \in Seq(Frames), NEW good PROVE Leading(good) \in 0 .. Len(list)
<1> DEFINE S == {k \in 1 .. Len(list) : 1 .. k \subseteq good}
<1>1. Len(list) \in Nat
  BY LenProperties
<1>2. IsFiniteSet(1 .. Len(list)) /\ Cardinality(1 .. Len(list)) = Len(list)
  BY <1>1, FS_Interval
<1>3. S \in SUBSET (1 .. Len(list))
  OBVIOUS
<1> HIDE DEF S
<1>4. IsFiniteSet(S) /\ Cardinality(S) <= Len(list)
  BY <1>2, <1>3, FS_Subset
<1>5. Cardinality(S) \in Nat
  BY <1>4, FS_CardinalityType
<1> QED
  BY <1>1, <1>4, <1>5 DEF Leading, S

Tops == -1 .. MaxFrame

LEMMA FramesAreTops == Frames \subseteq Tops /\ Frames \subseteq Int
<1> SUFFICES ASSUME NEW n \in Frames PROVE n \in Tops /\ n \in Int
  OBVIOUS
<1>1. n \in Int /\ First <= n /\ n <= MaxFrame /\ 0 <= First /\ First \in Int /\ MaxFrame \in Int
  BY Constants DEF Frames
<1> QED
  BY <1>1 DEF Tops

LEMMA PassUpType ==
    ASSUME top \in Tops, NEW ns \in Seq(Frames), PassUp(ns) PROVE top' \in Tops /\ ordered' \in BOOLEAN
<1>1. top' \in Tops
  <2>1. CASE ns = <<>>
    BY <2>1 DEF PassUp
  <2>2. CASE ns # <<>>
    <3>1. Len(ns) \in 1 .. Len(ns)
      BY <2>2, EmptySeq
    <3>2. ns[Len(ns)] \in Frames
      BY <3>1, ElementOfSeq
    <3>3. ns[Len(ns)] \in Tops
      BY <3>2, FramesAreTops
    <3> QED
      BY <3>3 DEF PassUp
  <2> QED
    BY <2>1, <2>2
<1>2. ordered' \in BOOLEAN
  BY DEF PassUp
<1> QED
  BY <1>1, <1>2

(* What is taken off the list.                                             *)
LEMMA TakeType ==
    ASSUME list \in Seq(Frames), top \in Tops, NEW k \in 0 .. Len(list), Take(k)
    PROVE  /\ list' \in Seq(Frames) /\ top' \in Tops /\ ordered' \in BOOLEAN
           /\ list = <<>> => list' = <<>>
           /\ k = Len(list) => list' = <<>>
           /\ k > 0 => list[k] \in Frames
<1>1. Len(list) \in Nat /\ \A i \in 1 .. Len(list) : list[i] \in Frames
  BY LenProperties, ElementOfSeq
<1>2. SubSeq(list, k + 1, Len(list)) \in Seq(Frames) /\ SubSeq(list, 1, k) \in Seq(Frames)
  <2>1. k + 1 \in Int /\ k \in Int /\ 1 \in Int /\ Len(list) \in Int
    BY <1>1
  <2>2. \A i \in k + 1 .. Len(list) : list[i] \in Frames
    BY <1>1
  <2>3. \A i \in 1 .. k : list[i] \in Frames
    BY <1>1
  <2>4. SubSeq(list, k + 1, Len(list)) \in Seq(Frames)
    BY <2>1, <2>2, SubSeqProperties
  <2>5. SubSeq(list, 1, k) \in Seq(Frames)
    BY <2>1, <2>3, SubSeqProperties
  <2> QED
    BY <2>4, <2>5
<1>3. top' \in Tops /\ ordered' \in BOOLEAN
  BY <1>2, PassUpType DEF Take
<1>4. k = Len(list) => SubSeq(list, k + 1, Len(list)) = <<>>
  BY <1>1, SubSeqEmpty
<1>5. list = <<>> => k = Len(list)
  BY EmptySeq
<1> QED
  BY <1>1, <1>2, <1>3, <1>4, <1>5 DEF Take

LEMMA RefreshType ==
    ASSUME list \in Seq(Frames), top \in Tops, LastIndSeq \in Numbers, Refresh
    PROVE  /\ list' = <<>> /\ top' \in Tops /\ ordered' \in BOOLEAN
           /\ LastIndSeq' \in Numbers
<1>1. Len(list) \in 0 .. Len(list) /\ Take(Len(list))
  BY LenProperties DEF Refresh
<1>2. list' = <<>> /\ top' \in Tops /\ ordered' \in BOOLEAN
  BY <1>1, TakeType
<1>3. LastIndSeq' \in Numbers
  <2>1. CASE list = <<>>
    BY <2>1 DEF Refresh
  <2>2. CASE list # <<>>
    <3>1. list[Len(list)] \in Int
      <4>1. Len(list) \in 1 .. Len(list)
        BY <2>2, EmptySeq
      <4>2. list[Len(list)] \in Frames
        BY <4>1, ElementOfSeq
      <4> QED
        BY <4>2 DEF Frames
    <3> QED
      BY <2>2, <3>1, Constants DEF Refresh, SN
  <2> QED
    BY <2>1, <2>2
<1> QED
  BY <1>2, <1>3

LEMMA InsertedType ==
    ASSUME list \in Seq(Frames), NEW n \in Frames
    PROVE  Inserted(n) \in Seq(Frames) /\ (list = <<>> => Len(Inserted(n)) = 1)
<1> DEFINE k == Place(SN(n))
           a == SubSeq(list, 1, k)
           b == SubSeq(list, k + 1, Len(list))
<1>1. k \in 0 .. Len(list)
  BY LeadingPart DEF Place
<1>2. Len(list) \in Nat /\ \A i \in 1 .. Len(list) : list[i] \in Frames
  BY LenProperties, ElementOfSeq
<1> HIDE DEF k
<1>3. a \in Seq(Frames) /\ Len(a) = IF 1 <= k THEN k - 1 + 1 ELSE 0
  <2>1. k \in Int /\ 1 \in Int /\ \A i \in 1 .. k : list[i] \in Frames
    BY <1>1, <1>2
  <2> QED
    BY <2>1, SubSeqProperties
<1>4. b \in Seq(Frames) /\ Len(b) = IF k + 1 <= Len(list) THEN Len(list) - (k + 1) + 1 ELSE 0
  <2>1. k + 1 \in Int /\ Len(list) \in Int /\ \A i \in k + 1 .. Len(list) : list[i] \in Frames
    BY <1>1, <1>2
  <2> QED
    BY <2>1, SubSeqProperties
<1>5. <<n>> \in Seq(Frames) /\ Len(<<n>>) = 1
  OBVIOUS
<1> HIDE DEF a, b
<1>6. a \o <<n>> \in Seq(Frames) /\ Len(a \o <<n>>) = Len(a) + 1
  BY <1>3, <1>5, ConcatProperties
<1>7. a \o <<n>> \o b \in Seq(Frames) /\ Len(a \o <<n>> \o b) = Len(a) + 1 + Len(b)
  BY <1>4, <1>6, ConcatProperties
<1>8. list = <<>> => Len(a) = 0 /\ Len(b) = 0
  BY <1>1, <1>3, <1>4, EmptySeq
<1>9. Inserted(n) = a \o <<n>> \o b
  BY DEF Inserted, a, b, k
<1> QED
  BY <1>7, <1>8, <1>9

-----------------------------------------------------------------------------
(* The type invariant in three parts: flags, numbers and progress.         *)
Flags ==
    /\ status \in {"NONE", "USED", "Initialization", "Established"} /\ idx \in BOOLEAN
    /\ flushSet \in BOOLEAN /\ pending \in BOOLEAN
    /\ raced \in BOOLEAN /\ torn \in BOOLEAN /\ again \in BOOLEAN

Counts ==
    /\ list \in Seq(Frames) /\ LastIndSeq \in Numbers
    /\ front \in First - 1 .. MaxFrame /\ sessions \in 0 .. MaxSessions
    /\ top \in Tops /\ ordered \in BOOLEAN

LEMMA TypesSplit == TypeOK <=> Flags /\ Counts
  BY DEF TypeOK, Flags, Counts, Frames, Numbers, Tops

LEMMA FlagsInv == Flags /\ [Next]_vars => Flags'
<1> SUFFICES ASSUME Flags, [Next]_vars PROVE Flags'
  OBVIOUS
<1> USE DEF Flags, session, alarm, passed, Starts, Busy, Refresh, Take, PassUp
<1>1. ASSUME NEW n \in Frames, Receive(n) \/ Bar(n) PROVE Flags'
  BY <1>1 DEF Receive, Bar
<1>2. ASSUME RxNext PROVE Flags'
  BY <1>2 DEF RxNext, RxLeak, RxFirst, RxBegin, RxGoOn, RxCheck, RxInsert, RxDirect, RxUpTo,
     RxMark, RxFollow, RxSettle, PassUpDirect, Arm
<1>3. ASSUME TimerNext PROVE Flags'
  BY <1>3 DEF TimerNext, TimerFire, TimerExec, TimerLook, TimerUpTo, TimerMark, TimerFollow,
     TimerRearm, Rearm
<1>4. ASSUME Add \/ Del \/ MlmeNext PROVE Flags'
  BY <1>4 DEF Add, Del, MlmeNext, AddDone, DelDone
<1>5. CASE UNCHANGED vars
  BY <1>5 DEF vars
<1> QED
  BY <1>1, <1>2, <1>3, <1>4, <1>5 DEF Next, Frames

LEMMA CountsInv == Counts /\ Progress /\ [Next]_vars => Counts'
<1> SUFFICES ASSUME Counts, Progress, [Next]_vars PROVE Counts'
  OBVIOUS
<1>0. list \in Seq(Frames) /\ LastIndSeq \in Numbers /\ top \in Tops
  BY DEF Counts
<1> USE DEF session, passed
<1>1. ASSUME NEW n \in Frames, Receive(n) \/ Bar(n) PROVE Counts'
  <2>1. UNCHANGED <<list, LastIndSeq, sessions, top, ordered>>
    BY <1>1 DEF Receive, Bar
  <2>2. front' = n \/ front' = front
    BY <1>1 DEF Receive, Bar
  <2>3. n \in First - 1 .. MaxFrame
    <3>1. n \in Int /\ First <= n /\ n <= MaxFrame /\ First \in Int /\ MaxFrame \in Int
      BY Constants DEF Frames
    <3> QED
      BY <3>1
  <2> QED
    BY <2>1, <2>2, <2>3 DEF Counts
<1>2. ASSUME RxLeak \/ RxFirst \/ DelDone PROVE Counts'
  BY <1>0, <1>2, RefreshType, EmptySeq DEF RxLeak, RxFirst, DelDone, Counts
<1>3. ASSUME RxBegin PROVE Counts'
  <2>1. rx.n \in Int
    BY <1>3, FramesAreTops DEF RxBegin, Progress
  <2>2. Before(SN(rx.n)) \in Numbers
    <3>1. SN(rx.n) \in Numbers
      BY <2>1, Constants DEF SN
    <3>2. SN(rx.n) - 1 \in Int
      BY <3>1 DEF Numbers
    <3> QED
      BY <3>2, Constants DEF Before
  <2>3. -1 \in Tops
    BY Constants DEF Tops
  <2> QED
    BY <1>3, <2>2, <2>3 DEF RxBegin, Counts
<1>4. ASSUME RxGoOn \/ RxDirect PROVE Counts'
  BY <1>4 DEF RxGoOn, RxDirect, Counts
<1>5. ASSUME RxCheck PROVE Counts'
  <2>1. rx.n \in Frames
    BY <1>5 DEF RxCheck, Progress
  <2>2. <<rx.n>> \in Seq(Frames)
    BY <2>1
  <2>3. PassUp(<<rx.n>>) \/ UNCHANGED passed
    BY <1>5 DEF RxCheck
  <2>4. top' \in Tops /\ ordered' \in BOOLEAN
    BY <1>0, <2>2, <2>3, PassUpType DEF Counts
  <2> QED
    BY <1>5, <2>4 DEF RxCheck, Counts
<1>6. ASSUME RxInsert PROVE Counts'
  <2>1. rx.n \in Frames
    BY <1>6 DEF RxInsert, Progress
  <2>2. list' \in Seq(Frames)
    BY <1>0, <1>6, <2>1, InsertedType DEF RxInsert
  <2> QED
    BY <1>6, <2>2 DEF RxInsert, Counts
<1>7. ASSUME RxUpTo \/ TimerUpTo PROVE Counts'
  <2>1. PICK s : Take(UpTo(s))
    BY <1>7 DEF RxUpTo, TimerUpTo
  <2>2. list' \in Seq(Frames) /\ top' \in Tops /\ ordered' \in BOOLEAN
    BY <1>0, <2>1, LeadingPart, TakeType DEF UpTo
  <2> QED
    BY <1>7, <2>2 DEF RxUpTo, TimerUpTo, Counts
<1>8. ASSUME RxMark PROVE Counts'
  <2>1. rx.to \in Numbers /\ (rx.pc = "markPass" => rx.n \in Frames)
    BY <1>8 DEF RxMark, Progress
  <2>2. top' \in Tops /\ ordered' \in BOOLEAN
    <3>1. CASE rx.pc = "markPass"
      <4>1. rx.n \in Tops
        BY <2>1, <3>1, FramesAreTops
      <4> QED
        BY <1>0, <1>8, <3>1, <4>1 DEF RxMark, PassUpDirect
    <3>2. CASE rx.pc # "markPass"
      BY <1>8, <3>2 DEF RxMark, Counts
    <3> QED
      BY <3>1, <3>2
  <2> QED
    BY <1>8, <2>1, <2>2 DEF RxMark, Counts
<1>9. ASSUME RxFollow \/ TimerFollow PROVE Counts'
  <2>1. PICK s : Take(After(s))
    BY <1>9 DEF RxFollow, TimerFollow
  <2>2. list' \in Seq(Frames) /\ top' \in Tops /\ ordered' \in BOOLEAN
    BY <1>0, <2>1, LeadingPart, TakeType DEF After
  <2> QED
    BY <1>9, <2>2 DEF RxFollow, TimerFollow, Counts
<1>10. ASSUME RxSettle \/ TimerMark PROVE Counts'
  BY <1>10 DEF RxSettle, TimerMark, Counts, Progress
<1>11. ASSUME TimerFire \/ TimerExec \/ (\E late \in BOOLEAN : TimerLook(late)) \/ TimerRearm PROVE Counts'
  BY <1>11 DEF TimerFire, TimerExec, TimerLook, TimerRearm, Counts
<1>12. ASSUME Add \/ Del PROVE Counts'
  <2>1. sessions' \in 0 .. MaxSessions
    <3>1. sessions \in 0 .. MaxSessions /\ sessions < MaxSessions /\ sessions' = sessions + 1
      BY <1>12 DEF Add, Del, Counts
    <3>2. MaxSessions \in Nat
      BY SeqsAssumption
    <3> QED
      BY <3>1, <3>2
  <2>2. list' \in Seq(Frames) /\ LastIndSeq' \in Numbers /\ top' \in Tops /\ ordered' \in BOOLEAN
    BY <1>0, <1>12, RefreshType, EmptySeq DEF Add, Del, Counts
  <2> QED
    BY <1>12, <2>1, <2>2 DEF Add, Del, Counts
<1>13. ASSUME AddDone PROVE Counts'
  BY <1>13 DEF AddDone, Counts
<1>14. CASE UNCHANGED vars
  BY <1>14 DEF vars, Counts
<1> QED
  BY <1>1, <1>2, <1>3, <1>4, <1>5, <1>6, <1>7, <1>8, <1>9, <1>10, <1>11, <1>12, <1>13, <1>14
     DEF Next, RxNext, TimerNext, MlmeNext, Frames

LEMMA SNType == \A n \in Int : SN(n) \in Numbers
  BY Constants DEF SN

LEMMA ProgressInv == Counts /\ Progress /\ [Next]_vars => Progress'
<1> SUFFICES ASSUME Counts, Progress, [Next]_vars PROVE Progress'
  OBVIOUS
<1>0. /\ list \in Seq(Frames) /\ top \in Tops /\ LastIndSeq \in Numbers
      /\ 0 \in Numbers /\ 0 \in 0 .. MaxFrame /\ Frames \subseteq 0 .. MaxFrame
  <2>1. Frames \subseteq 0 .. MaxFrame /\ 0 \in 0 .. MaxFrame
    BY Constants DEF Frames
  <2> QED
    BY <2>1, Constants DEF Counts
<1> USE DEF Progress, RxSteps, TimerSteps, Idle
<1>1. ASSUME NEW n \in Frames, Receive(n) \/ Bar(n) PROVE Progress'
  <2>1. n \in 0 .. MaxFrame /\ SN(n) \in Numbers
    BY <1>0, FramesAreTops, SNType
  <2> QED
    BY <1>0, <1>1, <2>1 DEF Receive, Bar
<1>2. ASSUME RxLeak \/ RxFirst \/ RxBegin \/ RxGoOn \/ RxInsert \/ RxMark \/ RxSettle PROVE Progress'
  <2>1. UNCHANGED <<timer, mlme>>
    BY <1>2 DEF RxLeak, RxFirst, RxBegin, RxGoOn, RxInsert, RxMark, RxSettle
  <2>2. CASE RxLeak \/ RxInsert
    BY <1>0, <2>1, <2>2 DEF RxLeak, RxInsert
  <2>3. CASE RxFirst \/ RxBegin \/ RxGoOn
    BY <1>0, <2>1, <2>3 DEF RxFirst, RxBegin, RxGoOn
  <2>4. CASE RxMark
    BY <1>0, <2>1, <2>4 DEF RxMark
  <2>5. CASE RxSettle
    BY <1>0, <2>1, <2>5 DEF RxSettle
  <2> QED
    BY <1>2, <2>2, <2>3, <2>4, <2>5
<1>3. ASSUME RxCheck PROVE Progress'
  <2>1. SN(rx.n) \in Numbers
    BY <1>3, FramesAreTops, SNType DEF RxCheck
  <2>2. (SN(rx.n) - BAWinSize) % Seqs \in Numbers
    <3>1. SN(rx.n) - BAWinSize \in Int
      BY <2>1, Constants DEF Numbers
    <3> QED
      BY <3>1, Constants
  <2>3. UNCHANGED <<timer, mlme>> /\ rx.n \in Frames /\ rx.n \in 0 .. MaxFrame
    BY <1>0, <1>3 DEF RxCheck
  <2>4. \/ rx' = [pc |-> "mark", n |-> 0, to |-> SN(rx.n)]
        \/ rx' = Idle
        \/ rx' = [rx EXCEPT !.pc = "enqueue"]
        \/ rx' = [rx EXCEPT !.pc = "uptoCheck", !.to = (SN(rx.n) - BAWinSize) % Seqs]
    BY <1>3 DEF RxCheck
  <2>5. CASE rx' = [pc |-> "mark", n |-> 0, to |-> SN(rx.n)]
    BY <1>0, <2>1, <2>3, <2>5
  <2>6. CASE rx' = Idle
    BY <1>0, <2>3, <2>6
  <2>7. CASE rx' = [rx EXCEPT !.pc = "enqueue"]
    BY <2>3, <2>7
  <2>8. CASE rx' = [rx EXCEPT !.pc = "uptoCheck", !.to = (SN(rx.n) - BAWinSize) % Seqs]
    <3> DEFINE to == (SN(rx.n) - BAWinSize) % Seqs
    <3>1. to \in Numbers
      BY <2>2
    <3> HIDE DEF to
    <3> QED
      BY <2>3, <2>8, <3>1 DEF to
  <2> QED
    BY <2>4, <2>5, <2>6, <2>7, <2>8
<1>4. ASSUME RxDirect PROVE Progress'
  <2>1. SN(rx.n) \in Numbers
    BY <1>4, FramesAreTops, SNType DEF RxDirect
  <2> QED
    BY <1>4, <2>1 DEF RxDirect
<1>5. ASSUME RxUpTo PROVE Progress'
  BY <1>5 DEF RxUpTo
<1>6. ASSUME RxFollow PROVE Progress'
  <2>1. After(LastIndSeq) \in 0 .. Len(list) /\ Take(After(LastIndSeq))
    BY <1>0, <1>6, LeadingPart DEF RxFollow, After
  <2>2. After(LastIndSeq) > 0 => SN(list[After(LastIndSeq)]) \in Numbers
    BY <1>0, <2>1, TakeType, FramesAreTops, SNType
  <2> QED
    BY <1>0, <1>6, <2>2 DEF RxFollow
<1>7. ASSUME TimerFire \/ TimerExec \/ TimerUpTo \/ TimerMark \/ TimerRearm PROVE Progress'
  <2>1. UNCHANGED <<rx, mlme>>
    BY <1>7 DEF TimerFire, TimerExec, TimerUpTo, TimerMark, TimerRearm
  <2>2. timer' \in [pc : TimerSteps, n : {0}, to : Numbers]
    <3>1. CASE TimerFire \/ TimerRearm
      <4>1. timer' = [Idle EXCEPT !.pc = "exec"] \/ timer' = Idle
        BY <3>1 DEF TimerFire, TimerRearm
      <4> QED
        BY <1>0, <4>1
    <3>2. CASE TimerExec
      BY <1>0, <3>2 DEF TimerExec
    <3>3. CASE TimerUpTo
      BY <1>0, <3>3 DEF TimerUpTo
    <3>4. CASE TimerMark
      BY <1>0, <3>4 DEF TimerMark
    <3> QED
      BY <1>7, <3>1, <3>2, <3>3, <3>4
  <2> QED
    BY <2>1, <2>2
<1>8. ASSUME NEW late \in BOOLEAN, TimerLook(late) PROVE Progress'
  <2>1. list # <<>> => SN(list[1]) \in Numbers
    <3>1. list # <<>> => 1 \in 1 .. Len(list)
      BY <1>0, EmptySeq
    <3>2. list # <<>> => list[1] \in Frames
      BY <1>0, <3>1, ElementOfSeq
    <3> QED
      BY <3>2, FramesAreTops, SNType
  <2> QED
    BY <1>0, <1>8, <2>1 DEF TimerLook
<1>9. ASSUME TimerFollow PROVE Progress'
  <2>1. After(timer.to) \in 0 .. Len(list) /\ Take(After(timer.to))
    BY <1>0, <1>9, LeadingPart DEF TimerFollow, After
  <2>2. After(timer.to) > 0 => SN(list[After(timer.to)]) \in Numbers
    BY <1>0, <2>1, TakeType, FramesAreTops, SNType
  <2> QED
    BY <1>0, <1>9, <2>2 DEF TimerFollow
<1>10. ASSUME Add \/ Del \/ MlmeNext PROVE Progress'
  BY <1>10 DEF Add, Del, MlmeNext, AddDone, DelDone
<1>11. CASE UNCHANGED vars
  BY <1>11 DEF vars
<1> QED
  BY <1>1, <1>2, <1>3, <1>4, <1>5, <1>6, <1>7, <1>8, <1>9, <1>10, <1>11
     DEF Next, RxNext, TimerNext, Frames

-----------------------------------------------------------------------------
(* Whoever sets SetFlushTimer has armed the timer, and only                *)
(* ba_reorder_timeout_Exec(), which runs when it has expired, clears it.   *)
LEMMA ArmedInv == Armed /\ [Next]_vars => Armed'
<1> SUFFICES ASSUME Armed, [Next]_vars PROVE Armed'
  OBVIOUS
<1> USE DEF Armed, alarm
<1>1. ASSUME NEW n \in Frames, Receive(n) \/ Bar(n) PROVE Armed'
  BY <1>1 DEF Receive, Bar
<1>2. ASSUME RxNext PROVE Armed'
  BY <1>2 DEF RxNext, RxLeak, RxFirst, RxBegin, RxGoOn, RxCheck, RxInsert, RxDirect, RxUpTo,
     RxMark, RxFollow, RxSettle
<1>3. ASSUME TimerNext PROVE Armed'
  BY <1>3 DEF TimerNext, TimerFire, TimerExec, TimerLook, TimerUpTo, TimerMark, TimerFollow,
     TimerRearm, Idle
<1>4. ASSUME Add \/ Del \/ MlmeNext PROVE Armed'
  BY <1>4 DEF Add, Del, MlmeNext, AddDone, DelDone
<1>5. CASE UNCHANGED vars
  BY <1>5 DEF vars
<1> QED
  BY <1>1, <1>2, <1>3, <1>4, <1>5 DEF Next, Frames

LEMMA ApartInv == Apart /\ [Next]_vars => Apart'
<1> SUFFICES ASSUME Apart, [Next]_vars PROVE Apart'
  OBVIOUS
<1> USE DEF Apart, session
<1>1. ASSUME NEW n \in Frames, Receive(n) \/ Bar(n) PROVE Apart'
  BY <1>1 DEF Receive, Bar, Starts
<1>2. ASSUME RxNext PROVE Apart'
  BY <1>2 DEF RxNext, RxLeak, RxFirst, RxBegin, RxGoOn, RxCheck, RxInsert, RxDirect, RxUpTo,
     RxMark, RxFollow, RxSettle
<1>3. ASSUME TimerNext PROVE Apart'
  BY <1>3 DEF TimerNext, TimerFire, TimerExec, TimerLook, TimerUpTo, TimerMark, TimerFollow,
     TimerRearm, Starts
<1>4. ASSUME Add \/ Del \/ MlmeNext PROVE Apart'
  BY <1>4 DEF Add, Del, MlmeNext, AddDone, DelDone, Starts
<1>5. CASE UNCHANGED vars
  BY <1>5 DEF vars
<1> QED
  BY <1>1, <1>2, <1>3, <1>4, <1>5 DEF Next, Frames

(* The two ends of the race: ba_enqueue_reordering_packet() finds          *)
(* SetFlushTimer set, or sets it; ba_reorder_timeout_Exec() clears it and  *)
(* looks at the list afterwards.                                           *)
LEMMA WatchedInv == Counts /\ Progress /\ Watched /\ Over /\ [Next]_vars => Watched'
<1> SUFFICES ASSUME Counts, Progress, Watched, Over, [Next]_vars PROVE Watched'
  OBVIOUS
<1>0. list \in Seq(Frames) /\ top \in Tops /\ LastIndSeq \in Numbers
  BY DEF Counts
<1> USE DEF Watched, TimerSteps, session, alarm
<1>1. ASSUME NEW n \in Frames, Receive(n) \/ Bar(n) PROVE Watched'
  BY <1>1 DEF Receive, Bar, Starts
<1>2. ASSUME RxLeak \/ RxFirst \/ DelDone PROVE Watched'
  BY <1>0, <1>2, RefreshType DEF RxLeak, RxFirst, DelDone
<1>3. ASSUME RxBegin \/ RxGoOn \/ RxCheck \/ RxDirect \/ RxMark \/ RxSettle PROVE Watched'
  BY <1>3 DEF RxBegin, RxGoOn, RxCheck, RxDirect, RxMark, RxSettle
<1>4. ASSUME RxInsert PROVE Watched'
  <2>1. CASE list = <<>>
    <3>1. ~ Duplicate(SN(rx.n))
      <4>1. Place(SN(rx.n)) \in 0 .. 0
        BY <1>0, <2>1, LeadingPart, EmptySeq DEF Place
      <4> QED
        BY <2>1, <4>1, EmptySeq DEF Duplicate
    <3>2. Len(list') = 1
      BY <1>0, <1>4, <2>1, <3>1, InsertedType DEF RxInsert, Progress
    <3>3. Arm \/ flushSet
      BY <3>2, Constants DEF Arm
    <3> QED
      BY <1>4, <3>3 DEF RxInsert
  <2>2. CASE list # <<>>
    BY <1>4, <2>2 DEF RxInsert
  <2> QED
    BY <2>1, <2>2
<1>5. ASSUME RxUpTo \/ TimerUpTo PROVE Watched'
  <2>1. PICK s : Take(UpTo(s))
    BY <1>5 DEF RxUpTo, TimerUpTo
  <2>2. list = <<>> => list' = <<>>
    BY <1>0, <2>1, LeadingPart, TakeType DEF UpTo
  <2> QED
    BY <1>5, <2>2 DEF RxUpTo, TimerUpTo, Progress
<1>6. ASSUME RxFollow \/ TimerFollow PROVE Watched'
  <2>1. PICK s : Take(After(s))
    BY <1>6 DEF RxFollow, TimerFollow
  <2>2. list = <<>> => list' = <<>>
    BY <1>0, <2>1, LeadingPart, TakeType DEF After
  <2> QED
    BY <1>6, <2>2 DEF RxFollow, TimerFollow, Progress, Idle
<1>7. ASSUME TimerFire \/ TimerExec PROVE Watched'
  <2>1. CASE TimerFire
    <3>1. timer' = [Idle EXCEPT !.pc = "exec"] /\ timer.pc = "idle" /\ list' = list /\ flushSet' = flushSet
          /\ mlme' = mlme /\ torn' = (torn \/ FALSE)
      BY <2>1 DEF TimerFire, Starts
    <3> QED
      BY <3>1
  <2>2. CASE TimerExec
    <3>1. list' = list /\ mlme' = mlme /\ torn' = torn
      BY <2>2 DEF TimerExec
    <3>2. CASE status = "NONE" \/ list = <<>>
      BY <3>1, <3>2 DEF Over
    <3>3. CASE ~ (status = "NONE" \/ list = <<>>)
      <4>1. timer' = [timer EXCEPT !.pc = "look"]
        BY <2>2, <3>3 DEF TimerExec
      <4>2. timer'.pc = "look"
        BY <4>1 DEF Progress
      <4> QED
        BY <4>2
    <3> QED
      BY <3>2, <3>3
  <2> QED
    BY <1>7, <2>1, <2>2
<1>8. ASSUME (\E late \in BOOLEAN : TimerLook(late)) \/ TimerMark \/ TimerRearm PROVE Watched'
  BY <1>8 DEF TimerLook, TimerMark, TimerRearm, Rearm, Idle, Progress
<1>9. ASSUME Add \/ Del \/ AddDone PROVE Watched'
  BY <1>0, <1>9, RefreshType DEF Add, Del, AddDone, Starts
<1>10. CASE UNCHANGED vars
  BY <1>10 DEF vars
<1> QED
  BY <1>1, <1>2, <1>3, <1>4, <1>5, <1>6, <1>7, <1>8, <1>9, <1>10
     DEF Next, RxNext, TimerNext, MlmeNext, Frames

LEMMA OverInv == Counts /\ Progress /\ Over /\ Apart /\ [Next]_vars => Over'
<1> SUFFICES ASSUME Counts, Progress, Over, Apart, [Next]_vars PROVE Over'
  OBVIOUS
<1>0. list \in Seq(Frames) /\ top \in Tops /\ LastIndSeq \in Numbers
  BY DEF Counts
<1> USE DEF Over, session
<1>1. ASSUME NEW n \in Frames, Receive(n) \/ Bar(n) PROVE Over'
  BY <1>1 DEF Receive, Bar, Starts
<1>2. ASSUME RxLeak \/ RxFirst \/ DelDone PROVE Over'
  BY <1>0, <1>2, RefreshType DEF RxLeak, RxFirst, DelDone, Idle
<1>3. ASSUME RxBegin \/ RxGoOn \/ RxCheck \/ RxDirect \/ RxMark \/ RxSettle PROVE Over'
  BY <1>3 DEF RxBegin, RxGoOn, RxCheck, RxDirect, RxMark, RxSettle
<1>4. ASSUME RxInsert PROVE Over'
  BY <1>4 DEF RxInsert, Idle
<1>5. ASSUME RxUpTo \/ TimerUpTo PROVE Over'
  <2>1. PICK s : Take(UpTo(s))
    BY <1>5 DEF RxUpTo, TimerUpTo
  <2>2. list = <<>> => list' = <<>>
    BY <1>0, <2>1, LeadingPart, TakeType DEF UpTo
  <2> QED
    BY <1>5, <2>2 DEF RxUpTo, TimerUpTo
<1>6. ASSUME RxFollow \/ TimerFollow PROVE Over'
  <2>1. PICK s : Take(After(s))
    BY <1>6 DEF RxFollow, TimerFollow
  <2>2. list = <<>> => list' = <<>>
    BY <1>0, <2>1, LeadingPart, TakeType DEF After
  <2> QED
    BY <1>6, <2>2 DEF RxFollow, TimerFollow
<1>7. ASSUME TimerFire \/ TimerExec \/ (\E late \in BOOLEAN : TimerLook(late)) \/ TimerMark \/ TimerRearm
      PROVE  Over'
  <2>1. UNCHANGED <<status, idx, list, rx, mlme>>
    BY <1>7 DEF TimerFire, TimerExec, TimerLook, TimerMark, TimerRearm
  <2>2. torn => torn'
    <3>1. CASE TimerFire
      BY <3>1 DEF TimerFire, Starts
    <3>2. CASE ~ TimerFire
      BY <1>7, <3>2 DEF TimerExec, TimerLook, TimerMark, TimerRearm
    <3> QED
      BY <3>1, <3>2
  <2> QED
    BY <2>1, <2>2
<1>8. ASSUME Add \/ Del \/ AddDone PROVE Over'
  BY <1>8 DEF Add, Del, AddDone, Starts
<1>9. CASE UNCHANGED vars
  BY <1>9 DEF vars
<1> QED
  BY <1>1, <1>2, <1>3, <1>4, <1>5, <1>6, <1>7, <1>8, <1>9
     DEF Next, RxNext, TimerNext, MlmeNext, Frames

-----------------------------------------------------------------------------
LEMMA InitInv == Init => IInv
<1> SUFFICES ASSUME Init PROVE IInv
  OBVIOUS
<1> USE DEF Init, Idle
<1>1. list \in Seq(Frames) /\ LastIndSeq \in Numbers /\ top \in Tops
  BY Constants, EmptySeq DEF Tops
<1>2. front \in First - 1 .. MaxFrame /\ sessions \in 0 .. MaxSessions
  <2>1. First \in Int /\ MaxFrame \in Int /\ First <= MaxFrame /\ MaxSessions \in Nat
    BY Constants, SeqsAssumption
  <2> QED
    BY <2>1
<1>3. Counts
  BY <1>1, <1>2 DEF Counts
<1>4. Flags
  BY DEF Flags
<1>5. Progress
  BY Constants DEF Progress, RxSteps, TimerSteps
<1>6. Armed /\ Watched /\ Apart /\ Over
  BY DEF Armed, Watched, Apart, Over
<1> QED
  BY <1>3, <1>4, <1>5, <1>6, TypesSplit DEF IInv

LEMMA NextInv == IInv /\ [Next]_vars => IInv'
<1> SUFFICES ASSUME IInv, [Next]_vars PROVE IInv'
  OBVIOUS
<1>1. Flags /\ Counts /\ Progress /\ Armed /\ Watched /\ Apart /\ Over
  BY TypesSplit DEF IInv
<1>2. Flags' /\ Counts' /\ Progress'
  BY <1>1, FlagsInv, CountsInv, ProgressInv
<1>3. Armed' /\ Watched' /\ Apart' /\ Over'
  BY <1>1, ArmedInv, WatchedInv, ApartInv, OverInv
<1>4. TypeOK'
  BY <1>2 DEF TypeOK, Flags, Counts, Frames, Numbers, Tops
<1> QED
  BY <1>2, <1>3, <1>4 DEF IInv

LEMMA SpecInv == Spec => []IInv
<1> QED
  BY InitInv, NextInv, PTL DEF Spec

(* The fields of a session keep their types: sequence numbers stay within  *)
(* MAXSEQ, and what waits in the list are frames.                          *)
THEOREM ReorderTypes == Spec => []TypeOK
<1>1. IInv => TypeOK
  BY DEF IInv
<1> QED
  BY <1>1, SpecInv, PTL

(* However ba_enqueue_reordering_packet() and ba_reorder_timeout_Exec()    *)
(* overlap, a frame that waits when they are done has FlushTimer armed,    *)
(* until the MLME thread makes or ends a session while a frame is in the   *)
(* receive path (torn).                                                    *)
THEOREM TimerNotLost == Spec => []NoLostTimer
<1>1. IInv => NoLostTimer
  <2> SUFFICES ASSUME IInv, ~ Busy, ~ torn, list # <<>> PROVE pending
    BY DEF NoLostTimer
  <2>1. timer.pc = "idle" /\ mlme = "idle"
    BY DEF Busy
  <2>2. flushSet
    BY <2>1 DEF IInv, Watched, TimerSteps
  <2> QED
    BY <2>1, <2>2 DEF IInv, Armed
<1> QED
  BY <1>1, SpecInv, PTL

-----------------------------------------------------------------------------
(* Half of the sequence numbers, and what the constants are.               *)
Half == Seqs \div 2

LEMMA Sizes ==
    /\ BAWinSize \in Nat \ {0} /\ Seqs \in Nat \ {0} /\ Half \in Nat /\ Ahead \in Int
    /\ 2 * BAWinSize <= Half /\ 2 * Half <= Seqs /\ Ahead = Half - BAWinSize - 1
    /\ Frames \subseteq Nat
<1>1. Frames \subseteq Nat
  BY Constants DEF Frames
<1> QED
  BY <1>1, Constants, SeqsAssumption DEF Half, Ahead

-----------------------------------------------------------------------------
(* Sequence numbers: SN() is the remainder of a division, and two numbers  *)
(* less than MAXSEQ + 1 apart are the same when their remainders are.      *)
Times(q) == q * Seqs

LEMMA TimesType ==
    ASSUME NEW p \in Int, NEW q \in Int
    PROVE  Times(p) \in Int /\ Times(p - q) = Times(p) - Times(q) /\ p - q \in Int
  BY Sizes DEF Times

LEMMA Quotient ==
    ASSUME NEW a \in Int
    PROVE  SN(a) \in 0 .. Seqs - 1 /\ \E q \in Int : a = Times(q) + SN(a)
<1>1. a \div Seqs \in Int /\ a % Seqs \in 0 .. Seqs - 1
  BY Sizes
<1>2. a % Seqs = a - (a \div Seqs) * Seqs
  BY Sizes, Z3
<1> DEFINE q == a \div Seqs
<1>3. q \in Int /\ SN(a) \in 0 .. Seqs - 1 /\ SN(a) = a - Times(q)
  BY <1>1, <1>2 DEF Times, SN
<1> HIDE DEF q
<1>4. Times(q) \in Int
  BY <1>3, TimesType
<1> QED
  BY <1>3, <1>4, Sizes

LEMMA NoMultiple ==
    ASSUME NEW k \in Int, Times(k) < Seqs, -Seqs < Times(k) PROVE k = 0
<1>1. CASE k >= 1
  <2>1. k * Seqs >= Seqs
    BY <1>1, Sizes
  <2> QED
    BY <2>1, Sizes DEF Times
<1>2. CASE k <= -1
  <2>1. k * Seqs <= -Seqs
    BY <1>2, Sizes
  <2> QED
    BY <2>1, Sizes DEF Times
<1> QED
  BY <1>1, <1>2

LEMMA Residue ==
    ASSUME NEW a \in Int, NEW b \in 0 .. Seqs - 1, NEW q \in Int, a = Times(q) + b
    PROVE  SN(a) = b
<1>1. PICK p \in Int : a = Times(p) + SN(a)
  BY Quotient
<1>2. SN(a) \in 0 .. Seqs - 1
  BY Quotient
<1>3. Times(p) \in Int /\ Times(q) \in Int /\ Times(p - q) = Times(p) - Times(q) /\ p - q \in Int
  BY TimesType
<1>4. Times(p - q) < Seqs /\ -Seqs < Times(p - q)
  BY <1>1, <1>2, <1>3, Sizes
<1>5. p = q
  BY <1>3, <1>4, NoMultiple
<1> QED
  BY <1>1, <1>2, <1>3, <1>5

LEMMA Remainder ==
    ASSUME NEW d \in 0 .. Seqs - 1 PROVE SN(d) = d
  BY Sizes DEF SN

LEMMA Negative == ASSUME NEW d \in Int, -Seqs <= d, d < 0 PROVE SN(d) = d + Seqs
<1>1. -1 \in Int /\ d + Seqs \in 0 .. Seqs - 1
  BY Sizes
<1>2. Times(-1) = -Seqs
  BY Sizes DEF Times
<1>3. d = Times(-1) + (d + Seqs)
  BY <1>2, Sizes
<1> QED
  BY <1>1, <1>3, Residue

LEMMA Periodic ==
    ASSUME NEW a \in Int, NEW q \in Int PROVE SN(a - Times(q)) = SN(a)
<1> DEFINE r == SN(a)
           t == Times(q)
<1>1. PICK p \in Int : a = Times(p) + r
  BY Quotient
<1>2. r \in 0 .. Seqs - 1 /\ t \in Int
  BY Quotient, TimesType
<1>3. Times(p - q) = Times(p) - t /\ p - q \in Int /\ Times(p) \in Int
  BY TimesType
<1> HIDE DEF r, t
<1>4. a - t = Times(p - q) + r /\ a - t \in Int
  BY <1>1, <1>2, <1>3, Sizes
<1>5. SN(a - t) = r
  BY <1>2, <1>3, <1>4, Residue
<1> QED
  BY <1>5 DEF r, t

(* It does not matter which of two equal numbers is counted from.          *)
LEMMA Shift ==
    ASSUME NEW a \in Int, NEW d \in Int
    PROVE  SN(SN(a) + d) = SN(a + d) /\ SN(d - SN(a)) = SN(d - a)
<1> DEFINE r == SN(a)
<1>1. PICK p \in Int : a = Times(p) + r
  BY Quotient
<1>2. r \in 0 .. Seqs - 1
  BY Quotient
<1>3. Times(p) \in Int /\ 0 - p \in Int /\ Times(0) = 0 /\ 0 \in Int
  BY TimesType, Sizes DEF Times
<1>4. Times(0 - p) = Times(0) - Times(p)
  BY <1>3, TimesType
<1> HIDE DEF r
<1>5. r + d = (a + d) - Times(p) /\ d - r = (d - a) - Times(0 - p) /\ a + d \in Int /\ d - a \in Int
  BY <1>1, <1>2, <1>3, <1>4, Sizes
<1>6. SN(r + d) = SN(a + d) /\ SN(d - r) = SN(d - a)
  BY <1>3, <1>5, Periodic
<1> QED
  BY <1>6 DEF r

LEMMA Difference ==
    ASSUME NEW a \in Int, NEW b \in Int PROVE SN(SN(a) - SN(b)) = SN(a - b)
<1> DEFINE s == SN(b)
<1>1. s \in Int /\ 0 - s \in Int
  BY Quotient
<1>2. SN(a - s) = SN(a - b)
  BY Shift
<1> HIDE DEF s
<1>3. SN(SN(a) + (0 - s)) = SN(a + (0 - s))
  BY <1>1, Shift
<1>4. SN(a) \in Int
  BY Quotient
<1>5. SN(a) + (0 - s) = SN(a) - s /\ a + (0 - s) = a - s
  BY <1>1, <1>4
<1>6. SN(SN(a) - s) = SN(a - b)
  BY <1>2, <1>3, <1>5
<1> QED
  BY <1>6 DEF s

(* SEQ_SMALLER(), equality and SEQ_STEPONE() mean what they say for numbers *)
(* that are close enough.                                                  *)
LEMMA SmallerMeans ==
    ASSUME NEW a \in Int, NEW b \in Int, -Half <= a - b, a - b < Half
    PROVE  Smaller(SN(a), SN(b)) <=> a < b
<1>1. Smaller(SN(a), SN(b)) <=> SN(a - b) >= Half
  <2>1. SN(SN(a) - SN(b)) = SN(a - b)
    BY Difference
  <2> QED
    BY <2>1 DEF Smaller, SN, Half
<1>2. CASE a < b
  <2>1. a - b \in Int /\ -Seqs <= a - b /\ a - b < 0
    BY <1>2, Sizes
  <2>2. SN(a - b) = (a - b) + Seqs
    BY <2>1, Negative
  <2> QED
    BY <1>1, <1>2, <2>2, Sizes
<1>3. CASE a >= b
  <2>1. a - b \in 0 .. Seqs - 1
    BY <1>3, Sizes
  <2>2. SN(a - b) = a - b
    BY <2>1, Remainder
  <2> QED
    BY <1>1, <1>3, <2>2, Sizes
<1> QED
  BY <1>2, <1>3

LEMMA SameMeans ==
    ASSUME NEW a \in Int, NEW b \in Int, a - b < Seqs, b - a < Seqs
    PROVE  SN(a) = SN(b) <=> a = b
<1> SUFFICES ASSUME SN(a) = SN(b) PROVE a = b
  OBVIOUS
<1>1. SN(a - b) = 0
  <2>1. SN(a) - SN(b) = 0
    BY Quotient
  <2>2. SN(0) = 0
    BY Remainder, Sizes
  <2> QED
    BY <2>1, <2>2, Difference
<1>2. CASE a < b
  <2>1. a - b \in Int /\ -Seqs <= a - b /\ a - b < 0
    BY <1>2, Sizes
  <2>2. SN(a - b) = (a - b) + Seqs
    BY <2>1, Negative
  <2> QED
    BY <1>1, <2>2, Sizes
<1>3. CASE a >= b
  <2>1. a - b \in 0 .. Seqs - 1
    BY <1>3, Sizes
  <2>2. SN(a - b) = a - b
    BY <2>1, Remainder
  <2> QED
    BY <1>1, <2>2
<1> QED
  BY <1>2, <1>3

LEMMA StepOneMeans ==
    ASSUME NEW a \in Int, NEW b \in Int, a - b < Seqs, b - a < Seqs - 1
    PROVE  StepOne(SN(a), SN(b)) <=> a = b + 1
<1>1. SN(SN(b) + 1) = SN(b + 1)
  BY Shift
<1>2. StepOne(SN(a), SN(b)) <=> SN(a) = SN(b + 1)
  BY <1>1 DEF StepOne, SN
<1>3. b + 1 \in Int /\ a - (b + 1) < Seqs /\ (b + 1) - a < Seqs
  BY Sizes
<1> QED
  BY <1>2, <1>3, SameMeans

-----------------------------------------------------------------------------
(* The number counted without wrapping that a sequence number stands for:  *)
(* the last one up to f, the first one from l.                             *)
UpFrom(l, s) == l + SN(s - l)
DownFrom(f, s) == f - SN(f - s)

LEMMA Counted ==
    ASSUME NEW f \in Int, NEW s \in Numbers
    PROVE  /\ DownFrom(f, s) \in Int /\ DownFrom(f, s) <= f /\ f - DownFrom(f, s) < Seqs
           /\ SN(DownFrom(f, s)) = s
           /\ UpFrom(f, s) \in Int /\ f <= UpFrom(f, s) /\ UpFrom(f, s) - f < Seqs
           /\ SN(UpFrom(f, s)) = s
<1>1. s \in 0 .. Seqs - 1 /\ s \in Int /\ f - s \in Int /\ s - f \in Int /\ SN(s) = s
  BY Sizes, Remainder DEF Numbers
<1> DEFINE x == SN(f - s)
           y == SN(s - f)
<1>2. x \in 0 .. Seqs - 1 /\ y \in 0 .. Seqs - 1
  BY <1>1, Quotient
<1>3. PICK p \in Int : f - s = Times(p) + x
  BY <1>1, Quotient
<1>4. PICK q \in Int : s - f = Times(q) + y
  BY <1>1, Quotient
<1>5. /\ Times(p) \in Int /\ Times(q) \in Int /\ Times(0 - p) = Times(0) - Times(p)
      /\ Times(0) = 0 /\ 0 - p \in Int
  BY TimesType, Sizes DEF Times
<1> HIDE DEF x, y
<1>6. f - x = s - Times(0 - p) /\ f + y = s - Times(q)
  BY <1>1, <1>2, <1>3, <1>4, <1>5, Sizes
<1>7. SN(f - x) = s /\ SN(f + y) = s
  BY <1>1, <1>5, <1>6, Periodic
<1>8. DownFrom(f, s) = f - x /\ UpFrom(f, s) = f + y
  BY DEF DownFrom, UpFrom, x, y
<1> QED
  BY <1>2, <1>7, <1>8, Sizes

LEMMA CountedDown ==
    ASSUME NEW f \in Int, NEW l \in Int, l <= f, f - l < Seqs PROVE DownFrom(f, SN(l)) = l
<1>1. SN(l) \in Numbers
  BY SNType
<1> DEFINE d == DownFrom(f, SN(l))
<1>2. d \in Int /\ d <= f /\ f - d < Seqs /\ SN(d) = SN(l)
  BY <1>1, Counted
<1> HIDE DEF d
<1>3. d = l
  BY <1>2, Sizes, SameMeans
<1> QED
  BY <1>3 DEF d

LEMMA CountedUp ==
    ASSUME NEW l \in Int, NEW t \in Int, l <= t, t - l < Seqs PROVE UpFrom(l, SN(t)) = t
<1>1. SN(t) \in Numbers
  BY SNType
<1> DEFINE d == UpFrom(l, SN(t))
<1>2. d \in Int /\ l <= d /\ d - l < Seqs /\ SN(d) = SN(t)
  BY <1>1, Counted
<1> HIDE DEF d
<1>3. d = t
  BY <1>2, Sizes, SameMeans
<1> QED
  BY <1>3 DEF d

-----------------------------------------------------------------------------
(* The head of the list that belongs to a set is all that belongs to it    *)
(* before the first frame that does not.                                   *)
LEMMA LeadingIs ==
    ASSUME list \in Seq(Frames), NEW good \in SUBSET (1 .. Len(list))
    PROVE  /\ Leading(good) \in 0 .. Len(list) /\ 1 .. Leading(good) \subseteq good
           /\ Leading(good) < Len(list) => Leading(good) + 1 \notin good
<1> DEFINE S == {k \in 1 .. Len(list) : 1 .. k \subseteq good}
           m == Leading(good)
<1>1. m \in 0 .. Len(list) /\ Len(list) \in Nat
  BY LeadingPart, LenProperties
<1>2. m = Cardinality(S)
  BY DEF Leading
<1>3. IsFiniteSet(S)
  <2>1. IsFiniteSet(1 .. Len(list))
    BY <1>1, FS_Interval
  <2> QED
    BY <2>1, FS_Subset
<1>4. \A k \in S : k \in Nat /\ 1 .. k \subseteq S
  BY <1>1
<1> HIDE DEF S, m
<1>5. \A k \in S : k <= m
  <2> SUFFICES ASSUME NEW k \in S PROVE k <= m
    OBVIOUS
  <2>1. IsFiniteSet(1 .. k) /\ Cardinality(1 .. k) = k
    BY <1>4, FS_Interval
  <2>2. Cardinality(1 .. k) <= Cardinality(S)
    BY <1>3, <1>4, FS_Subset
  <2> QED
    BY <1>2, <2>1, <2>2
<1>6. S = 1 .. m
  <2>1. IsFiniteSet(1 .. m) /\ Cardinality(1 .. m) = m
    BY <1>1, FS_Interval
  <2>2. S \subseteq 1 .. m
    BY <1>1, <1>5 DEF S
  <2> QED
    BY <1>2, <2>1, <2>2, FS_Subset
<1>7. 1 .. m \subseteq good
  <2> SUFFICES ASSUME NEW i \in 1 .. m PROVE i \in good
    OBVIOUS
  <2>1. i \in S /\ i \in 1 .. i
    BY <1>1, <1>6
  <2> QED
    BY <2>1 DEF S
<1>8. ASSUME m < Len(list), m + 1 \in good PROVE FALSE
  <2>1. m + 1 \in 1 .. Len(list) /\ 1 .. (m + 1) \subseteq good
    BY <1>1, <1>7, <1>8
  <2>2. m + 1 \in S
    BY <2>1 DEF S
  <2> QED
    BY <1>1, <1>5, <2>2
<1> QED
  BY <1>1, <1>7, <1>8 DEF m

-----------------------------------------------------------------------------
(* The last frame indicated, and the one a step is about, counted without  *)
(* wrapping.                                                               *)
Last == DownFrom(front, LastIndSeq)
Now == IF timer.pc = "idle" THEN rx ELSE timer
Target == UpFrom(Last, Now.to)

Marks == {"mark", "markPass", "markCheck"}
Settles == {"settle", "settleCheck"}
Follows == {"follow", "followCheck"}

(* The frames that wait are beyond Edge; what has been passed up is not    *)
(* beyond Passed.                                                          *)
Edge == IF Now.pc \in Marks THEN Target
        ELSE IF Now.pc \in Settles THEN Target + 1
        ELSE IF Now.pc \in Follows THEN Last ELSE Last + 1
Passed == IF Now.pc \in Marks \cup Settles THEN Target ELSE Last

(* One of the three runs at a time.                                        *)
Alone ==
    /\ rx.pc = "idle" \/ timer.pc = "idle"
    /\ rx.pc = "idle" \/ mlme = "idle"
    /\ timer.pc = "idle" \/ mlme = "idle"

(* What they find the session in.                                          *)
Owned ==
    /\ idx => status \in {"Initialization", "Established"}
    /\ status = "Established" => idx /\ mlme # "del"
    /\ status # "Established" => list = <<>> \/ mlme = "del"
    /\ mlme = "add" \/ rx.pc = "begin" => list = <<>>
    /\ rx.pc # "idle" => idx
    /\ rx.pc \notin {"idle", "start", "begin", "upto", "mark", "follow", "settle"} =>
           status = "Established"

Ranked ==
    /\ ordered
    /\ \A i \in 1 .. Len(list) : top < list[i]
    /\ \A i, j \in 1 .. Len(list) : i < j => list[i] < list[j]

Newest == rx.pc \in {"start", "begin"} => front - BAWinSize < rx.n /\ rx.n <= front

Inside ==
    /\ \A i \in 1 .. Len(list) : Edge < list[i] /\ list[i] <= Last + BAWinSize /\ list[i] <= front
    /\ top <= Passed

(* How far the newest frame, the one in hand and the one to mark are from  *)
(* the last one indicated.                                                 *)
Near ==
    /\ Now.pc \notin {"start", "check", "upto", "mark", "uptoCheck", "markCheck"} =>
           front <= Last + BAWinSize
    /\ Now.pc \in {"start", "check"} =>
           /\ Last - BAWinSize < rx.n /\ rx.n < Last + Half /\ rx.n <= front
           /\ front <= Last + BAWinSize \/ front = rx.n
    /\ Now.pc \in {"enqueue", "uptoPass", "markPass"} =>
           Last + 1 < rx.n /\ rx.n <= Last + BAWinSize /\ rx.n <= front
    /\ Now.pc \in {"uptoPass", "markPass"} => Target = rx.n
    /\ Now.pc \in {"upto", "mark"} =>
           /\ Target < Last + Half /\ Target <= front
           /\ front <= Last + BAWinSize \/ front = Target
    /\ Now.pc \in {"uptoCheck", "markCheck"} =>
           Target = rx.n - BAWinSize /\ Last < Target /\ rx.n < Last + Half /\ front = rx.n
    /\ Now.pc \in {"followCheck", "settleCheck"} => rx.n = Last + BAWinSize /\ front = rx.n
    /\ Now.pc \in Settles => Last < Target /\ Target <= Last + BAWinSize /\ Target <= front
    /\ timer.pc = "follow" => timer.to = LastIndSeq

Placed == status = "Established" => Inside /\ Near

(* A frame on its way past the list is in it, or has not been.             *)
Fresh ==
    rx.pc \in {"uptoPass", "markPass"} /\ ~ again =>
        rx.n # top /\ \A i \in 1 .. Len(list) : list[i] # rx.n

(* What holds as long as the three have not overlapped.                    *)
Steady == Alone /\ Owned /\ Ranked /\ Newest /\ Placed /\ Fresh /\ Len(list) < BAWinSize
Orderly == raced \/ Steady

-----------------------------------------------------------------------------
LEMMA Where ==
    ASSUME Counts, Progress
    PROVE  /\ Last \in Int /\ front \in Int /\ Last <= front /\ front - Last < Seqs
           /\ SN(Last) = LastIndSeq
           /\ Target \in Int /\ Last <= Target /\ Target - Last < Seqs /\ SN(Target) = Now.to
           /\ top \in Int /\ Len(list) \in Nat
           /\ \A i \in 1 .. Len(list) : list[i] \in Frames /\ list[i] \in Int
<1>1. front \in Int /\ LastIndSeq \in Numbers /\ list \in Seq(Frames)
  BY Constants DEF Counts
<1>2. /\ Last \in Int /\ Last <= front /\ front - Last < Seqs /\ SN(Last) = LastIndSeq
  BY <1>1, Counted DEF Last
<1>3. Now.to \in Numbers
  BY DEF Progress, Now
<1>4. /\ Target \in Int /\ Last <= Target /\ Target - Last < Seqs /\ SN(Target) = Now.to
  BY <1>2, <1>3, Counted DEF Target
<1>5. top \in Int
  BY DEF Counts, Tops
<1>6. Len(list) \in Nat /\ \A i \in 1 .. Len(list) : list[i] \in Frames /\ list[i] \in Int
  BY <1>1, LenProperties, ElementOfSeq, FramesAreTops
<1> QED
  BY <1>1, <1>2, <1>4, <1>5, <1>6

(* What is counted after a step.                                           *)
LEMMA Marked ==
    ASSUME front' \in Int, NEW l \in Int, l <= front', front' - l < Seqs, LastIndSeq' = SN(l)
    PROVE  Last' = l
<1>1. DownFrom(front', SN(l)) = l
  BY CountedDown
<1> QED
  BY <1>1 DEF Last

LEMMA Aimed ==
    ASSUME NEW l \in Int, Last' = l, NEW t \in Int, l <= t, t - l < Seqs, Now'.to = SN(t)
    PROVE  Target' = t
<1>1. UpFrom(l, SN(t)) = t
  BY CountedUp
<1> QED
  BY <1>1 DEF Target

LEMMA Kept ==
    ASSUME UNCHANGED <<front, LastIndSeq>>
    PROVE  Last' = Last /\ (Now'.to = Now.to => Target' = Target)
  BY DEF Last, Target

(* What is taken off the head of the list leaves it in order.              *)
LEMMA TakeKeepsOrder ==
    ASSUME Counts, ~ raced, Ranked, NEW k \in 0 .. Len(list), Take(k)
    PROVE  /\ Len(list') = Len(list) - k /\ \A i \in 1 .. Len(list') : list'[i] = list[k + i]
           /\ top' = IF k = 0 THEN top ELSE list[k]
           /\ Ranked'
<1>1. Len(list) \in Nat /\ \A i \in 1 .. Len(list) : list[i] \in Frames /\ list[i] \in Int
  BY LenProperties, ElementOfSeq, FramesAreTops DEF Counts
<1>2. /\ Len(list') = Len(list) - k
      /\ \A i \in 1 .. Len(list') : list'[i] = list[k + i]
  <2>1. k + 1 \in Int /\ Len(list) \in Int /\ \A i \in k + 1 .. Len(list) : list[i] \in Frames
    BY <1>1
  <2>2. list' = SubSeq(list, k + 1, Len(list))
    BY DEF Take
  <2>3. /\ Len(list') = IF k + 1 <= Len(list) THEN Len(list) - (k + 1) + 1 ELSE 0
        /\ \A i \in 1 .. Len(list) - (k + 1) + 1 : list'[i] = list[(k + 1) + i - 1]
    BY <2>1, <2>2, SubSeqProperties
  <2> QED
    BY <1>1, <2>3
<1> DEFINE ns == SubSeq(list, 1, k)
<1>3. Len(ns) = k /\ \A i \in 1 .. k : ns[i] = list[i]
  <2>1. k \in Int /\ 1 \in Int /\ \A i \in 1 .. k : list[i] \in Frames
    BY <1>1
  <2>2. /\ Len(ns) = IF 1 <= k THEN k - 1 + 1 ELSE 0
        /\ \A i \in 1 .. k - 1 + 1 : ns[i] = list[1 + i - 1]
    BY <2>1, SubSeqProperties
  <2> HIDE DEF ns
  <2> QED
    BY <1>1, <2>2
<1>4. PassUp(ns)
  BY DEF Take
<1>5. ns = <<>> <=> k = 0
  <2>1. k = 0 => ns = <<>>
    BY SubSeqEmpty
  <2>2. ns = <<>> => Len(ns) = 0
    BY EmptySeq
  <2> QED
    BY <1>3, <2>1, <2>2
<1> HIDE DEF ns
<1>6. top' = IF k = 0 THEN top ELSE list[k]
  BY <1>3, <1>4, <1>5 DEF PassUp
<1>7. ordered'
  <2>1. ASSUME NEW i \in 1 .. k PROVE list[i] > IF i = 1 THEN top ELSE list[i - 1]
    <3>1. i \in 1 .. Len(list) /\ i \in Int /\ (i # 1 => i - 1 \in 1 .. Len(list) /\ i - 1 < i)
      BY <1>1
    <3> QED
      BY <3>1 DEF Ranked
  <2>2. \A i \in 1 .. k : ns[i] > IF i = 1 THEN top ELSE ns[i - 1]
    BY <1>3, <2>1
  <2> QED
    BY <1>3, <1>4, <2>2 DEF PassUp, Ranked
<1>8. \A i, j \in 1 .. Len(list') : i < j => list'[i] < list'[j]
  <2> SUFFICES ASSUME NEW i \in 1 .. Len(list'), NEW j \in 1 .. Len(list'), i < j
              PROVE  list'[i] < list'[j]
    OBVIOUS
  <2>1. k + i \in 1 .. Len(list) /\ k + j \in 1 .. Len(list) /\ k + i < k + j
    BY <1>1, <1>2
  <2> QED
    BY <1>2, <2>1 DEF Ranked
<1>9. \A i \in 1 .. Len(list') : top' < list'[i]
  BY <1>1, <1>2, <1>6 DEF Ranked
<1> QED
  BY <1>2, <1>6, <1>7, <1>8, <1>9 DEF Ranked

(* ba_refresh_reordering_mpdus()                                           *)
LEMMA RefreshKeepsOrder ==
    ASSUME Counts, ~ raced, Ranked, Refresh
    PROVE  /\ list' = <<>> /\ Len(list') = 0 /\ Ranked'
           /\ Len(list) \in Nat
           /\ Len(list) = 0 => top' = top /\ LastIndSeq' = LastIndSeq
           /\ Len(list) > 0 => top' = list[Len(list)] /\ LastIndSeq' = SN(list[Len(list)])
<1>1. Len(list) \in 0 .. Len(list) /\ Take(Len(list)) /\ Len(list) \in Nat
  BY LenProperties DEF Refresh, Counts
<1>2. list' = <<>>
  BY <1>1, TakeType DEF Counts
<1>3. /\ Ranked'
      /\ top' = IF Len(list) = 0 THEN top ELSE list[Len(list)]
  BY <1>1, TakeKeepsOrder
<1>4. list = <<>> <=> Len(list) = 0
  BY EmptySeq DEF Counts
<1>5. Len(list') = 0
  BY <1>2, EmptySeq
<1> QED
  BY <1>1, <1>2, <1>3, <1>4, <1>5 DEF Refresh

-----------------------------------------------------------------------------
LEMMA AloneInv == Alone /\ Progress /\ ~ raced' /\ [Next]_vars => Alone'
<1> SUFFICES ASSUME Alone, Progress, ~ raced', [Next]_vars PROVE Alone'
  OBVIOUS
<1> USE DEF Alone, Starts, Busy, Idle
<1>1. ASSUME NEW n \in Frames, Receive(n) \/ Bar(n) PROVE Alone'
  BY <1>1 DEF Receive, Bar
<1>2. ASSUME RxNext PROVE Alone'
  <2>1. rx.pc # "idle" /\ UNCHANGED <<timer, mlme>>
    BY <1>2 DEF RxNext, RxLeak, RxFirst, RxBegin, RxGoOn, RxCheck, RxInsert, RxDirect, RxUpTo,
       RxMark, RxFollow, RxSettle
  <2> QED
    BY <2>1
<1>3. ASSUME TimerFire PROVE Alone'
  BY <1>3 DEF TimerFire
<1>4. ASSUME TimerExec \/ (\E late \in BOOLEAN : TimerLook(late)) \/ TimerUpTo \/ TimerMark
             \/ TimerFollow \/ TimerRearm
      PROVE  Alone'
  <2>1. timer.pc # "idle" /\ UNCHANGED <<rx, mlme>>
    BY <1>4 DEF TimerExec, TimerLook, TimerUpTo, TimerMark, TimerFollow, TimerRearm
  <2> QED
    BY <2>1
<1>5. ASSUME Add \/ Del \/ MlmeNext PROVE Alone'
  BY <1>5 DEF Add, Del, MlmeNext, AddDone, DelDone
<1>6. CASE UNCHANGED vars
  BY <1>6 DEF vars
<1> QED
  BY <1>1, <1>2, <1>3, <1>4, <1>5, <1>6 DEF Next, TimerNext, Frames

(* What is empty stays empty when frames are taken off it.                 *)
LEMMA NothingToTake ==
    ASSUME Counts, list = <<>>, NEW good, Take(Leading(good)) PROVE list' = <<>>
  BY LeadingPart, TakeType DEF Counts

(* What comes after a step that has several outcomes.                      *)
LEMMA CheckGoesOn ==
    ASSUME Progress, RxCheck
    PROVE  \/ /\ StepOne(SN(rx.n), LastIndSeq) /\ PassUp(<<rx.n>>)
              /\ rx'.pc = "mark" /\ rx'.to = SN(rx.n)
           \/ /\ ~ StepOne(SN(rx.n), LastIndSeq) /\ UNCHANGED passed
              /\ \/ Old(SN(rx.n)) /\ rx'.pc = "idle"
                 \/ /\ ~ Old(SN(rx.n)) /\ Within(SN(rx.n))
                    /\ rx'.pc = "enqueue" /\ rx'.n = rx.n
                 \/ /\ ~ Old(SN(rx.n)) /\ ~ Within(SN(rx.n))
                    /\ rx'.pc = "uptoCheck" /\ rx'.n = rx.n
                    /\ rx'.to = (SN(rx.n) - BAWinSize) % Seqs
<1> DEFINE s == SN(rx.n)
           t == (s - BAWinSize) % Seqs
<1>1. CASE StepOne(s, LastIndSeq)
  <2>1. rx' = [pc |-> "mark", n |-> 0, to |-> s] /\ PassUp(<<rx.n>>)
    BY <1>1 DEF RxCheck
  <2> HIDE DEF s
  <2>2. rx'.pc = "mark" /\ rx'.to = s
    BY <2>1
  <2> QED
    BY <1>1, <2>1, <2>2 DEF s
<1>2. CASE ~ StepOne(s, LastIndSeq)
  <2>1. /\ rx' = IF Old(s) THEN Idle
                  ELSE IF Within(s) THEN [rx EXCEPT !.pc = "enqueue"]
                  ELSE [rx EXCEPT !.pc = "uptoCheck", !.to = t]
        /\ UNCHANGED passed
    BY <1>2 DEF RxCheck
  <2> HIDE DEF t
  <2>2. Old(s) => rx'.pc = "idle"
    BY <2>1 DEF Idle
  <2>3. ~ Old(s) /\ Within(s) => rx'.pc = "enqueue" /\ rx'.n = rx.n
    BY <2>1 DEF Progress
  <2>4. ~ Old(s) /\ ~ Within(s) => rx'.pc = "uptoCheck" /\ rx'.n = rx.n /\ rx'.to = t
    BY <2>1 DEF Progress
  <2> QED
    BY <1>2, <2>1, <2>2, <2>3, <2>4 DEF t
<1> QED
  BY <1>1, <1>2

LEMMA UpToGoesOn ==
    ASSUME Progress, RxUpTo
    PROVE  /\ \/ rx.pc = "upto" /\ rx'.pc = "mark"
              \/ rx.pc = "uptoPass" /\ rx'.pc = "markPass"
              \/ rx.pc = "uptoCheck" /\ rx'.pc = "markCheck"
           /\ rx'.n = rx.n /\ rx'.to = rx.to
<1> USE DEF RxUpTo, Progress
<1>1. CASE rx.pc = "upto"
  BY <1>1
<1>2. CASE rx.pc = "uptoPass"
  BY <1>2
<1>3. CASE rx.pc = "uptoCheck"
  BY <1>3
<1> QED
  BY <1>1, <1>2, <1>3

LEMMA OwnedInv ==
    ASSUME Counts, Progress, Over, Alone, Owned, ~ raced, ~ raced', [Next]_vars PROVE Owned'
<1> USE DEF session
<1>1. ASSUME NEW n \in Frames, Receive(n) \/ Bar(n) PROVE Owned'
  BY <1>1 DEF Receive, Bar, Starts, Busy, Owned
<1>2. ASSUME RxLeak \/ RxFirst PROVE Owned'
  <2>1. list' = <<>> /\ UNCHANGED <<status, idx, mlme>> /\ status = "Initialization"
        /\ (rx' = Idle \/ rx' = [rx EXCEPT !.pc = "begin"]) /\ rx.pc = "start"
    BY <1>2, RefreshType DEF RxLeak, RxFirst, Counts, Owned
  <2>2. rx'.pc = "idle" \/ rx'.pc = "begin"
    BY <2>1 DEF Idle, Progress
  <2> QED
    BY <2>1, <2>2 DEF Owned
<1>3. ASSUME RxBegin PROVE Owned'
  BY <1>3 DEF RxBegin, Owned, Alone, Progress
<1>4. ASSUME RxGoOn \/ RxCheck \/ RxDirect \/ RxMark \/ RxSettle PROVE Owned'
  <2>1. UNCHANGED <<status, idx, list, mlme>> /\ rx.pc # "idle"
    BY <1>4 DEF RxGoOn, RxCheck, RxDirect, RxMark, RxSettle
  <2>2. \/ rx'.pc \in {"idle", "start", "upto", "mark", "follow", "settle"}
        \/ rx'.pc # "begin" /\ status = "Established"
    <3>1. CASE RxGoOn
      BY <3>1 DEF RxGoOn, Progress
    <3>2. CASE RxCheck
      <4>1. rx'.pc \in {"idle", "mark", "enqueue", "uptoCheck"}
        BY <3>2, CheckGoesOn
      <4> QED
        BY <3>2, <4>1 DEF RxCheck, Owned
    <3>3. CASE RxDirect
      BY <3>3 DEF RxDirect, Owned, Progress
    <3>4. CASE RxMark
      <4>1. rx'.pc = "follow" \/ (rx.pc = "markCheck" /\ rx'.pc = "followCheck")
        BY <3>4 DEF RxMark, Progress, Idle
      <4> QED
        BY <4>1 DEF Owned
    <3>5. CASE RxSettle
      BY <3>5 DEF RxSettle, Owned, Progress, Idle
    <3> QED
      BY <1>4, <3>1, <3>2, <3>3, <3>4, <3>5
  <2> QED
    BY <2>1, <2>2 DEF Owned
<1>5. ASSUME RxInsert PROVE Owned'
  <2>1. status = "Established" /\ mlme = "idle"
    BY <1>5 DEF RxInsert, Owned, Alone
  <2> QED
    BY <1>5, <2>1 DEF RxInsert, Owned, Idle
<1>6. ASSUME RxUpTo PROVE Owned'
  <2>1. list = <<>> => list' = <<>>
    BY <1>6, NothingToTake DEF RxUpTo, UpTo
  <2>2. rx'.pc = "mark" \/ (rx'.pc \in {"markPass", "markCheck"} /\ status = "Established")
    <3>1. \/ rx.pc = "upto" /\ rx'.pc = "mark"
          \/ rx.pc = "uptoPass" /\ rx'.pc = "markPass"
          \/ rx.pc = "uptoCheck" /\ rx'.pc = "markCheck"
      BY <1>6, UpToGoesOn
    <3> QED
      BY <3>1 DEF Owned
  <2>3. UNCHANGED <<status, idx, mlme>> /\ rx.pc # "idle"
    BY <1>6 DEF RxUpTo
  <2> QED
    BY <2>1, <2>2, <2>3 DEF Owned
<1>7. ASSUME RxFollow PROVE Owned'
  <2>1. list = <<>> => list' = <<>>
    BY <1>7, NothingToTake DEF RxFollow, After
  <2>2. \/ rx'.pc \in {"idle", "settle"}
        \/ rx'.pc \in {"settleCheck", "check"} /\ status = "Established"
    BY <1>7 DEF RxFollow, Owned, Progress, Idle
  <2>3. UNCHANGED <<status, idx, mlme>> /\ rx.pc # "idle"
    BY <1>7 DEF RxFollow
  <2> QED
    BY <2>1, <2>2, <2>3 DEF Owned
<1>8. ASSUME TimerUpTo \/ TimerFollow PROVE Owned'
  <2>1. list = <<>> => list' = <<>>
    BY <1>8, NothingToTake DEF TimerUpTo, TimerFollow, UpTo, After
  <2> QED
    BY <1>8, <2>1 DEF TimerUpTo, TimerFollow, Owned
<1>9. ASSUME TimerFire \/ TimerExec \/ (\E late \in BOOLEAN : TimerLook(late)) \/ TimerMark
             \/ TimerRearm
      PROVE  Owned'
  <2>1. UNCHANGED <<status, idx, list, rx, mlme>>
    BY <1>9 DEF TimerFire, TimerExec, TimerLook, TimerMark, TimerRearm
  <2> QED
    BY <2>1 DEF Owned
<1>10. ASSUME Add PROVE Owned'
  <2>1. ~ Busy /\ mlme' = "add" /\ UNCHANGED <<idx, rx>>
    BY <1>10 DEF Add, Starts
  <2>2. list' = <<>> /\ (idx => UNCHANGED status) /\ (~ idx => status' = "USED")
    BY <1>10, <2>1, RefreshType DEF Add, Counts, Owned, Busy
  <2> QED
    BY <2>1, <2>2 DEF Owned, Busy
<1>11. ASSUME Del PROVE Owned'
  BY <1>11 DEF Del, Starts, Busy, Owned
<1>12. ASSUME AddDone PROVE Owned'
  BY <1>12 DEF AddDone, Owned, Alone
<1>13. ASSUME DelDone PROVE Owned'
  <2>1. list' = <<>>
    BY <1>13, RefreshType DEF DelDone, Counts
  <2> QED
    BY <1>13, <2>1 DEF DelDone, Owned
<1>14. CASE UNCHANGED vars
  BY <1>14 DEF vars, Owned
<1> QED
  BY <1>1, <1>2, <1>3, <1>4, <1>5, <1>6, <1>7, <1>8, <1>9, <1>10, <1>11, <1>12, <1>13, <1>14
     DEF Next, RxNext, TimerNext, MlmeNext, Frames

LEMMA NewestInv ==
    ASSUME Counts, Progress, Newest, ~ raced', [Next]_vars PROVE Newest'
<1>1. ASSUME NEW n \in Frames, Receive(n) PROVE Newest'
  <2>1. /\ front - BAWinSize < n /\ front' = IF n > front THEN n ELSE front
        /\ (rx.pc = "idle" /\ rx' = rx) \/ rx'.n = n
        /\ n \in Int /\ front \in Int /\ BAWinSize \in Nat \ {0}
    BY <1>1, Where, FramesAreTops, Sizes DEF Receive, Sendable
  <2> QED
    BY <2>1 DEF Newest
<1>2. ASSUME NEW n \in Frames, Bar(n) PROVE Newest'
  BY <1>2 DEF Bar, Newest
<1>3. ASSUME RxNext PROVE Newest'
  <2>1. rx'.pc \notin {"start", "begin"} \/ RxFirst
    <3>1. CASE RxUpTo
      BY <3>1, UpToGoesOn
    <3>2. CASE RxLeak \/ RxBegin \/ RxGoOn \/ RxInsert
      BY <3>2 DEF RxLeak, RxBegin, RxGoOn, RxInsert, Idle, Progress
    <3>6. CASE RxDirect
      BY <3>6 DEF RxDirect, Progress
    <3>7. CASE RxSettle
      BY <3>7 DEF RxSettle, Idle, Progress
    <3>3. CASE RxCheck
      BY <3>3, CheckGoesOn
    <3>4. CASE RxMark
      BY <3>4 DEF RxMark, Idle, Progress
    <3>5. CASE RxFollow
      BY <3>5 DEF RxFollow, Idle, Progress
    <3> QED
      BY <1>3, <3>1, <3>2, <3>3, <3>4, <3>5, <3>6, <3>7 DEF RxNext
  <2> QED
    BY <2>1 DEF RxFirst, Newest, Progress
<1>4. ASSUME TimerNext \/ Add \/ Del \/ MlmeNext PROVE Newest'
  BY <1>4 DEF TimerNext, TimerFire, TimerExec, TimerLook, TimerUpTo, TimerMark, TimerFollow,
     TimerRearm, Add, Del, MlmeNext, AddDone, DelDone, Newest
<1>5. CASE UNCHANGED vars
  BY <1>5 DEF vars, Newest
<1> QED
  BY <1>1, <1>2, <1>3, <1>4, <1>5 DEF Next, Frames

-----------------------------------------------------------------------------
(* Where everything is while a session is established.                     *)
LEMMA Bounds ==
    ASSUME Counts, Progress, Placed, status = "Established"
    PROVE  /\ \A i \in 1 .. Len(list) : /\ Edge < list[i] /\ Last < list[i]
                                        /\ list[i] <= Last + BAWinSize /\ list[i] <= front
           /\ top <= Passed /\ Near
<1>1. Last <= Edge /\ Edge \in Int /\ Last \in Int
  BY Where DEF Edge
<1> QED
  BY <1>1, Where DEF Placed, Inside

(* A frame or a block-ack request comes.                                   *)
LEMMA ComesInto ==
    ASSUME Counts, Progress, Placed, status = "Established", rx.pc = "idle", timer.pc = "idle",
           NEW n \in Frames, n \in Sendable, front' = (IF n > front THEN n ELSE front),
           LastIndSeq' = LastIndSeq
    PROVE  /\ front' \in Int /\ n \in Int /\ Last' = Last
           /\ Last - BAWinSize < n /\ n < Last + Half /\ n <= front' /\ front <= front'
           /\ front' <= Last + BAWinSize \/ front' = n
<1>1. n \in Int /\ Last \in Int /\ front \in Int /\ Last <= front
  BY Where, FramesAreTops
<1>2. front <= Last + BAWinSize
  BY Bounds DEF Near, Now
<1>3. front - BAWinSize < n /\ n <= front + Ahead
  BY DEF Sendable
<1>4. /\ front' \in Int /\ Last - BAWinSize < n /\ n < Last + Half /\ n <= front' /\ front <= front'
      /\ front' <= Last + BAWinSize \/ front' = n
  BY <1>1, <1>2, <1>3, Sizes
<1>5. Last <= front' /\ front' - Last < Seqs
  BY <1>1, <1>4, Sizes
<1>6. LastIndSeq' = SN(Last)
  BY Where
<1>7. Last' = Last
  BY <1>1, <1>4, <1>5, <1>6, Marked
<1> QED
  BY <1>1, <1>4, <1>7

LEMMA ReceivePlaced ==
    ASSUME Counts, Progress, Over, Steady, NEW n \in Frames, Receive(n), ~ raced, ~ raced'
    PROVE  Placed'
<1>1. CASE ~ idx
  BY <1>1 DEF Receive, session, Steady, Owned, Placed
<1>2. CASE idx /\ status = "Established"
  <2>1. timer.pc = "idle" /\ rx.pc = "idle" /\ UNCHANGED <<list, LastIndSeq, status, timer, top>>
        /\ rx' = [pc |-> "start", n |-> n, to |-> 0] /\ n \in Sendable
        /\ front' = IF n > front THEN n ELSE front
    BY <1>2 DEF Receive, session, passed, Starts, Busy
  <2>2. Now.pc = "idle" /\ Now'.pc = "start" /\ rx'.n = n /\ timer'.pc = "idle"
    BY <2>1 DEF Now
  <2>3. /\ front' \in Int /\ n \in Int /\ Last' = Last
        /\ Last - BAWinSize < n /\ n < Last + Half /\ n <= front' /\ front <= front'
        /\ front' <= Last + BAWinSize \/ front' = n
    BY <1>2, <2>1, ComesInto DEF Steady
  <2>4. Inside'
    <3>1. Edge = Last + 1 /\ Edge' = Last + 1 /\ Passed = Last /\ Passed' = Last
      BY <2>2, <2>3 DEF Edge, Passed, Marks, Settles, Follows
    <3>2. top <= Last
      BY <1>2, <3>1, Bounds DEF Steady
    <3>3. ASSUME NEW i \in 1 .. Len(list)
          PROVE  Last + 1 < list[i] /\ list[i] <= Last + BAWinSize /\ list[i] <= front'
      BY <1>2, <2>3, <3>1, Bounds, Where DEF Steady
    <3> QED
      BY <2>1, <2>3, <3>1, <3>2, <3>3 DEF Inside
  <2>5. Near'
    BY <2>2, <2>3 DEF Near, Settles
  <2> QED
    BY <2>4, <2>5 DEF Placed
<1>3. CASE status # "Established"
  BY <1>3 DEF Receive, session, Placed
<1> QED
  BY <1>1, <1>2, <1>3

LEMMA BarPlaced ==
    ASSUME Counts, Progress, Steady, NEW n \in Frames, Bar(n), ~ raced, ~ raced'
    PROVE  Placed'
<1>1. CASE status = "Established"
  <2>1. timer.pc = "idle" /\ rx.pc = "idle" /\ UNCHANGED <<list, LastIndSeq, status, timer, top>>
        /\ rx' = [pc |-> "upto", n |-> 0, to |-> SN(n)] /\ n \in Sendable
        /\ front' = (IF n > front THEN n ELSE front)
        /\ Smaller(LastIndSeq, SN(n + 1))
    BY DEF Bar, session, passed, Starts, Busy
  <2>2. Now.pc = "idle" /\ Now'.pc = "upto" /\ Now'.to = SN(n) /\ timer'.pc = "idle"
    <3> DEFINE s == SN(n)
    <3> HIDE DEF s
    <3>1. rx' = [pc |-> "upto", n |-> 0, to |-> s]
      BY <2>1 DEF s
    <3> QED
      BY <2>1, <3>1 DEF Now, s
  <2>3. /\ front' \in Int /\ n \in Int /\ Last' = Last
        /\ Last - BAWinSize < n /\ n < Last + Half /\ n <= front' /\ front <= front'
        /\ front' <= Last + BAWinSize \/ front' = n
    BY <1>1, <2>1, ComesInto DEF Steady
  <2>4. Last <= n
    <3>1. Last \in Int /\ n + 1 \in Int /\ -Half <= Last - (n + 1) /\ Last - (n + 1) < Half
      BY <2>3, Where, Sizes
    <3>2. Smaller(SN(Last), SN(n + 1))
      BY <2>1, Where
    <3>3. Last < n + 1
      BY <3>1, <3>2, SmallerMeans
    <3> QED
      BY <2>3, <3>1, <3>3
  <2>5. Target' = n
    <3>1. Last \in Int /\ n - Last < Seqs
      BY <2>3, Where, Sizes
    <3> QED
      BY <2>2, <2>3, <2>4, <3>1, Aimed
  <2>6. Inside'
    <3>1. Edge = Last + 1 /\ Edge' = Last + 1 /\ Passed = Last /\ Passed' = Last
      BY <2>2, <2>3 DEF Edge, Passed, Marks, Settles, Follows
    <3>2. top <= Last
      BY <1>1, <3>1, Bounds DEF Steady
    <3>3. ASSUME NEW i \in 1 .. Len(list)
          PROVE  Last + 1 < list[i] /\ list[i] <= Last + BAWinSize /\ list[i] <= front'
      BY <1>1, <2>3, <3>1, Bounds, Where DEF Steady
    <3> QED
      BY <2>1, <2>3, <3>1, <3>2, <3>3 DEF Inside
  <2>7. Near'
    BY <2>1, <2>2, <2>3, <2>5 DEF Near, Settles
  <2> QED
    BY <2>6, <2>7 DEF Placed
<1>2. CASE status # "Established"
  BY <1>2 DEF Bar, session, Placed
<1> QED
  BY <1>1, <1>2

(* A step that only looks leaves the frames where they are.                *)
LEMMA StaysInside ==
    ASSUME Counts, Progress, Placed, status = "Established",
           UNCHANGED <<front, LastIndSeq, list, top>>,
           Edge' = Edge, Passed' = Passed
    PROVE  Inside'
<1>1. Last' = Last
  BY Kept
<1> QED
  BY <1>1, Bounds DEF Inside

LEMMA RxBeginPlaced ==
    ASSUME Counts, Progress, Steady, RxBegin PROVE Placed'
<1>1. /\ rx.pc = "begin" /\ rx'.pc = "check" /\ rx'.n = rx.n /\ rx.n \in Frames /\ timer' = timer
      /\ list = <<>> /\ list' = list /\ front' = front /\ top' = -1
      /\ LastIndSeq' = Before(SN(rx.n)) /\ timer.pc = "idle"
  BY DEF RxBegin, Progress, Steady, Owned, Alone
<1> DEFINE n == rx.n
<1>2. n \in Int /\ 0 <= n /\ front - BAWinSize < n /\ n <= front /\ front \in Int
  <2>1. n \in Int /\ 0 <= n
    <3>1. n \in Frames /\ Frames \subseteq Nat
      BY <1>1, Sizes
    <3>2. n \in Nat
      BY <3>1
    <3> QED
      BY <3>2
  <2>2. front \in Int
    BY Where
  <2>3. front - BAWinSize < n /\ n <= front
    BY <1>1 DEF Steady, Newest
  <2> QED
    BY <2>1, <2>2, <2>3
<1>3. Now'.pc = "check" /\ rx'.n = n
  BY <1>1 DEF Now
<1> HIDE DEF n
<1>4. n - 1 \in Int /\ n - 1 <= front /\ front - (n - 1) < Seqs /\ front <= (n - 1) + BAWinSize
  BY <1>2, Sizes
<1>5. LastIndSeq' = SN(n - 1)
  <2>1. SN(SN(n) + (-1)) = SN(n + (-1))
    BY <1>2, Shift
  <2>2. SN(n) \in Int
    BY <1>2, Quotient
  <2>3. SN(n) + (-1) = SN(n) - 1 /\ n + (-1) = n - 1
    BY <1>2, <2>2
  <2>4. SN(SN(n) - 1) = SN(n - 1)
    BY <2>1, <2>3
  <2> QED
    BY <1>1, <2>4 DEF Before, SN, n
<1>6. Last' = n - 1
  BY <1>1, <1>2, <1>4, <1>5, Marked
<1>7. Passed' = n - 1
  BY <1>3, <1>6 DEF Passed, Marks, Settles
<1>8. Inside'
  <2>1. Len(list') = 0
    BY <1>1, EmptySeq
  <2>2. top' <= Passed'
    BY <1>1, <1>2, <1>7
  <2> QED
    BY <2>1, <2>2 DEF Inside
<1>9. Near'
  <2>1. (n - 1) - BAWinSize < n /\ n < (n - 1) + Half
    BY <1>2, Sizes
  <2> QED
    BY <1>1, <1>2, <1>3, <1>4, <1>6, <2>1 DEF Near, Settles
<1> QED
  BY <1>8, <1>9 DEF Placed

LEMMA RxGoOnPlaced ==
    ASSUME Counts, Progress, Steady, RxGoOn PROVE Placed'
<1>1. /\ rx.pc = "start" /\ rx'.pc = "check" /\ rx'.n = rx.n /\ timer' = timer /\ timer.pc = "idle"
      /\ UNCHANGED <<list, LastIndSeq, front, top>> /\ status = "Established"
  BY DEF RxGoOn, Progress, Steady, Alone, session, passed
<1>2. Now.pc = "start" /\ Now'.pc = "check"
  BY <1>1 DEF Now
<1>3. Last' = Last
  BY <1>1, Kept
<1>4. Edge' = Edge /\ Passed' = Passed
  BY <1>2, <1>3 DEF Edge, Passed, Marks, Settles, Follows
<1>5. Inside'
  BY <1>1, <1>4, StaysInside DEF Steady
<1>6. Near
  BY <1>1, Bounds DEF Steady
<1>7. Near'
  BY <1>1, <1>2, <1>3, <1>6 DEF Near, Settles
<1> QED
  BY <1>5, <1>7 DEF Placed

(* A frame that does not wait.                                             *)
LEMMA RxDirectPlaced ==
    ASSUME Counts, Progress, Steady, RxDirect PROVE Placed'
<1>1. /\ rx.pc = "enqueue" /\ rx'.pc = "uptoPass" /\ rx'.n = rx.n /\ rx'.to = SN(rx.n)
      /\ timer' = timer /\ timer.pc = "idle"
      /\ UNCHANGED <<list, LastIndSeq, front, top>> /\ status = "Established"
  BY DEF RxDirect, Progress, Steady, Alone, Owned, session, passed
<1> DEFINE n == rx.n
<1>2. Now.pc = "enqueue" /\ Now'.pc = "uptoPass" /\ Now'.to = SN(n)
  BY <1>1 DEF Now
<1>3. Last' = Last
  BY <1>1, Kept
<1>4. Edge' = Edge /\ Passed' = Passed
  BY <1>2, <1>3 DEF Edge, Passed, Marks, Settles, Follows
<1>5. Inside'
  BY <1>1, <1>4, StaysInside DEF Steady
<1>6. Last + 1 < n /\ n <= Last + BAWinSize /\ n <= front /\ front <= Last + BAWinSize
  BY <1>1, <1>2, Bounds DEF Steady, Near
<1>7. n \in Int /\ Last \in Int
  BY <1>1, FramesAreTops, Where DEF Progress
<1> HIDE DEF n
<1>8. Last <= n /\ n - Last < Seqs
  BY <1>6, <1>7, Sizes
<1>9. Target' = n
  BY <1>2, <1>3, <1>7, <1>8, Aimed
<1>10. rx'.n = n
  BY <1>1 DEF n
<1>11. Near'
  BY <1>1, <1>2, <1>3, <1>6, <1>9, <1>10 DEF Near, Settles
<1> QED
  BY <1>5, <1>11 DEF Placed

(* ba_reorder()'s five cases.                                              *)
LEMMA RxCheckPlaced ==
    ASSUME Counts, Progress, Steady, RxCheck, ~ raced PROVE Placed' /\ Ranked'
<1>1. /\ rx.pc = "check" /\ timer' = timer /\ timer.pc = "idle" /\ rx.n \in Frames
      /\ UNCHANGED <<list, LastIndSeq, front, status>> /\ status = "Established"
  BY DEF RxCheck, Progress, Steady, Alone, Owned, session
<1> DEFINE n == rx.n
           s == SN(n)
<1>2. Now.pc = "check" /\ (rx'.pc # "idle" => Now' = rx') /\ (rx'.pc = "idle" => Now'.pc = "idle")
  BY <1>1 DEF Now
<1>3. Last' = Last
  BY <1>1, Kept
<1>4. n \in Int /\ Last \in Int /\ front \in Int /\ top \in Int
  BY <1>1, FramesAreTops, Where
<1>5. /\ Last - BAWinSize < n /\ n < Last + Half /\ n <= front
      /\ front <= Last + BAWinSize \/ front = n
  BY <1>1, <1>2, Bounds DEF Steady, Near
<1>6. Edge = Last + 1 /\ Passed = Last
  BY <1>2 DEF Edge, Passed, Marks, Settles, Follows
<1>7. top <= Last
  BY <1>1, <1>6, Bounds DEF Steady
<1>8. /\ SN(Last) = LastIndSeq
      /\ StepOne(s, LastIndSeq) <=> n = Last + 1
      /\ Old(s) <=> n <= Last
  <2>1. /\ n - Last < Seqs /\ Last - n < Seqs - 1 /\ Last - n < Seqs
        /\ -Half <= n - Last /\ n - Last < Half
    BY <1>4, <1>5, Sizes
  <2>2. SN(Last) = LastIndSeq
    BY Where
  <2>3. StepOne(SN(n), SN(Last)) <=> n = Last + 1
    BY <1>4, <2>1, StepOneMeans
  <2>4. Smaller(SN(n), SN(Last)) <=> n < Last
    BY <1>4, <2>1, SmallerMeans
  <2>5. SN(n) = SN(Last) <=> n = Last
    BY <1>4, <2>1, SameMeans
  <2> QED
    BY <1>4, <2>2, <2>3, <2>4, <2>5 DEF Old
<1>9. n > Last => (Within(s) <=> n <= Last + BAWinSize)
  <2>1. Last + BAWinSize + 1 \in Int /\ BAWinSize + 1 \in Int
    BY <1>4, Sizes
  <2>2. n > Last => -Half <= n - (Last + BAWinSize + 1) /\ n - (Last + BAWinSize + 1) < Half
    BY <1>4, <1>5, Sizes
  <2>3. n > Last => (Smaller(SN(n), SN(Last + BAWinSize + 1)) <=> n < Last + BAWinSize + 1)
    BY <1>4, <2>1, <2>2, SmallerMeans
  <2>4. (LastIndSeq + BAWinSize + 1) % Seqs = SN(Last + BAWinSize + 1)
    <3>1. SN(SN(Last) + (BAWinSize + 1)) = SN(Last + (BAWinSize + 1))
      BY <1>4, <2>1, Shift
    <3>2. SN(Last) \in Int
      BY <1>4, Quotient
    <3>3. /\ SN(Last) + (BAWinSize + 1) = SN(Last) + BAWinSize + 1
          /\ Last + (BAWinSize + 1) = Last + BAWinSize + 1
      BY <1>4, <3>2, Sizes
    <3>4. SN(SN(Last) + BAWinSize + 1) = SN(Last + BAWinSize + 1)
      BY <3>1, <3>3
    <3> QED
      BY <1>8, <3>4 DEF SN
  <2>5. Within(s) <=> Smaller(SN(n), SN(Last + BAWinSize + 1))
    BY <2>4 DEF Within
  <2> QED
    BY <1>4, <2>3, <2>5, Sizes
<1>10. ASSUME UNCHANGED passed PROVE Ranked' /\ top' = top
  BY <1>1, <1>10 DEF Steady, Ranked, passed
<1>11. ASSUME rx'.pc # "mark", UNCHANGED passed PROVE Edge' = Edge /\ Passed' = Passed
  <2>1. rx'.pc \in {"idle", "enqueue", "uptoCheck"}
    BY <1>11, CheckGoesOn
  <2>2. Now'.pc \in {"idle", "enqueue", "uptoCheck"}
    BY <1>2, <2>1
  <2> QED
    BY <1>3, <1>6, <2>2 DEF Edge, Passed, Marks, Settles, Follows
<1>12. CASE StepOne(s, LastIndSeq)
  <2>1. PassUp(<<n>>) /\ rx'.pc = "mark" /\ rx'.to = s
    BY <1>12, CheckGoesOn
  <2>2. Now'.pc = "mark" /\ Now'.to = s
    BY <1>2, <2>1
  <2>3. n = Last + 1 /\ n - Last < Seqs /\ Last <= n
    BY <1>4, <1>8, <1>12, Sizes
  <2>4. Target' = n
    BY <1>3, <1>4, <2>2, <2>3, Aimed
  <2>5. top' = n /\ ordered' = ordered
    <3> HIDE DEF n
    <3>1. Len(<<n>>) = 1 /\ <<n>>[1] = n /\ <<n>> # <<>>
      OBVIOUS
    <3>2. n > top
      BY <1>4, <1>7, <2>3
    <3>3. top' = n
      BY <2>1, <3>1 DEF PassUp
    <3>4. ordered' = ordered
      <4>1. \A i \in 1 .. Len(<<n>>) : <<n>>[i] > IF i = 1 THEN top ELSE <<n>>[i - 1]
        BY <3>1, <3>2
      <4>2. ordered' = (ordered /\ TRUE)
        BY <2>1, <4>1 DEF PassUp
      <4> QED
        BY <4>2 DEF Counts
    <3> QED
      BY <3>3, <3>4
  <2>6. \A i \in 1 .. Len(list) : n < list[i]
    BY <1>1, <1>4, <1>6, <2>3, Bounds, Where DEF Steady
  <2>7. Ranked'
    BY <1>1, <2>5, <2>6 DEF Steady, Ranked
  <2>8. Edge' = n /\ Passed' = n
    BY <2>2, <2>4 DEF Edge, Passed, Marks
  <2>9. Inside'
    BY <1>1, <1>3, <1>4, <2>5, <2>6, <2>8, Bounds DEF Inside, Steady
  <2>10. Near'
    <3>1. n < Last + Half
      BY <1>5
    <3> HIDE DEF n
    <3> QED
      BY <1>1, <1>3, <1>5, <2>2, <2>4, <3>1 DEF Near, Settles
  <2> QED
    BY <2>7, <2>9, <2>10 DEF Placed
<1>13. CASE ~ StepOne(s, LastIndSeq) /\ Old(s)
  <2>1. UNCHANGED passed /\ rx'.pc = "idle"
    BY <1>13, CheckGoesOn
  <2>2. Inside' /\ Ranked'
    BY <1>1, <1>10, <1>11, <2>1, StaysInside DEF Steady
  <2>3. front <= Last + BAWinSize
    BY <1>4, <1>5, <1>8, <1>13, Sizes
  <2>4. Now'.pc = "idle"
    BY <1>2, <2>1
  <2>5. Near'
    BY <1>1, <1>3, <2>3, <2>4 DEF Near, Settles
  <2> QED
    BY <2>2, <2>5 DEF Placed
<1>14. CASE ~ StepOne(s, LastIndSeq) /\ ~ Old(s) /\ Within(s)
  <2>1. UNCHANGED passed /\ rx'.pc = "enqueue" /\ rx'.n = n
    BY <1>14, CheckGoesOn
  <2>2. Inside' /\ Ranked'
    BY <1>1, <1>10, <1>11, <2>1, StaysInside DEF Steady
  <2>3. front <= Last + BAWinSize /\ Last + 1 < n /\ n <= Last + BAWinSize
    BY <1>4, <1>5, <1>8, <1>9, <1>14, Sizes
  <2>4. Now'.pc = "enqueue"
    BY <1>2, <2>1
  <2> HIDE DEF n
  <2>5. Near'
    BY <1>1, <1>3, <1>5, <2>1, <2>3, <2>4 DEF Near, Settles
  <2> QED
    BY <2>2, <2>5 DEF Placed
<1>15. CASE ~ StepOne(s, LastIndSeq) /\ ~ Old(s) /\ ~ Within(s)
  <2> DEFINE t == n - BAWinSize
  <2>1. UNCHANGED passed /\ rx'.pc = "uptoCheck" /\ rx'.n = n /\ rx'.to = (s - BAWinSize) % Seqs
    BY <1>15, CheckGoesOn
  <2>2. Inside' /\ Ranked'
    BY <1>1, <1>10, <1>11, <2>1, StaysInside DEF Steady
  <2>3. front = n /\ Last < t /\ t - Last < Seqs /\ t \in Int
    BY <1>4, <1>5, <1>8, <1>9, <1>15, Sizes
  <2>4. rx'.to = SN(t)
    <3>1. 0 - BAWinSize \in Int
      BY Sizes
    <3>2. SN(SN(n) + (0 - BAWinSize)) = SN(n + (0 - BAWinSize))
      BY <1>4, <3>1, Shift
    <3>3. SN(n) \in Int
      BY <1>4, Quotient
    <3>4. SN(n) + (0 - BAWinSize) = SN(n) - BAWinSize /\ n + (0 - BAWinSize) = t
      BY <1>4, <3>3, Sizes
    <3>5. SN(s - BAWinSize) = SN(t)
      BY <3>2, <3>4
    <3> QED
      BY <2>1, <3>5 DEF SN
  <2>5. Now'.pc = "uptoCheck" /\ Now'.to = SN(t)
    BY <1>2, <2>1, <2>4
  <2>6. Target' = t
    BY <1>3, <1>4, <2>3, <2>5, Aimed
  <2> HIDE DEF n
  <2>7. Near'
    BY <1>1, <1>3, <1>5, <2>1, <2>3, <2>5, <2>6 DEF Near, Settles
  <2> QED
    BY <2>2, <2>7 DEF Placed
<1> QED
  BY <1>12, <1>13, <1>14, <1>15

(* What ba_indicate_reordering_mpdus_le_seq() passes up, and what it leaves.*)
LEMMA UpToMeans ==
    ASSUME Counts, Progress, Steady, status = "Established",
           Now.pc \in {"upto", "uptoPass", "uptoCheck"}
    PROVE  /\ UpTo(Now.to) \in 0 .. Len(list)
           /\ \A i \in 1 .. UpTo(Now.to) : list[i] <= Target
           /\ \A i \in UpTo(Now.to) + 1 .. Len(list) : Target < list[i]
<1> DEFINE good == {i \in 1 .. Len(list) : SN(list[i]) = Now.to \/ Smaller(SN(list[i]), Now.to)}
           k == UpTo(Now.to)
<1>1. k = Leading(good) /\ list \in Seq(Frames)
  BY DEF UpTo, Counts
<1>2. /\ Last \in Int /\ Target \in Int /\ Last <= Target /\ Target < Last + Half
      /\ SN(Target) = Now.to /\ Len(list) \in Nat
  BY Where, Bounds, Sizes DEF Steady, Near
<1>3. ASSUME NEW i \in 1 .. Len(list) PROVE i \in good <=> list[i] <= Target
  <2>1. list[i] \in Int /\ Last < list[i] /\ list[i] <= Last + BAWinSize
    BY Where, Bounds DEF Steady
  <2> DEFINE x == list[i]
  <2>2. i \in good <=> SN(x) = SN(Target) \/ Smaller(SN(x), SN(Target))
    BY <1>2
  <2> HIDE DEF good, x
  <2>3. x \in Int /\ Last < x /\ x <= Last + BAWinSize
    BY <2>1 DEF x
  <2>4. /\ -Half <= x - Target /\ x - Target < Half /\ x - Target < Seqs /\ Target - x < Seqs
    BY <1>2, <2>3, Sizes
  <2>5. Smaller(SN(x), SN(Target)) <=> x < Target
    BY <1>2, <2>3, <2>4, SmallerMeans
  <2>6. SN(x) = SN(Target) <=> x = Target
    BY <1>2, <2>3, <2>4, SameMeans
  <2>7. i \in good <=> x <= Target
    BY <1>2, <2>2, <2>3, <2>5, <2>6
  <2> QED
    BY <2>7 DEF x
<1>4. good \in SUBSET (1 .. Len(list))
  OBVIOUS
<1> HIDE DEF good, k
<1>5. /\ k \in 0 .. Len(list) /\ 1 .. k \subseteq good
      /\ k < Len(list) => k + 1 \notin good
  BY <1>1, <1>4, LeadingIs
<1>6. \A i \in 1 .. k : list[i] <= Target
  BY <1>2, <1>3, <1>5
<1>7. ASSUME NEW i \in k + 1 .. Len(list) PROVE Target < list[i]
  <2>1. k + 1 \in 1 .. Len(list) /\ i \in 1 .. Len(list) /\ k + 1 <= i
    BY <1>2, <1>5
  <2>2. list[k + 1] \in Int /\ list[i] \in Int /\ Target < list[k + 1]
    BY <1>2, <1>3, <1>5, <2>1, Where
  <2>3. list[k + 1] <= list[i]
    BY <1>2, <2>1, <2>2 DEF Steady, Ranked
  <2> QED
    BY <1>2, <2>2, <2>3
<1> QED
  BY <1>5, <1>6, <1>7 DEF k

(* The receive path and the flush timer do it alike.                       *)
LEMMA UpToPlaced ==
    ASSUME Counts, Progress, Steady, ~ raced, status = "Established",
           Now.pc \in {"upto", "uptoPass", "uptoCheck"}, Take(UpTo(Now.to)),
           UNCHANGED <<front, LastIndSeq>>, Now'.pc \in Marks, Now'.to = Now.to
    PROVE  Inside' /\ Last' = Last /\ Target' = Target
<1> DEFINE k == UpTo(Now.to)
<1>1. /\ k \in 0 .. Len(list)
      /\ \A i \in 1 .. k : list[i] <= Target
      /\ \A i \in k + 1 .. Len(list) : Target < list[i]
  BY UpToMeans
<1>2. Last' = Last /\ Target' = Target
  BY Kept
<1>3. Edge' = Target /\ Passed' = Target
  BY <1>2 DEF Edge, Passed
<1>4. Passed = Last
  BY DEF Passed, Marks, Settles
<1>5. top <= Last /\ Last <= Target /\ Last \in Int /\ Target \in Int /\ top \in Int
  BY <1>4, Bounds, Where DEF Steady
<1>6. /\ Len(list') = Len(list) - k /\ \A i \in 1 .. Len(list') : list'[i] = list[k + i]
      /\ top' = IF k = 0 THEN top ELSE list[k]
  BY <1>1, TakeKeepsOrder DEF Steady
<1> HIDE DEF k
<1>7. top' <= Target
  BY <1>1, <1>5, <1>6, Where
<1>8. ASSUME NEW i \in 1 .. Len(list')
      PROVE  Target < list'[i] /\ list'[i] <= Last + BAWinSize /\ list'[i] <= front
  <2>1. k + i \in k + 1 .. Len(list) /\ k + i \in 1 .. Len(list)
    BY <1>1, <1>6, Where
  <2>2. list[k + i] <= Last + BAWinSize /\ list[k + i] <= front
    BY <2>1, Bounds DEF Steady
  <2> QED
    BY <1>1, <1>6, <2>1, <2>2
<1> QED
  BY <1>2, <1>3, <1>7, <1>8 DEF Inside

LEMMA RxUpToPlaced ==
    ASSUME Counts, Progress, Steady, RxUpTo, ~ raced PROVE Placed' /\ Ranked'
<1>1. /\ \/ rx.pc = "upto" /\ rx'.pc = "mark"
         \/ rx.pc = "uptoPass" /\ rx'.pc = "markPass"
         \/ rx.pc = "uptoCheck" /\ rx'.pc = "markCheck"
      /\ rx'.n = rx.n /\ rx'.to = rx.to
  BY UpToGoesOn
<1>2. /\ timer.pc = "idle" /\ timer' = timer /\ Take(UpTo(rx.to)) /\ rx.pc # "idle"
      /\ UNCHANGED <<front, LastIndSeq, status>>
  BY <1>1 DEF RxUpTo, Steady, Alone
<1>3. Now = rx /\ Now' = rx'
  BY <1>2 DEF Now
<1>4. Ranked'
  BY <1>2, LeadingPart, TakeKeepsOrder DEF UpTo, Counts, Steady
<1>5. CASE status = "Established"
  <2>1. Inside' /\ Last' = Last /\ Target' = Target
    BY <1>1, <1>2, <1>3, <1>5, UpToPlaced DEF Marks
  <2>2. Near
    BY <1>5, Bounds DEF Steady
  <2>3. Near'
    BY <1>1, <1>2, <1>3, <2>1, <2>2 DEF Near, Settles
  <2> QED
    BY <1>4, <2>1, <2>3 DEF Placed
<1>6. CASE status # "Established"
  BY <1>2, <1>4, <1>6 DEF Placed
<1> QED
  BY <1>4, <1>5, <1>6

LEMMA TimerUpToPlaced ==
    ASSUME Counts, Progress, Steady, TimerUpTo, ~ raced PROVE Placed' /\ Ranked'
<1>1. /\ timer.pc = "upto" /\ timer'.pc = "mark" /\ timer'.to = timer.to /\ Take(UpTo(timer.to))
      /\ UNCHANGED <<front, LastIndSeq, status, rx>>
  BY DEF TimerUpTo, Progress
<1>2. Now = timer /\ Now' = timer'
  BY <1>1 DEF Now
<1>3. Ranked'
  BY <1>1, LeadingPart, TakeKeepsOrder DEF UpTo, Counts, Steady
<1>4. CASE status = "Established"
  <2>1. Inside' /\ Last' = Last /\ Target' = Target
    BY <1>1, <1>2, <1>4, UpToPlaced DEF Marks
  <2>2. Near
    BY <1>4, Bounds DEF Steady
  <2>3. Near'
    BY <1>1, <1>2, <2>1, <2>2 DEF Near, Settles
  <2> QED
    BY <1>3, <2>1, <2>3 DEF Placed
<1>5. CASE status # "Established"
  BY <1>1, <1>3, <1>5 DEF Placed
<1> QED
  BY <1>3, <1>4, <1>5

(* LastIndSeq is set to the number in hand.                                *)
LEMMA MarkMoves ==
    ASSUME Counts, Progress, Steady, status = "Established",
           Now.pc \in Marks \cup Settles, LastIndSeq' = Now.to, front' = front
    PROVE  /\ Last' = Target /\ Target \in Int /\ Last \in Int /\ front \in Int /\ top \in Int
           /\ Last <= Target /\ Target <= front /\ top <= Target
           /\ front <= Target + BAWinSize \/ (Now.pc = "markCheck" /\ front = rx.n)
           /\ \A i \in 1 .. Len(list) : /\ list[i] \in Int /\ Target < list[i]
                                        /\ list[i] <= Target + BAWinSize /\ list[i] <= front
           /\ Now.pc \in Settles => \A i \in 1 .. Len(list) : Target + 1 < list[i]
<1>1. /\ Last \in Int /\ Target \in Int /\ front \in Int /\ top \in Int /\ Last <= Target
      /\ Target - Last < Seqs /\ SN(Target) = Now.to /\ front - Last < Seqs
  BY Where
<1>2. /\ Now.pc \in Marks => Edge = Target
      /\ Now.pc \in Settles => Edge = Target + 1
      /\ Passed = Target
  BY DEF Edge, Passed, Marks, Settles
<1>3. Near
  BY Bounds DEF Steady
<1>4. Target <= front
  <2>1. CASE Now.pc \in {"mark"} \cup Settles
    BY <1>3, <2>1 DEF Near, Settles
  <2>2. CASE Now.pc = "markPass"
    BY <1>3, <2>2 DEF Near
  <2>3. CASE Now.pc = "markCheck"
    BY <1>1, <1>3, <2>3, Sizes DEF Near
  <2> QED
    BY <2>1, <2>2, <2>3 DEF Marks
<1>5. front <= Target + BAWinSize \/ (Now.pc = "markCheck" /\ front = rx.n)
  <2>1. CASE Now.pc \in {"mark", "markPass"} \cup Settles
    <3>1. front <= Last + BAWinSize \/ front = Target
      BY <1>3, <2>1 DEF Near, Settles
    <3> QED
      BY <1>1, <3>1, Sizes
  <2>2. CASE Now.pc = "markCheck"
    BY <1>3, <2>2 DEF Near
  <2> QED
    BY <2>1, <2>2 DEF Marks
<1>6. Last' = Target
  <2>1. front' \in Int /\ Target <= front' /\ front' - Target < Seqs /\ LastIndSeq' = SN(Target)
    BY <1>1, <1>4, Sizes
  <2> QED
    BY <1>1, <2>1, Marked
<1>7. ASSUME NEW i \in 1 .. Len(list)
      PROVE  /\ list[i] \in Int /\ Target < list[i] /\ list[i] <= Target + BAWinSize
             /\ list[i] <= front /\ (Now.pc \in Settles => Target + 1 < list[i])
  <2>1. list[i] \in Int /\ Edge < list[i] /\ list[i] <= Last + BAWinSize /\ list[i] <= front
    BY Bounds, Where DEF Steady
  <2>2. Target < list[i]
    BY <1>1, <1>2, <2>1
  <2> QED
    BY <1>1, <1>2, <2>1, <2>2, Sizes
<1>8. top <= Target
  BY <1>2, Bounds DEF Steady
<1> QED
  BY <1>1, <1>4, <1>5, <1>6, <1>7, <1>8

LEMMA RxMarkRanked ==
    ASSUME Counts, Progress, Steady, RxMark, ~ raced
    PROVE  /\ Ranked' /\ list' = list
           /\ top' = top \/ (rx.pc = "markPass" /\ top' = rx.n /\ status = "Established")
<1>1. timer.pc = "idle" /\ Now = rx /\ rx.pc \in Marks /\ list' = list
  BY DEF RxMark, Steady, Alone, Now, Marks
<1>2. CASE rx.pc = "markPass"
  <2> DEFINE n == rx.n
  <2>1. status = "Established" /\ n \in Int /\ top \in Int /\ Target \in Int
    BY <1>2, FramesAreTops, Where DEF Steady, Owned, Progress
  <2>2. Target = n
    BY <1>1, <1>2, <2>1, Bounds DEF Steady, Near
  <2>3. Edge = n /\ Passed = n
    BY <1>1, <1>2, <2>2 DEF Edge, Passed, Marks
  <2>4. top <= n /\ (again \/ n # top)
    BY <1>2, <2>1, <2>3, Bounds DEF Steady, Fresh
  <2>5. \A i \in 1 .. Len(list) : n < list[i]
    BY <2>1, <2>3, Bounds DEF Steady
  <2>6. top' = n /\ (ordered /\ (n > top \/ (again /\ n = top)) => ordered')
    BY <1>2 DEF RxMark, PassUpDirect
  <2> HIDE DEF n
  <2>7. ordered'
    BY <2>1, <2>4, <2>6 DEF Steady, Ranked
  <2>8. Ranked'
    BY <1>1, <2>5, <2>6, <2>7 DEF Steady, Ranked
  <2> QED
    BY <1>1, <1>2, <2>1, <2>6, <2>8 DEF n
<1>3. CASE rx.pc # "markPass"
  <2>1. top' = top /\ ordered' = ordered
    BY <1>3 DEF RxMark, passed
  <2> QED
    BY <1>1, <2>1 DEF Steady, Ranked
<1> QED
  BY <1>2, <1>3

LEMMA RxMarkPlaced ==
    ASSUME Counts, Progress, Steady, RxMark, ~ raced PROVE Placed' /\ Ranked'
<1>1. /\ timer.pc = "idle" /\ timer' = timer /\ Now = rx /\ Now' = rx' /\ rx.pc \in Marks
      /\ LastIndSeq' = Now.to /\ UNCHANGED <<front, status>>
  <2>1. rx.pc # "idle" /\ timer' = timer
    BY DEF RxMark
  <2>2. timer.pc = "idle"
    BY <2>1 DEF Steady, Alone
  <2> QED
    BY <2>1, <2>2 DEF RxMark, Now, Marks
<1>2. /\ Ranked' /\ list' = list
      /\ top' = top \/ (rx.pc = "markPass" /\ top' = rx.n /\ status = "Established")
  BY RxMarkRanked
<1>3. CASE status = "Established"
  <2>1. /\ Last' = Target /\ Target \in Int /\ Target <= front /\ top <= Target
        /\ front <= Target + BAWinSize \/ (rx.pc = "markCheck" /\ front = rx.n)
        /\ \A i \in 1 .. Len(list) : /\ list[i] \in Int /\ Target < list[i]
                                     /\ list[i] <= Target + BAWinSize /\ list[i] <= front
    BY <1>1, <1>3, MarkMoves
  <2>2. \/ rx.pc = "markCheck" /\ rx'.pc = "followCheck" /\ rx'.n = rx.n
        \/ rx.pc # "markCheck" /\ rx'.pc = "follow"
    BY DEF RxMark, Progress, Idle
  <2>3. Near
    BY <1>3, Bounds DEF Steady
  <2>4. top' <= Target
    <3>1. rx.pc = "markPass" => Target = rx.n
      BY <1>1, <2>3 DEF Near
    <3> QED
      BY <1>2, <2>1, <3>1
  <2>5. Edge' = Target /\ Passed' = Target
    BY <1>1, <2>1, <2>2 DEF Edge, Passed, Marks, Settles, Follows
  <2>6. Inside'
    BY <1>1, <1>2, <2>1, <2>4, <2>5 DEF Inside
  <2>7. rx.pc = "markCheck" => rx.n = Target + BAWinSize /\ front = rx.n
    <3>1. rx.pc = "markCheck" => Target = rx.n - BAWinSize /\ front = rx.n
      BY <1>1, <2>3 DEF Near
    <3>2. rx.pc = "markCheck" => rx.n \in Int
      BY FramesAreTops DEF Progress
    <3> QED
      BY <3>1, <3>2, Sizes
  <2>8. front <= Target + BAWinSize
    BY <2>1, <2>7, Sizes
  <2>9. Near'
    BY <1>1, <2>1, <2>2, <2>7, <2>8 DEF Near, Settles
  <2> QED
    BY <1>2, <2>6, <2>9 DEF Placed
<1>4. CASE status # "Established"
  BY <1>1, <1>2, <1>4 DEF Placed
<1> QED
  BY <1>3, <1>4

LEMMA RxSettlePlaced ==
    ASSUME Counts, Progress, Steady, RxSettle, ~ raced PROVE Placed' /\ Ranked'
<1>1. /\ timer.pc = "idle" /\ timer' = timer /\ Now = rx /\ rx.pc \in Settles
      /\ LastIndSeq' = Now.to /\ UNCHANGED <<front, status, list, top, ordered>>
  <2>1. rx.pc # "idle" /\ timer' = timer
    BY DEF RxSettle
  <2>2. timer.pc = "idle"
    BY <2>1 DEF Steady, Alone
  <2> QED
    BY <2>1, <2>2 DEF RxSettle, Now, Settles, passed
<1>2. Ranked'
  BY <1>1 DEF Steady, Ranked
<1>3. CASE status = "Established"
  <2>1. /\ Last' = Target /\ Target \in Int /\ top <= Target /\ front \in Int
        /\ front <= Target + BAWinSize
        /\ \A i \in 1 .. Len(list) : /\ list[i] \in Int /\ Target + 1 < list[i]
                                     /\ list[i] <= Target + BAWinSize /\ list[i] <= front
    BY <1>1, <1>3, MarkMoves DEF Settles
  <2>2. \/ rx.pc = "settleCheck" /\ rx'.pc = "check" /\ rx'.n = rx.n
        \/ rx.pc = "settle" /\ rx'.pc = "idle"
    BY DEF RxSettle, Progress, Idle
  <2>3. Now'.pc = rx'.pc
    BY <1>1 DEF Now
  <2>4. Near
    BY <1>3, Bounds DEF Steady
  <2>5. Edge' = Target + 1 /\ Passed' = Target
    BY <2>1, <2>2, <2>3 DEF Edge, Passed, Marks, Settles, Follows
  <2>6. Inside'
    BY <1>1, <2>1, <2>5 DEF Inside
  <2>7. rx.pc = "settleCheck" =>
            Target - BAWinSize < rx.n /\ rx.n < Target + Half /\ rx.n <= front
    <3>1. rx.pc = "settleCheck" =>
              /\ rx.n = Last + BAWinSize /\ front = rx.n /\ Last < Target
              /\ Target <= Last + BAWinSize
      BY <1>1, <2>4 DEF Near, Settles
    <3>2. Last \in Int
      BY Where
    <3> QED
      BY <2>1, <3>1, <3>2, Sizes
  <2>8. Near'
    BY <1>1, <2>1, <2>2, <2>3, <2>7 DEF Near, Settles
  <2> QED
    BY <1>2, <2>6, <2>8 DEF Placed
<1>4. CASE status # "Established"
  BY <1>1, <1>2, <1>4 DEF Placed
<1> QED
  BY <1>3, <1>4

LEMMA TimerMarkPlaced ==
    ASSUME Counts, Progress, Steady, TimerMark, ~ raced PROVE Placed' /\ Ranked'
<1>1. /\ timer.pc \in {"mark", "settle"} /\ Now = timer /\ Now' = timer'
      /\ LastIndSeq' = timer.to /\ UNCHANGED <<front, status, list, top, ordered, rx>>
      /\ \/ timer.pc = "mark" /\ timer'.pc = "follow" /\ timer'.to = timer.to
         \/ timer.pc = "settle" /\ timer'.pc = "look"
  <2>1. \/ timer.pc = "mark" /\ timer'.pc = "follow" /\ timer'.to = timer.to
        \/ timer.pc = "settle" /\ timer'.pc = "look"
    BY DEF TimerMark, Progress, Idle
  <2> QED
    BY <2>1 DEF TimerMark, Now, passed
<1>2. Ranked'
  BY <1>1 DEF Steady, Ranked
<1>3. CASE status = "Established"
  <2>1. /\ Last' = Target /\ Target \in Int /\ top <= Target /\ front \in Int
        /\ front <= Target + BAWinSize
        /\ \A i \in 1 .. Len(list) : /\ list[i] \in Int /\ Target < list[i]
                                     /\ list[i] <= Target + BAWinSize /\ list[i] <= front
        /\ timer.pc = "settle" => \A i \in 1 .. Len(list) : Target + 1 < list[i]
    BY <1>1, <1>3, MarkMoves DEF Marks, Settles
  <2>2. /\ timer.pc = "mark" => Edge' = Target
        /\ timer.pc = "settle" => Edge' = Target + 1
        /\ Passed' = Target
    BY <1>1, <2>1 DEF Edge, Passed, Marks, Settles, Follows
  <2>3. Inside'
    BY <1>1, <2>1, <2>2 DEF Inside
  <2>4. Near'
    BY <1>1, <2>1 DEF Near, Settles
  <2> QED
    BY <1>2, <2>3, <2>4 DEF Placed
<1>4. CASE status # "Established"
  BY <1>1, <1>2, <1>4 DEF Placed
<1> QED
  BY <1>3, <1>4

(* What ba_indicate_reordering_mpdus_in_order() passes up, and what it     *)
(* leaves.                                                                 *)
LEMMA AfterMeans ==
    ASSUME Counts, Progress, Steady, status = "Established", Now.pc \in Follows
    PROVE  /\ After(LastIndSeq) \in 0 .. Len(list)
           /\ \A i \in 1 .. After(LastIndSeq) : list[i] = Last + i
           /\ \A i \in After(LastIndSeq) + 1 .. Len(list) : Last + After(LastIndSeq) + 1 < list[i]
<1> DEFINE good == {i \in 1 .. Len(list) : SN(list[i]) = (LastIndSeq + i) % Seqs}
           k == After(LastIndSeq)
<1>1. k = Leading(good) /\ list \in Seq(Frames)
  BY DEF After, Counts
<1>2. /\ Last \in Int /\ SN(Last) = LastIndSeq /\ Len(list) \in Nat /\ Len(list) < BAWinSize
      /\ \A i \in 1 .. Len(list) : Last < list[i] /\ list[i] <= Last + BAWinSize /\ list[i] \in Int
  BY Where, Bounds DEF Steady
<1>3. ASSUME NEW i \in 1 .. Len(list) PROVE i \in good <=> list[i] = Last + i
  <2> DEFINE x == list[i]
  <2>1. i \in good <=> SN(x) = (LastIndSeq + i) % Seqs
    OBVIOUS
  <2>2. (LastIndSeq + i) % Seqs = SN(Last + i)
    <3>1. SN(SN(Last) + i) = SN(Last + i)
      BY <1>2, Shift
    <3> QED
      BY <1>2, <3>1 DEF SN
  <2>3. x \in Int /\ Last < x /\ x <= Last + BAWinSize
    BY <1>2
  <2> HIDE DEF good, x
  <2>4. Last + i \in Int /\ x - (Last + i) < Seqs /\ (Last + i) - x < Seqs
    BY <1>2, <2>3, Sizes
  <2>5. SN(x) = SN(Last + i) <=> x = Last + i
    BY <2>3, <2>4, SameMeans
  <2>6. i \in good <=> x = Last + i
    BY <2>1, <2>2, <2>5
  <2> QED
    BY <2>6 DEF x
<1>4. good \in SUBSET (1 .. Len(list))
  OBVIOUS
<1> HIDE DEF good, k
<1>5. /\ k \in 0 .. Len(list) /\ 1 .. k \subseteq good
      /\ k < Len(list) => k + 1 \notin good
  BY <1>1, <1>4, LeadingIs
<1>6. \A i \in 1 .. k : list[i] = Last + i
  BY <1>2, <1>3, <1>5
<1>7. ASSUME NEW i \in k + 1 .. Len(list) PROVE Last + k + 1 < list[i]
  <2>1. k + 1 \in 1 .. Len(list) /\ i \in 1 .. Len(list) /\ k + 1 <= i /\ k \in Nat
    BY <1>2, <1>5
  <2>2. list[k + 1] \in Int /\ list[i] \in Int /\ list[k + 1] # Last + (k + 1)
    BY <1>2, <1>3, <1>5, <2>1
  <2>3. list[k + 1] <= list[i]
    BY <1>2, <2>1, <2>2 DEF Steady, Ranked
  <2>4. Last + k < list[k + 1]
    <3>1. CASE k = 0
      BY <1>2, <2>1, <3>1
    <3>2. CASE k # 0
      <4>1. k \in 1 .. k /\ k \in 1 .. Len(list) /\ k < k + 1
        BY <2>1, <3>2, <1>5
      <4>2. list[k] = Last + k
        BY <1>6, <4>1
      <4>3. list[k] < list[k + 1]
        BY <2>1, <4>1 DEF Steady, Ranked
      <4> QED
        BY <4>2, <4>3
    <3> QED
      BY <3>1, <3>2
  <2> QED
    BY <1>2, <2>1, <2>2, <2>3, <2>4
<1> QED
  BY <1>5, <1>6, <1>7 DEF k

LEMMA FollowMoves ==
    ASSUME Counts, Progress, Steady, ~ raced, status = "Established", Now.pc \in Follows,
           NEW k, k = After(LastIndSeq), Take(k), UNCHANGED <<front, LastIndSeq>>
    PROVE  /\ k \in Nat /\ Last' = Last /\ Last \in Int /\ Last + k \in Int
           /\ \A i \in 1 .. Len(list') : /\ Last + k + 1 < list'[i] /\ list'[i] <= front
                                         /\ list'[i] <= Last + BAWinSize
           /\ top' <= Last + k
           /\ k > 0 => list[k] = Last + k /\ Last + k <= front /\ Last + k <= Last + BAWinSize
<1>1. /\ k \in 0 .. Len(list)
      /\ \A i \in 1 .. k : list[i] = Last + i
      /\ \A i \in k + 1 .. Len(list) : Last + k + 1 < list[i]
  BY AfterMeans
<1>2. Last' = Last
  BY Kept
<1>3. /\ Len(list') = Len(list) - k /\ \A i \in 1 .. Len(list') : list'[i] = list[k + i]
      /\ top' = IF k = 0 THEN top ELSE list[k]
  BY <1>1, TakeKeepsOrder DEF Steady
<1>4. Last \in Int /\ Len(list) \in Nat /\ top <= Last /\ top \in Int
  <2>1. Passed = Last
    BY DEF Passed, Marks, Settles, Follows
  <2> QED
    BY <2>1, Where, Bounds DEF Steady
<1>5. k > 0 => list[k] = Last + k /\ Last + k <= front /\ Last + k <= Last + BAWinSize
  <2>1. k > 0 => k \in 1 .. k /\ k \in 1 .. Len(list)
    BY <1>1, <1>4
  <2>2. k > 0 => list[k] <= front /\ list[k] <= Last + BAWinSize
    BY <2>1, Bounds DEF Steady
  <2> QED
    BY <1>1, <2>1, <2>2
<1>6. ASSUME NEW i \in 1 .. Len(list')
      PROVE  Last + k + 1 < list'[i] /\ list'[i] <= Last + BAWinSize /\ list'[i] <= front
  <2>1. k + i \in k + 1 .. Len(list) /\ k + i \in 1 .. Len(list)
    BY <1>1, <1>3, <1>4
  <2>2. list[k + i] <= Last + BAWinSize /\ list[k + i] <= front
    BY <2>1, Bounds DEF Steady
  <2> QED
    BY <1>1, <1>3, <2>1, <2>2
<1>7. top' <= Last + k
  BY <1>1, <1>3, <1>4, <1>5
<1> QED
  BY <1>1, <1>2, <1>4, <1>5, <1>6, <1>7

(* The number up to which frames have been passed up comes next.           *)
LEMMA FollowAims ==
    ASSUME Counts, Progress, NEW k \in Nat, k > 0, Last' = Last, Last + k <= Last + BAWinSize,
           Now'.to = SN(Last + k)
    PROVE  Target' = Last + k
<1>1. Last \in Int /\ Last + k \in Int /\ Last <= Last + k /\ (Last + k) - Last < Seqs
  BY Where, Sizes
<1> QED
  BY <1>1, Aimed

LEMMA RxFollowPlaced ==
    ASSUME Counts, Progress, Steady, RxFollow, ~ raced PROVE Placed' /\ Ranked'
<1> DEFINE k == After(LastIndSeq)
           to == SN(list[k])
<1>1. /\ timer.pc = "idle" /\ timer' = timer /\ Now = rx /\ rx.pc \in Follows /\ Take(k)
      /\ UNCHANGED <<front, status, LastIndSeq>>
  <2>1. rx.pc # "idle" /\ timer' = timer
    BY DEF RxFollow
  <2>2. timer.pc = "idle"
    BY <2>1 DEF Steady, Alone
  <2> QED
    BY <2>1, <2>2 DEF RxFollow, Now, Follows
<1>2. Ranked'
  BY <1>1, LeadingPart, TakeKeepsOrder DEF After, Counts, Steady
<1>3. /\ rx' = IF k > 0 THEN [rx EXCEPT !.pc = IF rx.pc = "follow" THEN "settle" ELSE "settleCheck",
                                        !.to = to]
               ELSE IF rx.pc = "follow" THEN Idle ELSE [rx EXCEPT !.pc = "check"]
  BY DEF RxFollow
<1>4. CASE status = "Established"
  <2>1. /\ k \in Nat /\ Last' = Last /\ Last \in Int /\ Last + k \in Int
        /\ \A i \in 1 .. Len(list') : /\ Last + k + 1 < list'[i] /\ list'[i] <= front
                                      /\ list'[i] <= Last + BAWinSize
        /\ top' <= Last + k
        /\ k > 0 => list[k] = Last + k /\ Last + k <= front /\ Last + k <= Last + BAWinSize
    BY <1>1, <1>4, FollowMoves
  <2>2. Near
    BY <1>4, Bounds DEF Steady
  <2>3. k > 0 => to = SN(Last + k)
    BY <2>1
  <2> HIDE DEF k, to
  <2>4. /\ k > 0 => /\ rx'.to = to /\ rx'.n = rx.n
                    /\ \/ rx.pc = "follow" /\ rx'.pc = "settle"
                       \/ rx.pc = "followCheck" /\ rx'.pc = "settleCheck"
        /\ k = 0 => \/ rx.pc = "follow" /\ rx'.pc = "idle"
                    \/ rx.pc = "followCheck" /\ rx'.pc = "check" /\ rx'.n = rx.n
    <3>1. CASE k > 0 /\ rx.pc = "follow"
      BY <1>3, <3>1 DEF Progress
    <3>2. CASE k > 0 /\ rx.pc # "follow"
      BY <1>1, <1>3, <3>2 DEF Progress, Follows
    <3>3. CASE k = 0
      BY <1>1, <1>3, <3>3 DEF Progress, Follows, Idle
    <3> QED
      BY <2>1, <3>1, <3>2, <3>3
  <2>5. Now' = rx'
    BY <1>1 DEF Now
  <2>6. front \in Int /\ (rx.pc = "followCheck" => rx.n = Last + BAWinSize /\ front = rx.n)
        /\ front <= Last + BAWinSize
    BY <1>1, <2>2, Where DEF Near, Follows
  <2>7. CASE k > 0
    <3>1. Target' = Last + k
      BY <2>1, <2>3, <2>4, <2>5, <2>7, FollowAims
    <3>2. Edge' = Last + k + 1 /\ Passed' = Last + k
      BY <2>4, <2>5, <2>7, <3>1 DEF Edge, Passed, Marks, Settles, Follows
    <3>3. Inside'
      BY <1>1, <2>1, <3>2 DEF Inside
    <3>4. Last < Last + k
      BY <2>1, <2>7
    <3>5. Near'
      BY <1>1, <2>1, <2>4, <2>5, <2>6, <2>7, <3>1, <3>4 DEF Near, Settles
    <3> QED
      BY <1>2, <3>3, <3>5 DEF Placed
  <2>8. CASE k = 0
    <3>1. Edge' = Last + 1 /\ Passed' = Last
      BY <2>1, <2>4, <2>5, <2>8 DEF Edge, Passed, Marks, Settles, Follows
    <3>2. /\ \A i \in 1 .. Len(list') : /\ Last + 1 < list'[i] /\ list'[i] <= front
                                        /\ list'[i] <= Last + BAWinSize
          /\ top' <= Last
      <4>1. Last + k = Last
        BY <2>1, <2>8
      <4> QED
        BY <2>1, <4>1
    <3>3. Inside'
      BY <1>1, <2>1, <3>1, <3>2 DEF Inside
    <3>4. Last - BAWinSize < Last + BAWinSize /\ Last + BAWinSize < Last + Half
      BY <2>1, Sizes
    <3>5. Near'
      BY <1>1, <2>1, <2>4, <2>5, <2>6, <2>8, <3>4 DEF Near, Settles
    <3> QED
      BY <1>2, <3>3, <3>5 DEF Placed
  <2> QED
    BY <2>1, <2>7, <2>8
<1>5. CASE status # "Established"
  BY <1>1, <1>2, <1>5 DEF Placed
<1> QED
  BY <1>4, <1>5

LEMMA TimerFollowPlaced ==
    ASSUME Counts, Progress, Steady, TimerFollow, ~ raced PROVE Placed' /\ Ranked'
<1> DEFINE k == After(timer.to)
           to == SN(list[k])
<1>1. /\ timer.pc = "follow" /\ Now = timer /\ Take(k)
      /\ UNCHANGED <<front, status, LastIndSeq, rx>>
  BY DEF TimerFollow, Now
<1>2. Ranked'
  BY <1>1, LeadingPart, TakeKeepsOrder DEF After, Counts, Steady
<1>3. timer' = IF k > 0 THEN [timer EXCEPT !.pc = "settle", !.to = to]
                          ELSE [Idle EXCEPT !.pc = "look"]
  BY DEF TimerFollow
<1>4. CASE status = "Established"
  <2>1. Near
    BY <1>4, Bounds DEF Steady
  <2>2. k = After(LastIndSeq)
    BY <1>1, <2>1 DEF Near
  <2>3. /\ k \in Nat /\ Last' = Last /\ Last \in Int /\ Last + k \in Int
        /\ \A i \in 1 .. Len(list') : /\ Last + k + 1 < list'[i] /\ list'[i] <= front
                                      /\ list'[i] <= Last + BAWinSize
        /\ top' <= Last + k
        /\ k > 0 => list[k] = Last + k /\ Last + k <= front /\ Last + k <= Last + BAWinSize
    BY <1>1, <1>4, <2>2, FollowMoves DEF Follows
  <2>4. k > 0 => to = SN(Last + k)
    BY <2>3
  <2> HIDE DEF k, to
  <2>5. /\ k > 0 => timer'.pc = "settle" /\ timer'.to = to
        /\ k = 0 => timer'.pc = "look"
    BY <1>3 DEF Progress, Idle
  <2>6. Now' = timer'
    BY <2>3, <2>5 DEF Now
  <2>7. front <= Last + BAWinSize
    BY <1>1, <2>1 DEF Near
  <2>8. CASE k > 0
    <3>1. Target' = Last + k
      BY <2>3, <2>4, <2>5, <2>6, <2>8, FollowAims
    <3>2. Edge' = Last + k + 1 /\ Passed' = Last + k
      BY <2>5, <2>6, <2>8, <3>1 DEF Edge, Passed, Marks, Settles, Follows
    <3>3. Inside'
      BY <1>1, <2>3, <3>2 DEF Inside
    <3>4. Last < Last + k
      BY <2>3, <2>8
    <3>5. Near'
      BY <1>1, <2>3, <2>5, <2>6, <2>7, <2>8, <3>1, <3>4 DEF Near, Settles
    <3> QED
      BY <1>2, <3>3, <3>5 DEF Placed
  <2>9. CASE k = 0
    <3>1. Edge' = Last + 1 /\ Passed' = Last
      BY <2>3, <2>5, <2>6, <2>9 DEF Edge, Passed, Marks, Settles, Follows
    <3>2. /\ \A i \in 1 .. Len(list') : /\ Last + 1 < list'[i] /\ list'[i] <= front
                                        /\ list'[i] <= Last + BAWinSize
          /\ top' <= Last
      <4>1. Last + k = Last
        BY <2>3, <2>9
      <4> QED
        BY <2>3, <4>1
    <3>3. Inside'
      BY <1>1, <2>3, <3>1, <3>2 DEF Inside
    <3>4. Near'
      BY <1>1, <2>3, <2>5, <2>6, <2>7, <2>9 DEF Near, Settles
    <3> QED
      BY <1>2, <3>3, <3>4 DEF Placed
  <2> QED
    BY <2>3, <2>8, <2>9
<1>5. CASE status # "Established"
  BY <1>1, <1>2, <1>5 DEF Placed
<1> QED
  BY <1>4, <1>5

(* The timer's steps that only look.                                       *)
LEMMA TimerLooksPlaced ==
    ASSUME Counts, Progress, Steady, ~ raced, ~ raced',
           TimerFire \/ TimerExec \/ (\E late \in BOOLEAN : TimerLook(late)) \/ TimerRearm
    PROVE  Placed' /\ Ranked'
<1>1. /\ UNCHANGED <<list, LastIndSeq, front, status, top, ordered, rx>> /\ rx.pc = "idle"
      /\ \/ Now.pc = "idle" /\ Now'.pc = "exec"
         \/ Now.pc = "exec" /\ Now'.pc \in {"idle", "look"}
         \/ Now.pc = "look" /\ Now'.pc = "rearm"
         \/ /\ Now.pc = "look" /\ Now'.pc = "upto" /\ Now'.to = SN(list[1]) /\ list # <<>>
            /\ timer'.pc = "upto"
         \/ Now.pc = "rearm" /\ Now'.pc = "idle"
      /\ timer'.pc # "follow"
  <2>1. CASE TimerFire
    <3>1. ~ Busy /\ timer' = [Idle EXCEPT !.pc = "exec"]
          /\ UNCHANGED <<list, LastIndSeq, front, status, top, ordered, rx>>
      BY <2>1 DEF TimerFire, Starts, session, passed
    <3>2. timer'.pc = "exec"
      BY <3>1 DEF Idle
    <3> QED
      BY <3>1, <3>2 DEF Busy, Now
  <2>2. CASE TimerExec
    <3>1. timer'.pc \in {"idle", "look"}
      BY <2>2 DEF TimerExec, Idle, Progress
    <3> QED
      BY <2>2, <3>1 DEF TimerExec, Now, Steady, Alone, session, passed
  <2>3. CASE \E late \in BOOLEAN : TimerLook(late)
    <3> DEFINE to == SN(list[1])
    <3>1. /\ \/ timer' = [timer EXCEPT !.pc = "upto", !.to = to] /\ list # <<>>
             \/ timer' = [Idle EXCEPT !.pc = "rearm"]
          /\ timer.pc = "look" /\ UNCHANGED <<list, LastIndSeq, front, status, top, ordered, rx>>
      BY <2>3 DEF TimerLook, session, passed
    <3> HIDE DEF to
    <3>2. \/ timer'.pc = "upto" /\ timer'.to = to /\ list # <<>>
          \/ timer'.pc = "rearm"
      BY <3>1 DEF Progress, Idle
    <3> QED
      BY <3>1, <3>2 DEF Now, Steady, Alone, to
  <2>4. CASE TimerRearm
    <3>1. timer'.pc = "idle"
      BY <2>4 DEF TimerRearm, Idle
    <3> QED
      BY <2>4, <3>1 DEF TimerRearm, Now, Steady, Alone, session, passed
  <2> QED
    BY <2>1, <2>2, <2>3, <2>4
<1>2. Ranked'
  BY <1>1 DEF Steady, Ranked
<1>3. CASE status = "Established"
  <2>1. Last' = Last
    BY <1>1, Kept
  <2>2. Edge' = Edge /\ Passed' = Passed /\ Edge = Last + 1
    BY <1>1, <2>1 DEF Edge, Passed, Marks, Settles, Follows
  <2>3. Inside'
    BY <1>1, <1>3, <2>2, StaysInside DEF Steady
  <2>4. front <= Last + BAWinSize
    BY <1>1, <1>3, Bounds DEF Steady, Near
  <2>5. CASE Now'.pc # "upto"
    <3>1. Now'.pc \in {"idle", "exec", "look", "rearm"}
      BY <1>1, <2>5
    <3>2. Near'
      BY <1>1, <2>1, <2>4, <3>1 DEF Near, Settles
    <3> QED
      BY <1>2, <2>3, <3>2 DEF Placed
  <2>6. CASE Now'.pc = "upto"
    <3> DEFINE t == list[1]
    <3>1. 1 \in 1 .. Len(list)
      BY <1>1, <2>6, EmptySeq DEF Counts
    <3>2. t \in Int /\ Last < t /\ t <= Last + BAWinSize /\ t <= front /\ Last \in Int
      BY <1>3, <3>1, Bounds, Where DEF Steady
    <3>3. Now'.to = SN(t)
      BY <1>1, <2>6
    <3> HIDE DEF t
    <3>4. Last <= t /\ t - Last < Seqs /\ t < Last + Half
      BY <3>2, Sizes
    <3>5. Target' = t
      BY <2>1, <3>2, <3>3, <3>4, Aimed
    <3>6. Near'
      BY <1>1, <2>1, <2>4, <2>6, <3>2, <3>4, <3>5 DEF Near, Settles
    <3> QED
      BY <1>2, <2>3, <3>6 DEF Placed
  <2> QED
    BY <2>5, <2>6
<1>4. CASE status # "Established"
  BY <1>1, <1>2, <1>4 DEF Placed
<1> QED
  BY <1>3, <1>4

(* What ba_reordering_mpdu_insertsorted() makes of the list.               *)
LEMMA InsertedIs ==
    ASSUME Counts, NEW n \in Frames
    PROVE  LET k == Place(SN(n)) IN
           /\ k \in 0 .. Len(list) /\ Len(Inserted(n)) = Len(list) + 1
           /\ \A i \in 1 .. k : Inserted(n)[i] = list[i]
           /\ Inserted(n)[k + 1] = n
           /\ \A i \in k + 2 .. Len(list) + 1 : Inserted(n)[i] = list[i - 1]
<1> DEFINE k == Place(SN(n))
           a == SubSeq(list, 1, k)
           b == SubSeq(list, k + 1, Len(list))
           m == Len(list)
<1>1. k \in 0 .. m /\ m \in Nat /\ \A i \in 1 .. m : list[i] \in Frames
  BY LeadingPart, LenProperties, ElementOfSeq DEF Place, Counts
<1> HIDE DEF k
<1>2. a \in Seq(Frames) /\ Len(a) = k /\ \A i \in 1 .. k : a[i] = list[i]
  <2>1. k \in Int /\ 1 \in Int /\ \A i \in 1 .. k : list[i] \in Frames
    BY <1>1
  <2>2. /\ a \in Seq(Frames) /\ Len(a) = IF 1 <= k THEN k - 1 + 1 ELSE 0
        /\ \A i \in 1 .. k - 1 + 1 : a[i] = list[1 + i - 1]
    BY <2>1, SubSeqProperties
  <2> HIDE DEF a
  <2> QED
    BY <1>1, <2>2
<1>3. b \in Seq(Frames) /\ Len(b) = m - k /\ \A i \in 1 .. m - k : b[i] = list[k + i]
  <2>1. k + 1 \in Int /\ m \in Int /\ \A i \in k + 1 .. m : list[i] \in Frames
    BY <1>1
  <2>2. /\ b \in Seq(Frames) /\ Len(b) = IF k + 1 <= m THEN m - (k + 1) + 1 ELSE 0
        /\ \A i \in 1 .. m - (k + 1) + 1 : b[i] = list[(k + 1) + i - 1]
    BY <2>1, SubSeqProperties
  <2> HIDE DEF b, m
  <2> QED
    BY <1>1, <2>2
<1>4. <<n>> \in Seq(Frames) /\ Len(<<n>>) = 1 /\ <<n>>[1] = n
  OBVIOUS
<1> DEFINE c == a \o <<n>>
<1> HIDE DEF a, b, m
<1>5. /\ c \in Seq(Frames) /\ Len(c) = k + 1
      /\ \A i \in 1 .. k + 1 : c[i] = IF i <= k THEN a[i] ELSE <<n>>[i - k]
  BY <1>1, <1>2, <1>4, ConcatProperties
<1>6. \A i \in 1 .. k : c[i] = list[i]
  BY <1>1, <1>2, <1>5
<1>7. c[k + 1] = n
  <2>1. k + 1 \in 1 .. k + 1 /\ ~ (k + 1 <= k) /\ (k + 1) - k = 1
    BY <1>1
  <2> QED
    BY <1>4, <1>5, <2>1
<1> HIDE DEF c
<1>8. /\ Len(c \o b) = m + 1
      /\ \A i \in 1 .. m + 1 : (c \o b)[i] = IF i <= k + 1 THEN c[i] ELSE b[i - (k + 1)]
  <2>1. /\ Len(c \o b) = Len(c) + Len(b)
        /\ \A i \in 1 .. Len(c) + Len(b) : (c \o b)[i] = IF i <= Len(c) THEN c[i] ELSE b[i - Len(c)]
    BY <1>3, <1>5, ConcatProperties
  <2>2. Len(c) + Len(b) = m + 1
    BY <1>1, <1>3, <1>5
  <2> QED
    BY <1>5, <2>1, <2>2
<1>9. Inserted(n) = c \o b
  BY DEF Inserted, a, b, c, k, m
<1>10. \A i \in k + 2 .. m + 1 : (c \o b)[i] = list[i - 1]
  <2> SUFFICES ASSUME NEW i \in k + 2 .. m + 1 PROVE (c \o b)[i] = list[i - 1]
    OBVIOUS
  <2>1. /\ i \in 1 .. m + 1 /\ ~ (i <= k + 1) /\ i - (k + 1) \in 1 .. m - k
        /\ k + (i - (k + 1)) = i - 1
    BY <1>1
  <2> QED
    BY <1>3, <1>8, <2>1
<1>11. /\ \A i \in 1 .. k : (c \o b)[i] = list[i]
       /\ (c \o b)[k + 1] = n
  <2>1. \A i \in 1 .. k + 1 : i \in 1 .. m + 1 /\ i <= k + 1
    BY <1>1
  <2>2. \A i \in 1 .. k + 1 : (c \o b)[i] = c[i]
    BY <1>8, <2>1
  <2>3. k + 1 \in 1 .. k + 1 /\ \A i \in 1 .. k : i \in 1 .. k + 1
    BY <1>1
  <2> QED
    BY <1>6, <1>7, <2>2, <2>3
<1> QED
  BY <1>1, <1>8, <1>9, <1>10, <1>11 DEF k, m

(* A list in order has no more frames than the range it lies in.           *)
LEMMA AtMost ==
    ASSUME NEW s, NEW m \in Nat, NEW a \in Int, NEW b \in Int,
           \A i \in 1 .. m : s[i] \in a .. b,
           \A i, j \in 1 .. m : i < j => s[i] < s[j]
    PROVE  m <= Cardinality(a .. b)
<1> DEFINE f == [i \in 1 .. m |-> s[i]]
<1>1. f \in [1 .. m -> a .. b]
  OBVIOUS
<1>2. ASSUME NEW i \in 1 .. m, NEW j \in 1 .. m, f[i] = f[j] PROVE i = j
  <2>1. s[i] = s[j] /\ s[i] \in Int /\ i \in Int /\ j \in Int
    BY <1>2
  <2>2. ~ (i < j) /\ ~ (j < i)
    BY <2>1
  <2> QED
    BY <2>1, <2>2
<1> HIDE DEF f
<1>3. f \in Injection(1 .. m, a .. b)
  BY <1>1, <1>2 DEF Injection, IsInjective
<1>4. Cardinality(1 .. m) <= Cardinality(a .. b)
  BY <1>3, FS_Interval, FS_Injection
<1>5. Cardinality(1 .. m) = m
  BY FS_Interval
<1> QED
  BY <1>4, <1>5

LEMMA RxInsertPlaced ==
    ASSUME Counts, Progress, Steady, RxInsert, ~ raced
    PROVE  Placed' /\ Ranked' /\ Len(list') < BAWinSize
<1> DEFINE n == rx.n
           k == Place(SN(n))
           m == Len(list)
<1>1. /\ rx.pc = "enqueue" /\ timer.pc = "idle" /\ timer' = timer /\ n \in Frames
      /\ UNCHANGED <<LastIndSeq, front, status, top, ordered>> /\ status = "Established"
      /\ list' = (IF Duplicate(SN(n)) THEN list ELSE Inserted(n)) /\ rx'.pc = "idle"
  BY DEF RxInsert, Progress, Steady, Alone, Owned, passed, Idle
<1>2. Now.pc = "enqueue" /\ Now'.pc = "idle"
  BY <1>1 DEF Now
<1>3. Last' = Last
  BY <1>1, Kept
<1>4. /\ n \in Int /\ Last \in Int /\ front \in Int /\ top \in Int /\ m \in Nat
      /\ m < BAWinSize
  BY <1>1, FramesAreTops, Where DEF Steady
<1>5. Last + 1 < n /\ n <= Last + BAWinSize /\ n <= front /\ front <= Last + BAWinSize
  BY <1>1, <1>2, Bounds DEF Steady, Near
<1>6. Edge = Last + 1 /\ Passed = Last /\ Edge' = Last + 1 /\ Passed' = Last
  BY <1>2, <1>3 DEF Edge, Passed, Marks, Settles, Follows
<1>7. /\ top <= Last
      /\ \A i \in 1 .. m : /\ Last + 1 < list[i] /\ list[i] <= Last + BAWinSize /\ list[i] <= front
                           /\ list[i] \in Int
  BY <1>1, <1>6, Bounds, Where DEF Steady
<1>8. Near'
  BY <1>1, <1>2, <1>3, <1>5 DEF Near, Settles
<1>9. CASE Duplicate(SN(n))
  <2>1. list' = list
    BY <1>1, <1>9
  <2>2. Inside'
    BY <1>1, <1>6, <2>1, StaysInside DEF Steady
  <2>3. Ranked'
    BY <1>1, <2>1 DEF Steady, Ranked
  <2> QED
    BY <1>4, <1>8, <2>1, <2>2, <2>3 DEF Placed
<1>10. CASE ~ Duplicate(SN(n))
  <2>1. list' = Inserted(n)
    BY <1>1, <1>10
  <2>2. /\ k \in 0 .. m /\ Len(list') = m + 1
        /\ \A i \in 1 .. k : list'[i] = list[i]
        /\ list'[k + 1] = n
        /\ \A i \in k + 2 .. m + 1 : list'[i] = list[i - 1]
    BY <1>1, <2>1, InsertedIs
  <2> DEFINE good == {i \in 1 .. m : Smaller(SN(list[i]), SN(n))}
  <2>3. ASSUME NEW i \in 1 .. m
        PROVE  /\ i \in good <=> list[i] < n
               /\ SN(list[i]) = SN(n) <=> list[i] = n
    <3> DEFINE x == list[i]
    <3>1. i \in good <=> Smaller(SN(x), SN(n))
      OBVIOUS
    <3>2. x \in Int /\ Last + 1 < x /\ x <= Last + BAWinSize
      BY <1>7
    <3> HIDE DEF good, x, n
    <3>3. -Half <= x - n /\ x - n < Half /\ x - n < Seqs /\ n - x < Seqs
      BY <1>4, <1>5, <3>2, Sizes
    <3>4. (Smaller(SN(x), SN(n)) <=> x < n) /\ (SN(x) = SN(n) <=> x = n)
      BY <1>4, <3>2, <3>3, SmallerMeans, SameMeans
    <3> QED
      BY <3>1, <3>4 DEF x
  <2>4. /\ k \in 0 .. m /\ 1 .. k \subseteq good
        /\ k < m => k + 1 \notin good
    <3>1. list \in Seq(Frames) /\ good \in SUBSET (1 .. m) /\ k = Leading(good)
      BY DEF Place, Counts
    <3> HIDE DEF good, k
    <3> QED
      BY <3>1, LeadingIs
  <2>5. k < m => SN(list[k + 1]) # SN(n)
    BY <1>10 DEF Duplicate
  <2> HIDE DEF good, n, k
  <2>6. \A i \in 1 .. k : list[i] < n
    BY <1>4, <2>3, <2>4
  <2>7. k < m => n < list[k + 1]
    <3>1. k < m => k + 1 \in 1 .. m
      BY <1>4, <2>4
    <3>2. k < m => list[k + 1] \in Int /\ ~ (list[k + 1] < n) /\ list[k + 1] # n
      BY <1>7, <2>3, <2>4, <2>5, <3>1
    <3> QED
      BY <1>4, <3>2
  <2>8. ASSUME NEW i \in k + 1 .. m PROVE n < list[i]
    <3>1. i \in 1 .. m /\ k + 1 \in 1 .. m /\ k < m /\ k + 1 <= i
      BY <1>4, <2>4
    <3>2. list[k + 1] <= list[i] /\ list[k + 1] \in Int /\ list[i] \in Int
      BY <1>4, <1>7, <3>1 DEF Steady, Ranked
    <3> QED
      BY <1>4, <2>7, <3>1, <3>2
  <2>9. \A i \in 1 .. m + 1 : \/ i \in 1 .. k /\ i \in 1 .. m
                              \/ i = k + 1
                              \/ i \in k + 2 .. m + 1 /\ i - 1 \in k + 1 .. m /\ i - 1 \in 1 .. m
    BY <1>4, <2>4
  <2>10. ASSUME NEW i \in 1 .. Len(list')
         PROVE  /\ list'[i] \in Int /\ Last + 1 < list'[i] /\ list'[i] <= Last + BAWinSize
                /\ list'[i] <= front
    <3>1. CASE i \in 1 .. k /\ i \in 1 .. m
      BY <1>7, <2>2, <3>1
    <3>2. CASE i = k + 1
      BY <1>4, <1>5, <2>2, <3>2
    <3>3. CASE i \in k + 2 .. m + 1 /\ i - 1 \in 1 .. m
      BY <1>7, <2>2, <3>3
    <3> QED
      BY <2>2, <2>9, <3>1, <3>2, <3>3
  <2>11. ASSUME NEW i \in 1 .. Len(list'), NEW j \in 1 .. Len(list'), i < j
         PROVE  list'[i] < list'[j]
    <3>1. i \in 1 .. m + 1 /\ j \in 1 .. m + 1 /\ i \in Int /\ j \in Int /\ k \in Int
      BY <1>4, <2>2
    <3>2. CASE j \in 1 .. k
      <4>1. i \in 1 .. k /\ i \in 1 .. m /\ j \in 1 .. m
        BY <1>4, <2>2, <2>11, <3>1, <3>2
      <4>2. list[i] < list[j]
        BY <2>11, <4>1 DEF Steady, Ranked
      <4> QED
        BY <2>2, <3>2, <4>1, <4>2
    <3>3. CASE j = k + 1
      <4>1. i \in 1 .. k
        BY <2>11, <3>1, <3>3
      <4> QED
        BY <2>2, <2>6, <3>3, <4>1
    <3>4. CASE j \in k + 2 .. m + 1 /\ j - 1 \in k + 1 .. m /\ j - 1 \in 1 .. m
      <4>1. n < list[j - 1] /\ list'[j] = list[j - 1]
        BY <2>2, <2>8, <3>4
      <4>2. CASE i \in 1 .. k /\ i \in 1 .. m
        <5>1. list[i] < n /\ list[i] \in Int /\ list[j - 1] \in Int
          BY <1>7, <2>6, <3>4, <4>2
        <5> QED
          BY <1>4, <2>2, <4>1, <4>2, <5>1
      <4>3. CASE i = k + 1
        BY <2>2, <4>1, <4>3
      <4>4. CASE i \in k + 2 .. m + 1 /\ i - 1 \in 1 .. m
        <5>1. i - 1 < j - 1
          BY <2>11, <3>1
        <5>2. list[i - 1] < list[j - 1]
          BY <3>4, <4>4, <5>1 DEF Steady, Ranked
        <5> QED
          BY <2>2, <4>1, <4>4, <5>2
      <4> QED
        BY <2>9, <3>1, <4>2, <4>3, <4>4
    <3> QED
      BY <2>9, <3>1, <3>2, <3>3, <3>4
  <2>12. top' = top /\ \A i \in 1 .. Len(list') : top' < list'[i]
    BY <1>1, <1>4, <1>7, <2>10
  <2>13. Ranked'
    BY <1>1, <2>11, <2>12 DEF Steady, Ranked
  <2>14. Inside'
    BY <1>1, <1>3, <1>6, <1>7, <2>10 DEF Inside
  <2>15. Len(list') < BAWinSize
    <3>1. \A i, j \in 1 .. Len(list') : i < j => list'[i] < list'[j]
      BY <2>11
    <3>2. \A i \in 1 .. Len(list') : list'[i] \in Last + 2 .. Last + BAWinSize
      BY <1>4, <2>10, Sizes
    <3>3. Len(list') \in Nat /\ Last + 2 \in Int /\ Last + BAWinSize \in Int
      BY <1>4, <2>2, Sizes
    <3>4. Len(list') <= Cardinality(Last + 2 .. Last + BAWinSize)
      BY <3>1, <3>2, <3>3, AtMost
    <3>5. Cardinality(Last + 2 .. Last + BAWinSize) < BAWinSize
      <4> DEFINE a == Last + 2
                 b == Last + BAWinSize
                 c == Cardinality(a .. b)
      <4>1. c = IF a > b THEN 0 ELSE b - a + 1
        BY <3>3, FS_Interval
      <4> HIDE DEF c
      <4>2. c < BAWinSize
        BY <1>4, <4>1, Sizes
      <4> QED
        BY <4>2 DEF c
    <3>6. Cardinality(Last + 2 .. Last + BAWinSize) \in Nat
      BY <3>3, FS_Interval, FS_CardinalityType
    <3> QED
      BY <3>3, <3>4, <3>5, <3>6, Sizes
  <2> QED
    BY <1>8, <2>13, <2>14, <2>15 DEF Placed
<1> QED
  BY <1>9, <1>10

(* All that waits is passed up: a frame comes first in its session, or the *)
(* MLME thread makes or ends one.                                          *)
LEMMA AddPlaced ==
    ASSUME Counts, Progress, Steady, Add, ~ raced, ~ raced'
    PROVE  Placed' /\ Ranked' /\ Len(list') = 0
<1>1. /\ ~ Busy /\ UNCHANGED <<front, rx, timer>>
      /\ \/ idx /\ Refresh /\ UNCHANGED status
         \/ /\ ~ idx /\ status = "NONE" /\ status' = "USED"
            /\ UNCHANGED <<list, LastIndSeq, top, ordered>>
  BY DEF Add, Starts, passed
<1>2. CASE Refresh /\ UNCHANGED status
  <2>1. /\ list' = <<>> /\ Len(list') = 0 /\ Ranked'
        /\ Len(list) \in Nat
        /\ Len(list) = 0 => top' = top /\ LastIndSeq' = LastIndSeq
        /\ Len(list) > 0 => top' = list[Len(list)] /\ LastIndSeq' = SN(list[Len(list)])
    BY <1>2, RefreshKeepsOrder DEF Steady
  <2>2. CASE status = "Established"
    <3>1. Now.pc = "idle" /\ Now'.pc = "idle" /\ timer'.pc = "idle"
      BY <1>1 DEF Busy, Now
    <3>2. /\ Last \in Int /\ front \in Int /\ top \in Int /\ Last <= front
          /\ front <= Last + BAWinSize /\ top <= Last
      <4>1. Passed = Last
        BY <3>1 DEF Passed, Marks, Settles
      <4> QED
        BY <2>2, <3>1, <4>1, Where, Bounds DEF Steady, Near
    <3>3. Last' \in Int /\ top' <= Last' /\ front <= Last' + BAWinSize
      <4>1. CASE Len(list) = 0
        <5>1. Last' = Last
          BY <1>1, <2>1, <4>1, Kept
        <5> QED
          BY <2>1, <3>2, <4>1, <5>1
      <4>2. CASE Len(list) > 0
        <5> DEFINE l == list[Len(list)]
        <5>1. Len(list) \in 1 .. Len(list)
          BY <2>1, <4>2
        <5>2. l \in Int /\ Last < l /\ l <= Last + BAWinSize /\ l <= front
          BY <2>2, <5>1, Bounds, Where DEF Steady
        <5>3. LastIndSeq' = SN(l) /\ top' = l
          BY <2>1, <4>2
        <5> HIDE DEF l
        <5>4. l <= front /\ front - l < Seqs /\ front <= l + BAWinSize
          BY <3>2, <5>2, Sizes
        <5>5. Last' = l
          BY <1>1, <3>2, <5>2, <5>3, <5>4, Marked
        <5> QED
          BY <5>2, <5>3, <5>4, <5>5
      <4> QED
        BY <2>1, <4>1, <4>2
    <3>4. Passed' = Last'
      BY <3>1 DEF Passed, Marks, Settles
    <3>5. Inside'
      BY <2>1, <3>3, <3>4 DEF Inside
    <3>6. Near'
      BY <1>1, <3>1, <3>3 DEF Near, Settles
    <3> QED
      BY <2>1, <3>5, <3>6 DEF Placed
  <2>3. CASE status # "Established"
    BY <1>2, <2>1, <2>3 DEF Placed
  <2> QED
    BY <2>2, <2>3
<1>3. CASE status = "NONE" /\ status' = "USED" /\ UNCHANGED <<list, LastIndSeq, top, ordered>>
  <2>1. list = <<>>
    BY <1>1, <1>3 DEF Steady, Owned, Busy
  <2> QED
    BY <1>3, <2>1, EmptySeq DEF Steady, Ranked, Placed
<1> QED
  BY <1>1, <1>2, <1>3

LEMMA AllPassedUp ==
    ASSUME Counts, Progress, Steady, RxLeak \/ RxFirst \/ DelDone, ~ raced
    PROVE  Placed' /\ Ranked' /\ Len(list') = 0
<1>1. Refresh /\ status' = status /\ status # "Established"
  BY DEF RxLeak, RxFirst, DelDone, Steady, Owned
<1>2. Ranked' /\ Len(list') = 0
  BY <1>1, RefreshKeepsOrder DEF Steady
<1> QED
  BY <1>1, <1>2 DEF Placed

(* Taking frames off the list does not make it longer.                     *)
LEMMA TakeFits ==
    ASSUME Counts, ~ raced, Ranked, Len(list) < BAWinSize, NEW good, Take(Leading(good))
    PROVE  Len(list') < BAWinSize
<1>1. Leading(good) \in 0 .. Len(list) /\ Len(list) \in Nat
  BY LeadingPart, LenProperties DEF Counts
<1>2. Len(list') = Len(list) - Leading(good)
  BY <1>1, TakeKeepsOrder
<1> QED
  BY <1>1, <1>2, Sizes

LEMMA WindowInv ==
    ASSUME IInv, Steady, ~ raced, ~ raced', [Next]_vars
    PROVE  Placed' /\ Ranked' /\ Len(list') < BAWinSize
<1>0. Counts /\ Progress /\ Over /\ 0 < BAWinSize
  BY TypesSplit, Sizes DEF IInv
<1>1. ASSUME list' = list PROVE Len(list') < BAWinSize
  BY <1>1 DEF Steady
<1>2. ASSUME list' = list, top' = top, ordered' = ordered PROVE Ranked'
  BY <1>2 DEF Steady, Ranked
<1>3. ASSUME NEW n \in Frames, Receive(n) \/ Bar(n)
      PROVE  Placed' /\ Ranked' /\ Len(list') < BAWinSize
  <2>1. Placed'
    BY <1>0, <1>3, ReceivePlaced, BarPlaced
  <2> QED
    BY <1>1, <1>2, <1>3, <2>1 DEF Receive, Bar, session, passed
<1>4. CASE RxLeak \/ RxFirst \/ DelDone
  BY <1>0, <1>4, AllPassedUp
<1>5. CASE RxBegin
  <2>1. list' = <<>> /\ list = <<>> /\ ordered' = ordered
    BY <1>5 DEF RxBegin, Steady, Owned
  <2>2. Ranked'
    BY <2>1, EmptySeq DEF Steady, Ranked
  <2> QED
    BY <1>0, <1>1, <1>5, <2>1, <2>2, RxBeginPlaced
<1>6. CASE RxGoOn \/ RxDirect
  <2>1. UNCHANGED <<list, top, ordered>>
    BY <1>6 DEF RxGoOn, RxDirect, session, passed
  <2> QED
    BY <1>0, <1>1, <1>2, <1>6, <2>1, RxGoOnPlaced, RxDirectPlaced
<1>7. CASE RxCheck
  BY <1>0, <1>1, <1>7, RxCheckPlaced DEF RxCheck, session
<1>8. CASE RxInsert
  BY <1>0, <1>8, RxInsertPlaced
<1>9. CASE RxUpTo \/ TimerUpTo
  <2>1. Len(list') < BAWinSize
    BY <1>0, <1>9, TakeFits DEF RxUpTo, TimerUpTo, UpTo, Steady
  <2> QED
    BY <1>0, <1>9, <2>1, RxUpToPlaced, TimerUpToPlaced
<1>10. CASE RxMark \/ RxSettle \/ TimerMark
  <2>1. list' = list
    BY <1>10 DEF RxMark, RxSettle, TimerMark
  <2> QED
    BY <1>0, <1>1, <1>10, <2>1, RxMarkPlaced, RxSettlePlaced, TimerMarkPlaced
<1>11. CASE RxFollow \/ TimerFollow
  <2>1. Len(list') < BAWinSize
    BY <1>0, <1>11, TakeFits DEF RxFollow, TimerFollow, After, Steady
  <2> QED
    BY <1>0, <1>11, <2>1, RxFollowPlaced, TimerFollowPlaced
<1>12. CASE TimerFire \/ TimerExec \/ (\E late \in BOOLEAN : TimerLook(late)) \/ TimerRearm
  <2>1. list' = list
    BY <1>12 DEF TimerFire, TimerExec, TimerLook, TimerRearm, session
  <2> QED
    BY <1>0, <1>1, <1>12, <2>1, TimerLooksPlaced
<1>13. CASE Add
  BY <1>0, <1>13, AddPlaced
<1>14. CASE Del \/ AddDone
  <2>1. UNCHANGED <<list, top, ordered>> /\ status' # "Established"
    BY <1>14 DEF Del, AddDone, passed
  <2> QED
    BY <1>1, <1>2, <2>1 DEF Placed
<1>15. CASE UNCHANGED vars
  <2>1. UNCHANGED <<list, top, ordered, status, front, LastIndSeq, rx, timer>>
    BY <1>15 DEF vars, session, passed
  <2>2. Placed'
    BY <2>1 DEF Steady, Placed, Inside, Near, Edge, Passed, Now, Last, Target
  <2> QED
    BY <1>1, <1>2, <2>1, <2>2
<1> QED
  BY <1>3, <1>4, <1>5, <1>6, <1>7, <1>8, <1>9, <1>10, <1>11, <1>12, <1>13, <1>14, <1>15
     DEF Next, RxNext, TimerNext, MlmeNext, Frames

-----------------------------------------------------------------------------
(* A frame that passes the list meets no copy of itself but the one that   *)
(* was there when it got no block.                                         *)
LEMMA FreshInv ==
    ASSUME Counts, Progress, Steady, ~ raced, ~ raced', [Next]_vars PROVE Fresh'
<1> SUFFICES ASSUME rx'.pc \in {"uptoPass", "markPass"}, ~ again'
             PROVE  rx'.n # top' /\ \A i \in 1 .. Len(list') : list'[i] # rx'.n
  BY DEF Fresh
<1>1. CASE RxDirect
  <2>1. /\ rx.pc = "enqueue" /\ rx'.n = rx.n /\ UNCHANGED <<list, top>>
        /\ \A i \in 1 .. Len(list) : list[i] # rx.n
    BY <1>1 DEF RxDirect, session, Progress
  <2>2. timer.pc = "idle" /\ status = "Established"
    BY <2>1 DEF Steady, Alone, Owned
  <2>3. Now = rx /\ Passed = Last
    BY <2>1, <2>2 DEF Now, Passed, Marks, Settles
  <2>4. top <= Last /\ Last + 1 < rx.n /\ Last \in Int /\ top \in Int /\ rx.n \in Int
    BY <2>1, <2>2, <2>3, Bounds, Where, FramesAreTops DEF Steady, Near, Progress
  <2>5. rx.n # top
    BY <2>4
  <2> QED
    BY <2>1, <2>5
<1>2. CASE RxUpTo
  <2> DEFINE k == UpTo(rx.to)
  <2>1. rx.pc = "uptoPass" /\ rx'.n = rx.n /\ Take(k)
    BY <1>2, UpToGoesOn DEF RxUpTo
  <2>2. k \in 0 .. Len(list) /\ Len(list) \in Nat
    BY LeadingPart, LenProperties DEF UpTo, Counts
  <2>3. again' = again
    BY <2>1 DEF Take, PassUp
  <2>4. rx.n # top /\ \A i \in 1 .. Len(list) : list[i] # rx.n
    BY <2>1, <2>3 DEF Steady, Fresh
  <2>5. /\ Len(list') = Len(list) - k /\ \A i \in 1 .. Len(list') : list'[i] = list[k + i]
        /\ top' = IF k = 0 THEN top ELSE list[k]
    BY <2>1, <2>2, TakeKeepsOrder DEF Steady
  <2> HIDE DEF k
  <2>6. top' # rx.n
    BY <2>2, <2>4, <2>5
  <2>7. ASSUME NEW i \in 1 .. Len(list') PROVE list'[i] # rx.n
    <3>1. k + i \in 1 .. Len(list)
      BY <2>2, <2>5
    <3> QED
      BY <2>4, <2>5, <3>1
  <2> QED
    BY <2>1, <2>6, <2>7
<1>3. CASE UNCHANGED vars
  BY <1>3 DEF vars, session, passed, Steady, Fresh
<1>4. CASE RxNext /\ ~ RxDirect /\ ~ RxUpTo
  <2>1. rx.pc = "check" \/ rx'.pc \notin {"uptoPass", "markPass"}
    <3>1. RxLeak \/ RxInsert => rx'.pc \notin {"uptoPass", "markPass"}
      BY DEF RxLeak, RxInsert, Idle
    <3>5. RxFirst \/ RxBegin \/ RxGoOn => rx'.pc \notin {"uptoPass", "markPass"}
      BY DEF RxFirst, RxBegin, RxGoOn, Progress
    <3>6. RxSettle => rx'.pc \notin {"uptoPass", "markPass"}
      BY DEF RxSettle, Idle, Progress
    <3>2. RxCheck => rx.pc = "check"
      BY DEF RxCheck
    <3>3. RxMark => rx'.pc \in {"follow", "followCheck"}
      BY DEF RxMark, Idle, Progress
    <3>4. RxFollow => rx'.pc \in {"idle", "check", "settle", "settleCheck"}
      BY DEF RxFollow, Idle, Progress
    <3> QED
      BY <1>4, <3>1, <3>2, <3>3, <3>4, <3>5, <3>6 DEF RxNext
  <2>2. CASE rx.pc = "check"
    <3>1. RxCheck
      BY <1>4, <2>2 DEF RxNext, RxLeak, RxFirst, RxBegin, RxGoOn, RxInsert, RxMark, RxFollow,
         RxSettle
    <3> QED
      BY <3>1, CheckGoesOn
  <2> QED
    BY <2>1, <2>2
<1>5. CASE ~ RxNext /\ ~ UNCHANGED vars
  <2>1. CASE \E n \in Frames : Receive(n) \/ Bar(n)
    <3>1. rx.pc = "idle" /\ (rx' = rx \/ rx'.pc \in {"start", "upto"})
      BY <2>1 DEF Receive, Bar
    <3> QED
      BY <3>1
  <2>2. CASE TimerNext \/ Add \/ Del \/ MlmeNext
    <3>1. rx' = rx
      BY <2>2 DEF TimerNext, TimerFire, TimerExec, TimerLook, TimerUpTo, TimerMark, TimerFollow,
         TimerRearm, Add, Del, MlmeNext, AddDone, DelDone
    <3>2. rx.pc = "idle"
      BY <2>2 DEF TimerNext, TimerFire, TimerExec, TimerLook, TimerUpTo, TimerMark, TimerFollow,
         TimerRearm, Add, Del, MlmeNext, AddDone, DelDone, Starts, Busy, Steady, Alone
    <3> QED
      BY <3>1, <3>2
  <2> QED
    BY <1>5, <2>1, <2>2 DEF Next, Frames
<1> QED
  BY <1>1, <1>2, <1>3, <1>4, <1>5

LEMMA OrderlyInit == Init => Orderly
<1> SUFFICES ASSUME Init PROVE Steady
  BY DEF Orderly
<1>1. /\ status = "NONE" /\ idx = FALSE /\ list = <<>> /\ ordered = TRUE /\ mlme = "idle"
      /\ rx.pc = "idle" /\ timer.pc = "idle" /\ Len(list) = 0
  BY EmptySeq DEF Init, Idle
<1> QED
  BY <1>1, Sizes DEF Steady, Alone, Owned, Ranked, Newest, Placed, Fresh

LEMMA OrderlyNext == IInv /\ Orderly /\ [Next]_vars => Orderly'
<1> SUFFICES ASSUME IInv, Orderly, [Next]_vars, ~ raced' PROVE Steady'
  BY DEF Orderly
<1>1. ~ raced
  <2>1. raced => raced'
    BY DEF Next, Receive, Bar, RxNext, RxLeak, RxFirst, RxBegin, RxGoOn, RxCheck, RxInsert,
       RxDirect, RxUpTo, RxMark, RxFollow, RxSettle, TimerNext, TimerFire, TimerExec, TimerLook, TimerUpTo,
       TimerMark, TimerFollow, TimerRearm, Add, Del, MlmeNext, AddDone, DelDone, Starts, vars
  <2> QED
    BY <2>1
<1>2. Counts /\ Progress /\ Over /\ Steady
  BY <1>1, TypesSplit DEF IInv, Orderly
<1>3. Alone' /\ Owned' /\ Newest'
  BY <1>1, <1>2, AloneInv, OwnedInv, NewestInv DEF Steady
<1>4. Placed' /\ Ranked' /\ Len(list') < BAWinSize
  BY <1>1, <1>2, WindowInv
<1>5. Fresh'
  BY <1>1, <1>2, FreshInv
<1> QED
  BY <1>3, <1>4, <1>5 DEF Steady

LEMMA OrderlyInv == Spec => [](IInv /\ Orderly)
<1>1. Init => IInv /\ Orderly
  BY InitInv, OrderlyInit
<1>2. (IInv /\ Orderly) /\ [Next]_vars => (IInv /\ Orderly)'
  BY NextInv, OrderlyNext
<1> QED
  BY <1>1, <1>2, PTL DEF Spec

(* The list stays in the sender's order, each frame once, also across the  *)
(* wrap: ba_reordering_mpdu_insertsorted() compares sequence numbers that  *)
(* are close enough to be compared. This and the next three hold until two *)
(* of receive path, flush timer and MLME thread overlap (raced).           *)
THEOREM ListSorted == Spec => []Sorted
<1>1. IInv /\ Orderly => Sorted
  <2> SUFFICES ASSUME IInv, Steady, NEW i \in 1 .. Len(list) - 1 PROVE list[i] < list[i + 1]
    BY DEF Orderly, Sorted
  <2>1. Len(list) \in Nat
    BY TypesSplit, Where DEF IInv
  <2>2. i \in 1 .. Len(list) /\ i + 1 \in 1 .. Len(list) /\ i < i + 1
    BY <2>1
  <2> QED
    BY <2>2 DEF Steady, Ranked
<1> QED
  BY <1>1, OrderlyInv, PTL

(* What ba_reorder() lets wait never fills the window: the first frame of  *)
(* the window is the one that is missing; and between calls whatever waits *)
(* has one of the BAWinSize numbers that follow LastIndSeq; until two of   *)
(* the three threads overlap.                                              *)
THEOREM WindowNeverFull == Spec => []WindowFits
<1>1. IInv /\ Orderly => WindowFits
  <2> SUFFICES ASSUME IInv, Steady
               PROVE  /\ Len(list) < BAWinSize
                      /\ ~ Busy /\ status = "Established" =>
                             \A i \in 1 .. Len(list) : InWindow(SN(list[i]))
    BY DEF Orderly, WindowFits
  <2>1. Len(list) < BAWinSize
    BY DEF Steady
  <2>2. ASSUME ~ Busy, status = "Established", NEW i \in 1 .. Len(list)
        PROVE  InWindow(SN(list[i]))
    <3> DEFINE x == list[i]
    <3>1. Counts /\ Progress
      BY TypesSplit DEF IInv
    <3>2. Edge = Last + 1
      BY <2>2 DEF Busy, Edge, Now, Marks, Settles, Follows
    <3>3. Last \in Int /\ SN(Last) = LastIndSeq
      BY <3>1, Where
    <3>4. x \in Int /\ Last + 1 < x /\ x <= Last + BAWinSize
      BY <2>2, <3>1, <3>2, Bounds, Where DEF Steady
    <3> HIDE DEF x
    <3>5. x - Last \in 1 .. BAWinSize /\ x - Last \in Int /\ 0 <= x - Last /\ x - Last < Seqs
      BY <3>3, <3>4, Sizes
    <3>6. SN(SN(x) - SN(Last)) = x - Last
      <4>1. SN(SN(x) - SN(Last)) = SN(x - Last)
        BY <3>3, <3>4, Difference
      <4>2. x - Last \in 0 .. Seqs - 1
        BY <3>5, Sizes
      <4> QED
        BY <4>1, <4>2, Remainder
    <3>7. InWindow(SN(x)) <=> SN(SN(x) - LastIndSeq) \in 1 .. BAWinSize
      BY DEF InWindow, SN
    <3> QED
      BY <3>3, <3>5, <3>6, <3>7 DEF x
  <2> QED
    BY <2>1, <2>2
<1> QED
  BY <1>1, OrderlyInv, PTL

(* Frames are passed up in the sender's order, each once, through losses,  *)
(* retransmissions, block-ack requests, timeouts and the wrap, until two   *)
(* of the three threads overlap; only a retransmission that                *)
(* ba_enqueue_reordering_packet() has no block for follows the frame of    *)
(* that number that waited.                                                *)
THEOREM PassedUpInOrder == Spec => []InOrder
<1>1. Orderly => InOrder
  BY DEF Orderly, Steady, Ranked, InOrder
<1> QED
  BY <1>1, OrderlyInv, PTL

(* When ba_reorder(), bar_process() and the flush timer are done, all that *)
(* waits is ahead of LastIndSeq and the next frame is not among it, until  *)
(* two of the three threads overlap.                                       *)
THEOREM NothingHeldBack == Spec => []NoneHeldBack
<1>1. IInv /\ Orderly => NoneHeldBack
  <2> SUFFICES ASSUME IInv, Steady, ~ Busy, status = "Established", list # <<>>
               PROVE  /\ \A i \in 1 .. Len(list) : Smaller(LastIndSeq, SN(list[i]))
                      /\ ~ StepOne(SN(list[1]), LastIndSeq)
    BY DEF Orderly, NoneHeldBack
  <2>1. Counts /\ Progress
    BY TypesSplit DEF IInv
  <2>2. Edge = Last + 1
    BY DEF Busy, Edge, Now, Marks, Settles, Follows
  <2>3. Last \in Int /\ SN(Last) = LastIndSeq
    BY <2>1, Where
  <2>4. ASSUME NEW i \in 1 .. Len(list)
        PROVE  Smaller(LastIndSeq, SN(list[i])) /\ ~ StepOne(SN(list[i]), LastIndSeq)
    <3> DEFINE x == list[i]
    <3>1. x \in Int /\ Last + 1 < x /\ x <= Last + BAWinSize
      BY <2>1, <2>2, Bounds, Where DEF Steady
    <3> HIDE DEF x
    <3>2. /\ -Half <= Last - x /\ Last - x < Half
          /\ x - Last < Seqs /\ Last - x < Seqs - 1 /\ Last < x /\ x # Last + 1
      BY <2>3, <3>1, Sizes
    <3>3. Smaller(SN(Last), SN(x)) /\ ~ StepOne(SN(x), SN(Last))
      BY <2>3, <3>1, <3>2, SmallerMeans, StepOneMeans
    <3> QED
      BY <2>3, <3>3 DEF x
  <2>5. 1 \in 1 .. Len(list)
    BY <2>1, EmptySeq DEF Counts
  <2> QED
    BY <2>4, <2>5
<1> QED
  BY <1>1, OrderlyInv, PTL
=============================================================================
