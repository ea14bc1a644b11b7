--------------------------- MODULE TokenPoolProofs ---------------------------
(***************************************************************************)
(* Proofs about TokenPool, for every size of the pool: no token is lost,   *)
(* handed out twice or overwritten, and the counters are exact, however    *)
(* token_tx_enq() and token_tx_deq() interleave.  The same holds of        *)
(* TxFlow, whose steps do to the pool what Enq and Deq do.                 *)
(***************************************************************************)
EXTENDS TxFlow, FiniteSetTheorems, TLAPS

(* The slots from h up to, and not including, t.                           *)
In(i, h, t) == IF h <= t THEN h <= i /\ i < t ELSE h <= i \/ i < t

(* Between clearing the slot at the head and moving the head past it the   *)
(* ring begins a slot later, between filling the slot at the tail and      *)
(* moving the tail it ends a slot later.                                   *)
First == IF enq.pc = "cleared" THEN Inc(id_head) ELSE id_head
End == IF deq.pc = "put" THEN Inc(id_tail) ELSE id_tail

Ring == \A i \in Slots : free_id[i] # None <=> In(i, First, End)

Once == \A i, j \in Slots : free_id[i] = free_id[j] /\ free_id[i] # None => i = j

Putting == IF deq.pc = "emptied" THEN {deq.token} ELSE {}
Taking == IF enq.pc = "stored" THEN {enq.token} ELSE {}

Parts ==
    /\ Tokens = InRing \cup held \cup Putting
    /\ InRing \cap held \subseteq Taking
    /\ Putting \cap (InRing \cup held) = {}

Taken ==
    /\ enq.pc # "idle" => enq.token \in Tokens \ air
    /\ enq.pc \in {"taken", "stored"} => free_id[id_head] = enq.token
    /\ enq.pc = "taken" => enq.token \notin held
    /\ enq.pc \in {"stored", "cleared", "moved"} => enq.token \in held
    /\ deq.pc # "idle" => deq.token \in Tokens
    /\ air \subseteq held

(* Calls that have moved a token and not yet counted it.                   *)
Counting == IF enq.pc \in {"stored", "cleared", "moved"} THEN 1 ELSE 0
Uncounting == IF deq.pc # "idle" THEN 1 ELSE 0

Counted ==
    /\ used_token = Cardinality(held) - Counting + Uncounting
    /\ free_token_cnt = N - used_token

IInv == TypeOK /\ Ring /\ Once /\ Parts /\ Taken /\ Counted

-----------------------------------------------------------------------------
LEMMA IncIs ==
    \A i \in Slots : Inc(i) \in Slots /\ Inc(i) = IF i = N THEN 0 ELSE i + 1
<1> TAKE i \in Slots
<1>1. CASE i = N
  BY <1>1, NAssumption, (N + 1) % (N + 1) = 0 DEF Inc, Slots
<1>2. CASE i # N
  <2>1. i + 1 \in 0 .. N
    BY <1>2, NAssumption DEF Slots
  <2> QED
    BY <1>2, <2>1, NAssumption DEF Inc, Slots
<1> QED
  BY <1>1, <1>2

(* While token_tx_deq() holds a token that is not in the ring there is room*)
(* for it: other tokens do not fill the slots.                             *)
LEMMA Room == ASSUME IInv, deq.pc = "emptied" PROVE Inc(id_tail) # First
<1> SUFFICES ASSUME Inc(id_tail) = First PROVE FALSE
  OBVIOUS
<1> DEFINE S == Slots \ {id_tail}
           U == Tokens \ {deq.token}
           f == [i \in S |-> free_id[i]]
<1>1. id_tail \in Slots /\ End = id_tail /\ free_id \in [Slots -> Tokens \cup {None}]
  BY DEF IInv, TypeOK, End
<1>2. \A i \in S : In(i, First, id_tail)
  BY <1>1, IncIs, NAssumption DEF In, Slots
<1>3. \A i \in S : free_id[i] \in U
  BY <1>1, <1>2 DEF IInv, Ring, Parts, Putting, InRing
<1>4. IsFiniteSet(S) /\ Cardinality(S) = N
  <2>1. IsFiniteSet(Slots) /\ Cardinality(Slots) = N + 1
    BY FS_Interval, NAssumption DEF Slots
  <2>2. Cardinality(Slots \ {id_tail}) = Cardinality(Slots) - 1 /\ IsFiniteSet(Slots \ {id_tail})
    BY <1>1, <2>1, FS_RemoveElement
  <2> QED
    BY <2>1, <2>2, NAssumption
<1>5. deq.token \in Tokens
  BY DEF IInv, Taken
<1>6. IsFiniteSet(U) /\ Cardinality(U) = N - 1
  <2>1. IsFiniteSet(1 .. N) /\ Cardinality(1 .. N) = N
    BY FS_Interval, NAssumption
  <2> QED
    BY <1>5, <2>1, FS_RemoveElement, NAssumption DEF Tokens
<1>7. f \in [S -> U]
  BY <1>3
<1>8. PICK x, y \in S : x # y /\ f[x] = f[y]
  <2> HIDE DEF S, U, f
  <2> QED
    BY <1>4, <1>6, <1>7, FS_PigeonHole, NAssumption
<1>9. free_id[x] = free_id[y] /\ free_id[x] # None
  BY <1>3, <1>8 DEF Tokens, None
<1> QED
  BY <1>8, <1>9 DEF IInv, Once

LEMMA InitInv == Init => IInv
<1> SUFFICES ASSUME Init PROVE IInv
  OBVIOUS
<1> USE NAssumption DEF Init, Idle, None
<1>1. TypeOK
  BY DEF TypeOK, Slots, Tokens
<1>2. Ring
  BY DEF Ring, In, First, End, Slots
<1>3. Once
  BY DEF Once, Slots
<1>4. Parts
  <2>1. Tokens \subseteq InRing
    <3> SUFFICES ASSUME NEW t \in Tokens PROVE t \in InRing
      OBVIOUS
    <3>1. t \in 1 .. N /\ t - 1 \in Slots /\ t - 1 # N
      BY DEF Tokens, Slots
    <3>2. free_id[t - 1] = t
      BY <3>1
    <3> QED
      BY <3>1, <3>2 DEF InRing
  <2>2. InRing \subseteq Tokens
    BY DEF InRing, Tokens, Slots
  <2> QED
    BY <2>1, <2>2 DEF Parts, Putting, Taking
<1>5. Taken
  BY DEF Taken
<1>6. Counted
  BY FS_EmptySet DEF Counted, Counting, Uncounting
<1> QED
  BY <1>1, <1>2, <1>3, <1>4, <1>5, <1>6 DEF IInv

-----------------------------------------------------------------------------
LEMMA HeldFinite ==
    ASSUME IInv
    PROVE  /\ IsFiniteSet(held) /\ Cardinality(held) \in 0 .. N
           /\ \A t \in held : Cardinality(held \ {t}) = Cardinality(held) - 1
           /\ \A t \in Tokens \ held : Cardinality(held \cup {t}) = Cardinality(held) + 1
<1>1. IsFiniteSet(Tokens) /\ Cardinality(Tokens) = N
  BY FS_Interval, NAssumption DEF Tokens
<1>2. IsFiniteSet(held) /\ Cardinality(held) <= N
  BY <1>1, FS_Subset DEF IInv, TypeOK
<1>3. Cardinality(held) \in 0 .. N
  BY <1>2, FS_CardinalityType, NAssumption
<1> QED
  BY <1>2, <1>3, FS_AddElement, FS_RemoveElement

(* The step of token_tx_enq() that reads the head.                         *)
LEMMA EnqTakeInv == IInv /\ EnqTake => IInv'
<1> SUFFICES ASSUME IInv, EnqTake PROVE IInv'
  OBVIOUS
<1>1. free_id[id_head] \in InRing /\ free_id[id_head] \in Tokens
  BY DEF EnqTake, InRing, IInv, TypeOK
<1>2. free_id[id_head] \notin held /\ free_id[id_head] \notin air
  BY <1>1 DEF IInv, Parts, Taking, Taken, EnqTake
<1> QED
  BY <1>1, <1>2 DEF EnqTake, IInv, TypeOK, Ring, Once, Parts, Taken, Counted, First, End,
     Putting, Taking, Counting, Uncounting, InRing, Tokens, Slots, None

LEMMA EnqStoreInv == IInv /\ EnqStore => IInv'
<1> SUFFICES ASSUME IInv, EnqStore PROVE IInv'
  OBVIOUS
<1>1. enq.token \in Tokens \ held /\ enq.token \in InRing
  BY DEF EnqStore, IInv, Taken, TypeOK, InRing, Tokens, None
<1>2. TypeOK' /\ Ring' /\ Once'
  BY <1>1 DEF EnqStore, IInv, TypeOK, Ring, Once, First, End
<1>3. Parts' /\ Taken'
  BY <1>1 DEF EnqStore, IInv, TypeOK, Parts, Taken, Putting, Taking, InRing
<1>4. Counted'
  BY <1>1, HeldFinite DEF EnqStore, IInv, TypeOK, Counted, Counting, Uncounting
<1> QED
  BY <1>2, <1>3, <1>4 DEF IInv

LEMMA EnqClearInv == IInv /\ EnqClear => IInv'
<1> SUFFICES ASSUME IInv, EnqClear PROVE IInv'
  OBVIOUS
<1>1. /\ free_id[id_head] = enq.token /\ enq.token \in Tokens /\ enq.token \in held
      /\ id_head \in Slots /\ free_id \in [Slots -> Tokens \cup {None}]
  BY DEF EnqClear, IInv, Taken, TypeOK
<1>2. First = id_head /\ First' = Inc(id_head) /\ End' = End /\ End \in Slots
  BY IncIs DEF EnqClear, First, End, IInv, TypeOK
<1>3. TypeOK'
  BY DEF EnqClear, IInv, TypeOK
<1>4. InRing' = InRing \ {enq.token}
  BY <1>1 DEF EnqClear, InRing, IInv, Once, Tokens, None
<1>5. Ring'
  <2>1. In(id_head, id_head, End)
    BY <1>1, <1>2 DEF IInv, Ring, Tokens, None
  <2>2. Inc(id_head) = IF id_head = N THEN 0 ELSE id_head + 1
    BY <1>1, IncIs
  <2>3. \A i \in Slots : In(i, Inc(id_head), End) <=> In(i, id_head, End) /\ i # id_head
    <3> DEFINE j == Inc(id_head)
    <3>1. id_head \in 0 .. N /\ End \in 0 .. N /\ j = IF id_head = N THEN 0 ELSE id_head + 1
      BY <1>1, <1>2, <2>2 DEF Slots
    <3> HIDE DEF j
    <3>2. \A i \in 0 .. N : In(i, j, End) <=> In(i, id_head, End) /\ i # id_head
      BY <2>1, <3>1, NAssumption DEF In
    <3> QED
      BY <3>2 DEF Slots, j
  <2> QED
    BY <1>1, <1>2, <2>3 DEF EnqClear, IInv, Ring
<1>6. Once'
  BY <1>1 DEF EnqClear, IInv, Once
<1>7. Parts'
  BY <1>1, <1>4 DEF EnqClear, IInv, Parts, Putting, Taking
<1>8. Taken' /\ Counted'
  BY <1>1 DEF EnqClear, IInv, Taken, Counted, Counting, Uncounting
<1> QED
  BY <1>3, <1>5, <1>6, <1>7, <1>8 DEF IInv

LEMMA EnqMoveInv == IInv /\ EnqMove => IInv'
<1> SUFFICES ASSUME IInv, EnqMove PROVE IInv'
  OBVIOUS
<1>1. TypeOK' /\ First' = First /\ End' = End
  BY IncIs DEF EnqMove, IInv, TypeOK, First, End
<1> QED
  BY <1>1 DEF EnqMove, IInv, Ring, Once, Parts, Taken, Counted, Putting, Taking, Counting,
     Uncounting, InRing

LEMMA EnqCountInv == IInv /\ EnqCount => IInv'
<1> SUFFICES ASSUME IInv, EnqCount PROVE IInv'
  OBVIOUS
<1>1. Ring' /\ Once' /\ Parts' /\ Taken'
  BY DEF EnqCount, IInv, TypeOK, Ring, Once, Parts, Taken, First, End, Putting, Taking, InRing,
     Idle
<1>2. Counted'
  BY HeldFinite, NAssumption DEF EnqCount, IInv, TypeOK, Counted, Counting, Uncounting, Idle
<1>3. used_token' \in 0 .. N + 1 /\ free_token_cnt' \in -1 .. N
  <2>1. held' = held /\ Counting' = 0 /\ Uncounting' \in {0, 1}
    BY DEF EnqCount, Idle, Counting, Uncounting
  <2> QED
    BY <1>2, <2>1, HeldFinite, NAssumption DEF Counted
<1>4. TypeOK'
  BY <1>3, NAssumption DEF EnqCount, IInv, TypeOK, Taken, Idle, Slots, None
<1> QED
  BY <1>1, <1>2, <1>4 DEF IInv

(* A token that is accepted has a packet the hardware has been given.      *)
LEMMA DeqTakeInv == ASSUME IInv, NEW t \in Tokens, DeqTake(t) PROVE IInv'
<1>1. t \in held /\ t \in air /\ t \notin InRing /\ (enq.pc # "idle" => t # enq.token)
  BY DEF DeqTake, Accepted, Reported, IInv, Taken, Parts, Taking
<1>2. Ring' /\ Once'
  BY DEF DeqTake, IInv, Ring, Once, First, End
<1>3. Parts' /\ Taken'
  BY <1>1 DEF DeqTake, IInv, TypeOK, Parts, Taken, Putting, Taking, InRing
<1>4. Counted'
  BY <1>1, HeldFinite DEF DeqTake, IInv, TypeOK, Counted, Counting, Uncounting
<1>5. TypeOK'
  BY DEF DeqTake, IInv, TypeOK, Tokens, Slots
<1> QED
  BY <1>2, <1>3, <1>4, <1>5 DEF IInv

LEMMA DeqPutInv == IInv /\ DeqPut => IInv'
<1> SUFFICES ASSUME IInv, DeqPut PROVE IInv'
  OBVIOUS
<1>1. /\ deq.token \in Tokens /\ deq.token \notin InRing \cup held /\ deq.token # None
      /\ id_tail \in Slots /\ free_id \in [Slots -> Tokens \cup {None}] /\ First \in Slots
  BY IncIs DEF DeqPut, IInv, Taken, Parts, Putting, TypeOK, First, Tokens, None
<1>2. First' = First /\ End = id_tail /\ End' = Inc(id_tail) /\ Inc(id_tail) # First
  BY Room DEF DeqPut, First, End
<1>3. free_id[id_tail] = None
  BY <1>1, <1>2 DEF IInv, Ring, In, Slots
<1>4. InRing' = InRing \cup {deq.token}
  BY <1>1, <1>3 DEF DeqPut, InRing
<1>5. Ring'
  <2> DEFINE h == First
             j == Inc(id_tail)
  <2>1. /\ h \in 0 .. N /\ id_tail \in 0 .. N /\ j # h
        /\ j = IF id_tail = N THEN 0 ELSE id_tail + 1
    BY <1>1, <1>2, IncIs DEF Slots
  <2> HIDE DEF h, j
  <2>2. \A i \in 0 .. N : In(i, h, j) <=> In(i, h, id_tail) \/ i = id_tail
    BY <2>1, NAssumption DEF In
  <2> QED
    BY <1>1, <1>2, <2>2 DEF DeqPut, IInv, Ring, Slots, h, j
<1>6. Once'
  BY <1>1, <1>3 DEF DeqPut, IInv, Once, InRing
<1>7. Parts'
  BY <1>1, <1>4 DEF DeqPut, IInv, Parts, Putting, Taking
<1>8. TypeOK'
  BY <1>1 DEF DeqPut, IInv, TypeOK
<1>9. Taken'
  BY <1>1, <1>3 DEF DeqPut, IInv, Taken, TypeOK, Tokens, None
<1>10. Counted'
  BY DEF DeqPut, IInv, Counted, Counting, Uncounting
<1> QED
  BY <1>5, <1>6, <1>7, <1>8, <1>9, <1>10 DEF IInv

LEMMA DeqMoveInv == IInv /\ DeqMove => IInv'
<1> SUFFICES ASSUME IInv, DeqMove PROVE IInv'
  OBVIOUS
<1>1. TypeOK' /\ First' = First /\ End' = End
  BY IncIs DEF DeqMove, IInv, TypeOK, First, End
<1> QED
  BY <1>1 DEF DeqMove, IInv, Ring, Once, Parts, Taken, Counted, Putting, Taking, Counting,
     Uncounting, InRing

(* used_token does not stop at 0: the token that has been given back is    *)
(* still counted.                                                          *)
LEMMA DeqCountInv == IInv /\ DeqCount => IInv'
<1> SUFFICES ASSUME IInv, DeqCount PROVE IInv'
  OBVIOUS
<1>1. Ring' /\ Once' /\ Parts' /\ Taken'
  BY DEF DeqCount, IInv, TypeOK, Ring, Once, Parts, Taken, First, End, Putting, Taking, InRing,
     Idle
<1>2. Counting \in {0, 1} /\ Uncounting = 1 /\ Cardinality(held) >= Counting
  <2>1. CASE Counting = 0
    BY <2>1, HeldFinite DEF DeqCount, Uncounting
  <2>2. CASE Counting # 0
    <3>1. enq.token \in held /\ Counting = 1
      BY <2>2 DEF Counting, IInv, Taken
    <3>2. Cardinality(held) # 0
      BY <3>1, HeldFinite, FS_EmptySet
    <3> QED
      BY <3>1, <3>2, HeldFinite DEF DeqCount, Uncounting
  <2> QED
    BY <2>1, <2>2
<1>3. used_token > 0 /\ Counting' = Counting /\ Uncounting' = 0 /\ held' = held
  BY <1>2, HeldFinite DEF DeqCount, IInv, Counted, Counting, Uncounting, Idle
<1>4. Counted'
  BY <1>2, <1>3, HeldFinite, NAssumption DEF DeqCount, IInv, TypeOK, Counted
<1>5. used_token' \in 0 .. N + 1 /\ free_token_cnt' \in -1 .. N
  BY <1>2, <1>3, <1>4, HeldFinite, NAssumption DEF Counted
<1>6. TypeOK'
  BY <1>5, NAssumption DEF DeqCount, IInv, TypeOK, Idle, Slots, None
<1> QED
  BY <1>1, <1>4, <1>6 DEF IInv

-----------------------------------------------------------------------------
LEMMA NextInv == IInv /\ [Enq \/ Deq]_pool => IInv'
<1>1. ASSUME IInv, UNCHANGED pool PROVE IInv'
  <2>1. InRing' = InRing /\ First' = First /\ End' = End /\ TypeOK'
    BY <1>1 DEF pool, InRing, First, End, IInv, TypeOK
  <2> QED
    BY <1>1, <2>1 DEF pool, IInv, Ring, Once, Parts, Taken, Counted, Putting, Taking, Counting,
       Uncounting
<1> QED
  BY <1>1, EnqTakeInv, EnqStoreInv, EnqClearInv, EnqMoveInv, EnqCountInv, DeqTakeInv, DeqPutInv,
     DeqMoveInv, DeqCountInv DEF Enq, Deq

LEMMA PoolInv == Spec => []IInv
<1> QED
  BY InitInv, NextInv, PTL DEF Spec

(* What TxFlow does to the pool is a step of token_tx_enq(), of            *)
(* token_tx_deq(), or nothing.                                             *)
LEMMA FlowStep == [FlowNext]_vars => [Enq \/ Deq]_pool
<1> USE DEF pool
<1>1. Task => [Enq \/ Deq]_pool
  BY DEF Task, TaskStart, TaskLook, Recheck, SetLow, SetHigh, Send, Sending, Enq
<1>2. Handler => [Enq \/ Deq]_pool
  BY DEF Handler, EvStart, PutBack, EvRead, EvCount, EvClear, EvWake, Deq
<1>3. ASSUME NEW t \in Tokens, Report(t) PROVE Deq
  BY <1>3 DEF Report, Deq
<1> QED
  BY <1>1, <1>2, <1>3 DEF FlowNext, Arrive, vars

THEOREM FlowUsesPool == FlowSpec => Spec
<1>1. FlowInit => Init
  BY DEF FlowInit
<1> QED
  BY <1>1, FlowStep, PTL DEF FlowSpec, Spec

-----------------------------------------------------------------------------
(* No token is lost, handed out twice, or in the ring twice.               *)
THEOREM TokensConserved == FlowSpec => []Conserved
<1>1. IInv => Conserved
  BY DEF IInv, Once, Parts, Putting, Taking, Conserved
<1> QED
  BY <1>1, FlowUsesPool, PoolInv, PTL

(* token_tx_enq() never finds a packet under the token it takes.           *)
THEOREM TokensNotReplaced == FlowSpec => []NeverReplaced
<1>1. IInv => NeverReplaced
  BY DEF IInv, Taken, NeverReplaced
<1> QED
  BY <1>1, FlowUsesPool, PoolInv, PTL

(* token_tx_deq() always finds the slot at the tail empty.                 *)
THEOREM TokensNotOverwritten == FlowSpec => []NeverOverwritten
<1>1. IInv => NeverOverwritten
  <2> SUFFICES ASSUME IInv, deq.pc = "emptied" PROVE free_id[id_tail] = None
    BY DEF NeverOverwritten
  <2>1. id_tail \in Slots /\ First \in Slots /\ End = id_tail
    BY IncIs DEF IInv, TypeOK, First, End
  <2> QED
    BY <2>1 DEF IInv, Ring, In, Slots
<1> QED
  BY <1>1, FlowUsesPool, PoolInv, PTL

(* Between calls the counters are those of the tokens.                     *)
THEOREM CountersAreExact == FlowSpec => []CountersExact
<1>1. IInv => CountersExact
  BY HeldFinite, NAssumption DEF IInv, Counted, Counting, Uncounting, CountersExact
<1> QED
  BY <1>1, FlowUsesPool, PoolInv, PTL

-----------------------------------------------------------------------------
(* The task takes a token only after it has seen at least low_water_mark   *)
(* of them, and nobody else takes any; a token that is back in the ring and*)
(* not yet counted is not among them.                                      *)
Seen ==
    /\ task # "sending" => enq.pc = "idle"
    /\ free_token_cnt >= 0
    /\ task \in {"high", "send", "sending"} => free_token_cnt >= 1

Waiting ==
    /\ left \in 0 .. MaxPkts /\ queued \in 0 .. MaxPkts /\ left + queued <= MaxPkts
    /\ task \in {"idle", "look", "low", "lowAgain", "again", "high", "send", "sending"}
    /\ ev \in {"idle", "run", "count", "clear", "wake"}
    /\ task \in {"low", "lowAgain", "again", "high", "send"} => queued > 0

Flags == sched \in BOOLEAN /\ low \in BOOLEAN

LEMMA FlowInitInv == FlowInit => Seen /\ Waiting /\ Flags
<1> SUFFICES ASSUME FlowInit PROVE Seen /\ Waiting /\ Flags
  OBVIOUS
<1>1. Seen
  <2>1. free_token_cnt = N /\ enq = Idle /\ task = "idle"
    BY DEF FlowInit, Init
  <2> QED
    BY <2>1, NAssumption DEF Seen, Idle
<1>2. left = MaxPkts /\ queued = 0 /\ task = "idle" /\ ev = "idle"
  BY DEF FlowInit
<1>3. MaxPkts \in Nat
  BY MarksAssumption
<1>4. Waiting
  BY <1>2, <1>3 DEF Waiting
<1> QED
  BY <1>1, <1>4 DEF FlowInit, Flags

LEMMA FlagsInv == Flags /\ [FlowNext]_vars => Flags'
<1> SUFFICES ASSUME Flags, [FlowNext]_vars PROVE Flags'
  OBVIOUS
<1> USE DEF Flags
<1>1. ASSUME Arrive \/ UNCHANGED vars PROVE Flags'
  BY <1>1 DEF Arrive, vars, flow
<1>2. ASSUME Task PROVE Flags'
  BY <1>2 DEF Task, TaskStart, TaskLook, Recheck, SetLow, SetHigh, Send, Sending
<1>3. ASSUME Handler PROVE Flags'
  BY <1>3 DEF Handler, EvStart, PutBack, EvRead, EvCount, EvClear, EvWake, flow
<1>4. ASSUME NEW t \in Tokens, Report(t) PROVE Flags'
  BY <1>4 DEF Report, flow
<1> QED
  BY <1>1, <1>2, <1>3, <1>4 DEF FlowNext

LEMMA SeenInv == IInv /\ Seen /\ [FlowNext]_vars => Seen'
<1> SUFFICES ASSUME IInv, Seen, [FlowNext]_vars PROVE Seen'
  OBVIOUS
<1>1. free_token_cnt \in Int
  BY DEF IInv, TypeOK
<1> USE <1>1, MarksAssumption DEF Seen
<1>2. ASSUME Arrive \/ UNCHANGED vars PROVE Seen'
  BY <1>2 DEF Arrive, vars, pool, flow
<1>3. ASSUME TaskStart \/ SetLow \/ SetHigh PROVE Seen'
  BY <1>3 DEF TaskStart, SetLow, SetHigh, AfterLow, pool
<1>4. ASSUME TaskLook \/ Recheck PROVE Seen'
  <2>1. enq' = enq /\ free_token_cnt' = free_token_cnt /\ task # "sending"
    BY <1>4 DEF TaskLook, Recheck, pool
  <2>2. task' \in {"high", "send", "sending"} => free_token_cnt \notin 0 .. Low - 1
    BY <1>4 DEF TaskLook, Recheck, Short
  <2>3. Low \in Nat \ {0}
    BY MarksAssumption
  <2> QED
    BY <2>1, <2>2, <2>3
<1>5. ASSUME Send PROVE Seen'
  BY <1>5 DEF Send, EnqTake
<1>6. ASSUME Sending PROVE Seen'
  <2>1. CASE EnqCount
    BY <1>6, <2>1 DEF Sending, EnqCount, Idle
  <2>2. CASE ~ EnqCount
    BY <1>6, <2>2 DEF Sending, EnqStore, EnqClear, EnqMove
  <2> QED
    BY <2>1, <2>2
<1>7. ASSUME EvStart \/ EvRead \/ EvCount \/ EvClear \/ EvWake PROVE Seen'
  BY <1>7 DEF EvStart, EvRead, EvCount, EvClear, EvWake, pool
<1>8. ASSUME PutBack PROVE Seen'
  BY <1>8 DEF PutBack, DeqPut, DeqMove, DeqCount, flow
<1>9. ASSUME NEW t \in Tokens, Report(t) PROVE Seen'
  BY <1>9 DEF Report, DeqTake, flow
<1> QED
  BY <1>2, <1>3, <1>4, <1>5, <1>6, <1>7, <1>8, <1>9 DEF FlowNext, Task, Handler

LEMMA WaitingInv == Waiting /\ [FlowNext]_vars => Waiting'
<1> SUFFICES ASSUME Waiting, [FlowNext]_vars PROVE Waiting'
  OBVIOUS
<1>1. MaxPkts \in Nat
  BY MarksAssumption
<1> USE DEF Waiting
<1>2. ASSUME Arrive \/ UNCHANGED vars PROVE Waiting'
  <2>1. /\ task' = task /\ ev' = ev
        /\ \/ left > 0 /\ left' = left - 1 /\ queued' = queued + 1
           \/ left' = left /\ queued' = queued
    BY <1>2 DEF Arrive, vars, flow
  <2> QED
    BY <1>1, <2>1
<1>3. ASSUME TaskStart \/ SetLow \/ SetHigh PROVE Waiting'
  BY <1>3 DEF TaskStart, SetLow, SetHigh, AfterLow
<1>4. ASSUME TaskLook \/ Recheck PROVE Waiting'
  <2>1. left' = left /\ queued' = queued /\ ev' = ev
    BY <1>4 DEF TaskLook, Recheck
  <2>2. /\ task' \in {"idle", "low", "again", "send", "lowAgain", "high"}
        /\ task' # "idle" => queued # 0
    BY <1>4 DEF TaskLook, Recheck
  <2> QED
    BY <1>1, <2>1, <2>2
<1>5. ASSUME Send \/ Sending PROVE Waiting'
  <2>1. /\ left' = left /\ ev' = ev /\ task' \in {"look", "sending", task}
        /\ queued' = queued \/ (queued > 0 /\ queued' = queued - 1 /\ task' = "sending")
    BY <1>5 DEF Send, Sending
  <2> QED
    BY <1>1, <1>5, <2>1 DEF Sending, Send, EnqStore, EnqClear, EnqMove, EnqCount
<1>6. ASSUME EvStart \/ EvRead \/ EvCount \/ EvClear \/ EvWake PROVE Waiting'
  BY <1>6 DEF EvStart, EvRead, EvCount, EvClear, EvWake
<1>7. ASSUME PutBack \/ \E t \in Tokens : Report(t) PROVE Waiting'
  BY <1>7 DEF PutBack, Report, flow
<1> QED
  BY <1>2, <1>3, <1>4, <1>5, <1>6, <1>7 DEF FlowNext, Task, Handler

LEMMA FlowInv == FlowSpec => [](IInv /\ Seen /\ Waiting /\ Flags)
<1>1. FlowInit => IInv
  BY InitInv DEF FlowInit
<1>2. IInv /\ [FlowNext]_vars => IInv'
  BY FlowStep, NextInv
<1> QED
  BY <1>1, <1>2, FlowInitInv, SeenInv, WaitingInv, FlagsInv, PTL DEF FlowSpec

(* Types, and the counters' bounds: the free count is at most one short.   *)
THEOREM FlowTypes == FlowSpec => []FlowTypeOK
<1>1. IInv /\ Waiting /\ Flags => FlowTypeOK
  BY DEF IInv, Waiting, Flags, FlowTypeOK
<1> QED
  BY <1>1, FlowInv, PTL

(* token_tx_enq(), whose result nobody looks at, always finds a token: the *)
(* checks of fp_check_tx_resource() leave one.                             *)
THEOREM TokenIsThere == FlowSpec => []TokenThere
<1>1. IInv /\ Seen => TokenThere
  <2> SUFFICES ASSUME IInv, Seen, task = "send" PROVE free_id[id_head] # None
    BY DEF TokenThere
  <2>1. Cardinality(held) + Uncounting < N /\ First = id_head /\ id_head \in Slots
    BY HeldFinite, NAssumption DEF Seen, IInv, TypeOK, Counted, Counting, Uncounting, First
  <2>2. InRing # {}
    <3> SUFFICES ASSUME InRing = {} PROVE FALSE
      OBVIOUS
    <3>1. Cardinality(Tokens) = N
      BY FS_Interval, NAssumption DEF Tokens
    <3>2. CASE deq.pc = "emptied"
      <4>1. Tokens = held \cup {deq.token} /\ deq.token \in Tokens \ held /\ Uncounting = 1
        BY <3>2 DEF IInv, Parts, Putting, Taken, Uncounting
      <4>2. Cardinality(Tokens) = Cardinality(held) + 1
        BY <4>1, HeldFinite
      <4> QED
        BY <2>1, <3>1, <4>1, <4>2, HeldFinite, NAssumption
    <3>3. CASE deq.pc # "emptied"
      <4>1. Tokens = held
        BY <3>3 DEF IInv, Parts, Putting
      <4> QED
        BY <2>1, <3>1, <4>1, HeldFinite, NAssumption DEF Uncounting
    <3> QED
      BY <3>2, <3>3
  <2>3. PICK i \in Slots : In(i, id_head, End)
    BY <2>1, <2>2 DEF InRing, IInv, Ring
  <2>4. End \in Slots
    BY IncIs DEF IInv, TypeOK, End
  <2>5. In(id_head, id_head, End)
    BY <2>1, <2>3, <2>4, NAssumption DEF In, Slots
  <2> QED
    BY <2>1, <2>5 DEF IInv, Ring
<1> QED
  BY <1>1, FlowInv, PTL
=============================================================================
