------------------------------ MODULE TokenPool ------------------------------
(***************************************************************************)
(* The transmit token pool of mt_wifi (token.c): a ring of free token      *)
(* numbers with N + 1 slots, filled at the tail and emptied at the head    *)
(* under two different locks, and the packet that each token stands for.   *)
(*                                                                         *)
(* token_tx_enq() runs under enq_lock and token_tx_deq() under deq_lock,   *)
(* so there is one of each at a time; a step here is one access to what    *)
(* the two share.  Accesses happen in program order (neither function has  *)
(* a barrier against the other lock).                                      *)
(***************************************************************************)
EXTENDS Integers, FiniteSets

CONSTANT N          \* pkt_tkid_cnt

ASSUME NAssumption == N \in Nat \ {0}

Tokens == 1 .. N
None == 0           \* pkt_tkid_invalid
Slots == 0 .. N     \* pkt_tkid_aray of them

VARIABLES
    free_id,        \* the ring
    id_head,        \* where the next token is taken
    id_tail,        \* where the next token is put back
    held,           \* tokens whose pkt_buf is set
    free_token_cnt, \* atomic counters
    used_token,     \* used_token_per_band
    enq, deq,       \* progress of the two functions
    air             \* tokens the hardware will report

pool == <<free_id, id_head, id_tail, held, free_token_cnt, used_token, enq, deq, air>>

Idle == [pc |-> "idle", token |-> None]

Init ==
    /\ free_id = [i \in Slots |-> IF i = N THEN None ELSE i + 1]
    /\ id_head = 0 /\ id_tail = N
    /\ held = {} /\ free_token_cnt = N /\ used_token = 0
    /\ enq = Idle /\ deq = Idle /\ air = {}

(* INC_INDEX(): the ring has a slot more than there are tokens.            *)
Inc_Unwrapped(i) == i + 1                 \* mutant
Inc(i) == (i + 1) % (N + 1)

-----------------------------------------------------------------------------
(* token_tx_enq(): take the token at the head, give it the packet.         *)
EnqTake ==
    /\ enq.pc = "idle" /\ free_id[id_head] # None
    /\ enq' = [pc |-> "taken", token |-> free_id[id_head]]
    /\ UNCHANGED <<free_id, id_head, id_tail, held, free_token_cnt, used_token, deq, air>>

EnqStore ==
    /\ enq.pc = "taken"
    /\ held' = held \cup {enq.token}
    /\ enq' = [enq EXCEPT !.pc = "stored"]
    /\ UNCHANGED <<free_id, id_head, id_tail, free_token_cnt, used_token, deq, air>>

EnqClear ==
    /\ enq.pc = "stored"
    /\ free_id' = [free_id EXCEPT ![id_head] = None]
    /\ enq' = [enq EXCEPT !.pc = "cleared"]
    /\ UNCHANGED <<id_head, id_tail, held, free_token_cnt, used_token, deq, air>>

EnqMove ==
    /\ enq.pc = "cleared"
    /\ id_head' = Inc(id_head)
    /\ enq' = [enq EXCEPT !.pc = "moved"]
    /\ UNCHANGED <<free_id, id_tail, held, free_token_cnt, used_token, deq, air>>

(* The counters, and the packet goes to the hardware.                      *)
EnqCount ==
    /\ enq.pc = "moved"
    /\ free_token_cnt' = free_token_cnt - 1
    /\ used_token' = used_token + 1
    /\ air' = air \cup {enq.token}
    /\ enq' = Idle
    /\ UNCHANGED <<free_id, id_head, id_tail, held, deq>>

-----------------------------------------------------------------------------
(* token_tx_deq(): a reported token that has no packet is refused, which   *)
(* is what happens to one that is reported twice.                          *)
Accepted_Any(t) == TRUE                     \* mutant
Accepted(t) == t \in held

(* The firmware reports the packets that are on the air, and reports again *)
(* a token that has come back.  A second report that comes when the token  *)
(* is on the air with its next packet is, to the driver, that packet's     *)
(* own: the packet is freed early, and its own report becomes the second.  *)
(* Left out is a second report that comes while token_tx_enq() takes that  *)
(* very token: deq counts it as returned before enq counts it as used.     *)
Reported == air \cup (Tokens \ (held \cup {enq.token}))

DeqTake(t) ==
    /\ deq.pc = "idle" /\ t \in Reported /\ Accepted(t)
    /\ held' = held \ {t} /\ air' = air \ {t}
    /\ deq' = [pc |-> "emptied", token |-> t]
    /\ UNCHANGED <<free_id, id_head, id_tail, free_token_cnt, used_token, enq>>

DeqPut ==
    /\ deq.pc = "emptied"
    /\ free_id' = [free_id EXCEPT ![id_tail] = deq.token]
    /\ deq' = [deq EXCEPT !.pc = "put"]
    /\ UNCHANGED <<id_head, id_tail, held, free_token_cnt, used_token, enq, air>>

DeqMove ==
    /\ deq.pc = "put"
    /\ id_tail' = Inc(id_tail)
    /\ deq' = [deq EXCEPT !.pc = "moved"]
    /\ UNCHANGED <<free_id, id_head, held, free_token_cnt, used_token, enq, air>>

DeqCount ==
    /\ deq.pc = "moved"
    /\ free_token_cnt' = free_token_cnt + 1
    /\ used_token' = IF used_token > 0 THEN used_token - 1 ELSE 0
    /\ deq' = Idle
    /\ UNCHANGED <<free_id, id_head, id_tail, held, enq, air>>

Enq == EnqTake \/ EnqStore \/ EnqClear \/ EnqMove \/ EnqCount
Deq == (\E t \in Tokens : DeqTake(t)) \/ DeqPut \/ DeqMove \/ DeqCount

Spec == Init /\ [][Enq \/ Deq]_pool

-----------------------------------------------------------------------------
TypeOK ==
    /\ free_id \in [Slots -> Tokens \cup {None}]
    /\ id_head \in Slots /\ id_tail \in Slots
    /\ held \subseteq Tokens /\ air \subseteq Tokens
    /\ free_token_cnt \in -1 .. N /\ used_token \in 0 .. N + 1
    /\ enq \in [pc : {"idle", "taken", "stored", "cleared", "moved"}, token : Slots]
    /\ deq \in [pc : {"idle", "emptied", "put", "moved"}, token : Slots]

InRing == {free_id[i] : i \in Slots} \ {None}

(* A token that is taken stands for no other packet (token_tx_enq() would  *)
(* release that packet under the hardware's hands).                        *)
NeverReplaced == enq.pc = "taken" => enq.token \notin held

(* A token that is put back overwrites no other.                           *)
NeverOverwritten == deq.pc = "emptied" => free_id[id_tail] = None

(* A token is in the ring once, or has a packet, or is being put back.     *)
Conserved ==
    /\ \A i, j \in Slots : free_id[i] = free_id[j] /\ free_id[i] # None => i = j
    /\ Tokens = InRing \cup held \cup (IF deq.pc = "emptied" THEN {deq.token} ELSE {})
    /\ enq.pc # "stored" => InRing \cap held = {}

(* Between calls the counters tell how many tokens are free and used.      *)
CountersExact ==
    enq.pc = "idle" /\ deq.pc = "idle" =>
        used_token = Cardinality(held) /\ free_token_cnt = N - Cardinality(held)
=============================================================================
