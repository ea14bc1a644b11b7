------------------------------ MODULE NmbmWalk ------------------------------
(***************************************************************************)
(* The block walks of nmbm-core.c as the loops they are: one step is one   *)
(* turn of a loop.  NmbmFlash states what they compute as sets of blocks   *)
(* (WalkDesc, TryReserve); here TLC runs the loops on every block state    *)
(* table, start, count and limit of a small chip and compares.             *)
(***************************************************************************)
EXTENDS NmbmFlash

CONSTANT MaxCount       \* bound on the number of blocks to be skipped

ASSUME MaxCountAssumption == MaxCount \in Nat

VARIABLES
    st,             \* the block states
    start, count, limit,    \* the arguments of the call
    up,             \* TRUE: nmbm_try_reserve_blocks(), FALSE: a walk down
    spare,          \* nblocks of nmbm_try_reserve_blocks()
    ba, nblock,     \* the locals of the walk
    result          \* Running, or the block found, or None

input == <<st, start, count, limit, up>>
vars == <<input, spare, ba, nblock, result>>

Running == -2

(* "if (limit >= ni->block_count)"                                         *)
Clamped == Least(limit, BlockCount - 1)

Init == /\ st \in [PB -> BlockStates]
        /\ start \in PB
        /\ count \in 0 .. MaxCount
        /\ limit \in 0 .. BlockCount + 1
        /\ up \in BOOLEAN
        /\ spare = count
        /\ ba = start /\ nblock = count /\ result = Running

Left == IF st[ba] = "good" THEN nblock - 1 ELSE nblock

TurnDesc_ToLimit ==          \* mutant: looks at the limit too
    /\ result = Running /\ ~ up /\ ba >= Clamped
    /\ nblock' = Left
    /\ IF Left < 0 THEN result' = ba /\ UNCHANGED ba
                   ELSE ba' = ba - 1 /\ UNCHANGED result
    /\ UNCHANGED <<input, spare>>

(* nmbm_block_walk_desc()                                                  *)
TurnDesc ==
    /\ result = Running /\ ~ up /\ ba > Clamped
    /\ nblock' = Left
    /\ IF Left < 0 THEN result' = ba /\ UNCHANGED ba
                   ELSE ba' = ba - 1 /\ UNCHANGED result
    /\ UNCHANGED <<input, spare>>

EndDesc ==
    /\ result = Running /\ ~ up /\ ba <= Clamped
    /\ result' = None
    /\ UNCHANGED <<input, spare, ba, nblock>>

(* nmbm_block_walk_asc()                                                   *)
TurnAsc ==
    /\ result = Running /\ up /\ ba < Clamped
    /\ nblock' = Left
    /\ IF Left < 0 THEN result' = ba /\ UNCHANGED ba
                   ELSE ba' = ba + 1 /\ UNCHANGED result
    /\ UNCHANGED <<input, spare>>

(* The walk up has failed: nmbm_try_reserve_blocks() tries again with one  *)
(* block less to skip, down to none.                                       *)
ReserveLess_Same ==          \* mutant: tries as many blocks again
    /\ result = Running /\ up /\ ba >= Clamped
    /\ IF spare > 0 THEN ba' = start /\ nblock' = spare /\ UNCHANGED result
                    ELSE result' = None /\ UNCHANGED <<ba, nblock>>
    /\ UNCHANGED <<input, spare>>

ReserveLess ==
    /\ result = Running /\ up /\ ba >= Clamped
    /\ spare' = spare - 1
    /\ IF spare > 0 THEN ba' = start /\ nblock' = spare - 1 /\ UNCHANGED result
                    ELSE result' = None /\ UNCHANGED <<ba, nblock>>
    /\ UNCHANGED input

Finished == result # Running /\ UNCHANGED vars

Next == TurnDesc \/ EndDesc \/ TurnAsc \/ ReserveLess \/ Finished

Spec == Init /\ [][Next]_vars /\ WF_vars(Next)

-----------------------------------------------------------------------------
Reference == IF up THEN Reserve(st, start, count, Clamped)
                   ELSE WalkDesc(st, start, count, Clamped)

(* Both loops return what NmbmFlash says they return.                      *)
LoopsAgree == result # Running => result = Reference

(* The loops of nmbm_try_reserve_blocks() end.                             *)
LoopsEnd == <>(result # Running)
=============================================================================
