----------------------------- MODULE NmbmTables -----------------------------
(***************************************************************************)
(* The information tables of the NAND Mapped-block Management core         *)
(* (nmbm-core.c): the state of the driver, and how its main and backup     *)
(* table are written, rebuilt, updated and rescued when blocks go bad.     *)
(*                                                                         *)
(* One step is one flash operation together with the memory-only code that *)
(* follows it up to the next flash operation, so that power can fail       *)
(* between any two flash operations.  (A failing erase or program includes *)
(* the bad mark the code then sets.)  The C call stack is kept in pc (the  *)
(* loop under way), wr (the arguments of the table write or range erase    *)
(* under way) and ret (where nmbm_update_info_table() returns to).         *)
(*                                                                         *)
(* Not modelled: NMBM_F_READ_ONLY, tables larger than one block, bad marks *)
(* set behind NMBM's back, and the chip refusing to store a bad mark.      *)
(***************************************************************************)
EXTENDS NmbmFlash

CONSTANTS
    ForcedCreate,   \* every attach has NMBM_F_CREATE: forced-create
    MaxFail,        \* bound on erase and program operations that fail
    MaxAttach      \* bound on attaches

ASSUME BoundsAssumption ==
    /\ ForcedCreate \in BOOLEAN
    /\ MaxFail \in Nat
    /\ MaxAttach \in Nat

VARIABLES
    phys,       \* phys[b]: what physical block b holds
    bad,        \* the blocks whose bad mark is set on the chip
    st,         \* ni->block_state
    map,        \* ni->block_mapping, for the data area
    dirty,      \* block_state_changed or block_mapping_changed is not zero
    wc,         \* ni->info_table.write_count
    cache,      \* ni->info_table_cache, the table being written
    mainBa,     \* ni->main_table_ba, 0 when there is no main table
    backupBa,   \* ni->backup_table_ba, 0 when there is no backup table
    mapBa,      \* ni->mapping_blocks_ba, bottom of the spare pool
    topBa,      \* ni->mapping_blocks_top_ba, top of the spare pool
    sigBa,      \* ni->signature_ba
    dataCount,  \* ni->data_block_count
    protected,  \* ni->protected
    pc, wr, ret, cur,   \* control: see above; cur is the logical block erased
    fails, attaches,    \* used up of MaxFail and MaxAttach
    promise,    \* history: what the last finished operation left in each
                \* logical block: "data", "blank", or "none" (undefined)
    skipped     \* history: nmbm_map_block() has passed over a bad block

flash == <<phys, bad>>
tables == <<st, map, dirty, wc, cache>>
layout == <<mainBa, backupBa, mapBa, topBa>>
fixed == <<sigBa, dataCount, protected>>
control == <<pc, wr, ret, cur>>
budget == <<fails, attaches>>
history == <<promise, skipped>>
vars == <<flash, tables, layout, fixed, control, budget, history>>

-----------------------------------------------------------------------------
Job(k, ba, limit) == [k |-> k, ba |-> ba, limit |-> limit, from |-> ba]
NoJob == Job("none", 0, 0)
NoMap == [lb \in LB |-> None]
NoImage == [wc |-> 0, st |-> AllGood, map |-> NoMap]

(* Memory as nmbm_attach() finds it, and as power loss or nmbm_remove()    *)
(* leaves it: nothing but what is on the chip.                             *)
Off == /\ pc = "off" /\ wr = NoJob /\ ret = "idle" /\ cur = 0
       /\ st = AllGood /\ map = NoMap /\ dirty = FALSE /\ wc = 0
       /\ cache = NoImage
       /\ mainBa = 0 /\ backupBa = 0 /\ mapBa = 0 /\ topBa = 0
       /\ sigBa = 0 /\ dataCount = 0 /\ protected = FALSE

Init == /\ phys = [b \in PB |-> Blank]
        /\ bad = FactoryBad
        /\ Off
        /\ fails = 0 /\ attaches = 0
        /\ promise = [lb \in LB |-> "none"] /\ skipped = FALSE

(* Blocks a table write or range erase may use in lo .. hi - 1, and the    *)
(* states in memory once the blocks below hi have been looked at: the      *)
(* "insurance" against a bad mark memory does not know of.                 *)
Usable_Limit(lo, hi) == {b \in lo .. hi : st[b] = "good" /\ b \notin bad}     \* mutant
Usable(lo, hi) == {b \in lo .. hi - 1 : st[b] = "good" /\ b \notin bad}
Seen(lo, hi) == Marked(st, {b \in lo .. hi - 1 : st[b] = "good" /\ b \in bad})

Spoil(b) == phys' = [phys EXCEPT ![b] = Torn]

Fail(b) == /\ fails < MaxFail
           /\ fails' = fails + 1
           /\ bad' = bad \cup {b}

Go(p) == pc' = p /\ wr' = NoJob /\ UNCHANGED <<ret, cur>>
Rest == pc' = "idle" /\ wr' = NoJob /\ ret' = "idle" /\ cur' = 0
Start(job) == pc' = "erase" /\ wr' = job /\ UNCHANGED <<ret, cur>>
Clean(job) == pc' = "clean" /\ wr' = job /\ UNCHANGED <<ret, cur>>

-----------------------------------------------------------------------------
(* nmbm_write_mgmt_range(): try the good blocks of the range in turn.      *)
MgmtErased ==
    LET b == Lowest(Usable(wr.ba, wr.limit)) IN
    /\ pc = "erase" /\ Usable(wr.ba, wr.limit) # {}
    /\ Spoil(b)
    /\ st' = Seen(wr.ba, b)
    /\ dirty' = (dirty \/ st' # st)
    /\ pc' = "prog" /\ wr' = [wr EXCEPT !.ba = b]
    /\ UNCHANGED <<bad, map, wc, cache, layout, fixed, ret, cur, budget, history>>

MgmtEraseFails ==
    LET b == Lowest(Usable(wr.ba, wr.limit)) IN
    /\ pc = "erase" /\ Usable(wr.ba, wr.limit) # {}
    /\ Fail(b)
    /\ Spoil(b)
    /\ st' = Marked(Seen(wr.ba, b), {b})
    /\ dirty' = TRUE
    /\ wr' = [wr EXCEPT !.ba = b + 1]
    /\ UNCHANGED <<map, wc, cache, layout, fixed, pc, ret, cur, attaches, history>>

MgmtProgramFails ==
    /\ pc = "prog"
    /\ Fail(wr.ba)
    /\ st' = Marked(st, {wr.ba})
    /\ dirty' = TRUE
    /\ pc' = "erase" /\ wr' = [wr EXCEPT !.ba = @ + 1]
    /\ UNCHANGED <<phys, map, wc, cache, layout, fixed, ret, cur, attaches, history>>

(* The two ways that write returns to its caller, for the call named k.    *)
(* The table has then been written to block wr.ba.                         *)
Written(k) == /\ pc = "prog" /\ wr.k = k
              /\ phys' = [phys EXCEPT ![wr.ba] = Table(cache)]

GaveUp(k) == /\ pc = "erase" /\ wr.k = k
             /\ Usable(wr.ba, wr.limit) = {}
             /\ st' = Seen(wr.ba, wr.limit)
             /\ UNCHANGED flash

(* nmbm_mark_tables_clean()                                                *)
MarkTablesClean == dirty' = FALSE
KeepDirty == dirty' = (dirty \/ st' # st)

(* nmbm_erase_range(): erase every good block of the range.                *)
CleanStep ==
    LET b == Lowest(Usable(wr.ba, wr.limit)) IN
    /\ pc = "clean" /\ Usable(wr.ba, wr.limit) # {}
    /\ phys' = [phys EXCEPT ![b] = Blank]
    /\ st' = Seen(wr.ba, b)
    /\ KeepDirty
    /\ wr' = [wr EXCEPT !.ba = b + 1]
    /\ UNCHANGED <<bad, map, wc, cache, layout, fixed, pc, ret, cur, budget, history>>

CleanFails ==
    LET b == Lowest(Usable(wr.ba, wr.limit)) IN
    /\ pc = "clean" /\ Usable(wr.ba, wr.limit) # {}
    /\ Fail(b)
    /\ Spoil(b)
    /\ st' = Marked(Seen(wr.ba, b), {b})
    /\ dirty' = TRUE
    /\ wr' = [wr EXCEPT !.ba = b + 1]
    /\ UNCHANGED <<map, wc, cache, layout, fixed, pc, ret, cur, attaches, history>>

Cleaned(k) == /\ pc = "clean" /\ wr.k = k
              /\ Usable(wr.ba, wr.limit) = {}
              /\ st' = Seen(wr.ba, wr.limit)
              /\ UNCHANGED flash

-----------------------------------------------------------------------------
(* nmbm_rebuild_info_table()                                               *)
(* It is called by nmbm_create_info_table() (ret = "create") and by        *)
(* nmbm_update_info_table_once(); Returned is where a true result goes.    *)
Returned == IF ret = "create" THEN "create" ELSE "update"

RebuildStart ==
    /\ pc = "rebuild"
    /\ mainBa' = 0 /\ backupBa' = 0 /\ mapBa' = topBa
    /\ Start(Job("rebuild", MgmtStart, topBa))
    /\ UNCHANGED <<flash, tables, topBa, fixed, budget, history>>

RebuildFailed ==
    /\ GaveUp("rebuild")
    /\ KeepDirty
    /\ protected' = TRUE
    /\ Go(IF ret \in {"create", "created"} THEN "gone" ELSE ret)
    /\ UNCHANGED <<map, wc, cache, layout, sigBa, dataCount, budget, history>>

RebuildWritten ==
    LET next == TryReserve(st, wr.ba + 1, topBa - 1) IN
    /\ Written("rebuild")
    /\ mainBa' = wr.ba
    /\ mapBa' = wr.ba + 1
    /\ MarkTablesClean
    /\ IF next = None THEN Go(Returned) ELSE Start(Job("second", next, topBa))
    /\ UNCHANGED <<bad, st, map, wc, cache, backupBa, topBa, fixed, budget, history>>

SecondFailed ==
    /\ GaveUp("second")
    /\ KeepDirty
    /\ Go(Returned)
    /\ UNCHANGED <<map, wc, cache, layout, fixed, budget, history>>

SecondWritten ==
    /\ Written("second")
    /\ backupBa' = wr.ba
    /\ mapBa' = wr.ba + 1
    /\ Clean(Job("second", mainBa + 1, wr.ba))
    /\ UNCHANGED <<bad, tables, mainBa, topBa, fixed, budget, history>>

SecondCleaned ==
    /\ Cleaned("second")
    /\ KeepDirty
    /\ Go(Returned)
    /\ UNCHANGED <<map, wc, cache, layout, fixed, budget, history>>

-----------------------------------------------------------------------------
(* nmbm_update_info_table(), the loop (pc = "update") around one pass of   *)
(* nmbm_update_info_table_once(): first the backup table, then the main.   *)
NeedsUpdate == ~ protected /\ dirty

UpdateBegin ==
    /\ pc = "update" /\ NeedsUpdate
    /\ wc' = wc + 1
    /\ cache' = [wc |-> wc + 1, st |-> st, map |-> map]
    /\ IF backupBa = 0 THEN Go("main") ELSE Start(Job("backup", backupBa, topBa))
    /\ UNCHANGED <<flash, st, map, dirty, layout, fixed, budget, history>>

UpdateDone ==
    /\ pc = "update" /\ ~ NeedsUpdate
    /\ IF ret \in {"idle", "created"} THEN Rest ELSE Go(ret)
    /\ UNCHANGED <<flash, tables, layout, fixed, budget, history>>

BackupWritten ==
    /\ Written("backup")
    /\ backupBa' = wr.ba
    /\ mapBa' = wr.ba + 1
    /\ MarkTablesClean
    /\ Go("main")
    /\ UNCHANGED <<bad, st, map, wc, cache, mainBa, topBa, fixed, budget, history>>

BackupFailed ==
    /\ GaveUp("backup")
    /\ KeepDirty
    /\ mapBa' = backupBa
    /\ backupBa' = 0
    /\ Go("main")
    /\ UNCHANGED <<map, wc, cache, mainBa, topBa, fixed, budget, history>>

(* The main table is rewritten in front of the backup table.               *)
MainLimit == IF backupBa = 0 THEN topBa ELSE backupBa

MainBegin ==
    /\ pc = "main"
    /\ IF mainBa = 0
       THEN Go("rebuild")
       ELSE Start(Job("main", mainBa, MainLimit))
    /\ UNCHANGED <<flash, tables, layout, fixed, budget, history>>

MainWritten ==
    /\ Written("main")
    /\ mainBa' = wr.ba
    /\ mapBa' = IF backupBa = 0 THEN wr.ba + 1 ELSE mapBa
    /\ MarkTablesClean
    /\ Go("update")
    /\ UNCHANGED <<bad, st, map, wc, cache, backupBa, topBa, fixed, budget, history>>

(* The backup table becomes the main table.                                *)
KeepBackupOnly == /\ mainBa' = backupBa
                  /\ backupBa' = 0
                  /\ UNCHANGED <<mapBa, topBa>>

MainFailed_NoCopy ==         \* mutant: rescued without a temporary copy
    /\ GaveUp("main")
    /\ KeepDirty
    /\ IF backupBa = 0 THEN Go("rebuild") ELSE Start(Job("rescue", MgmtStart, topBa - 1))
    /\ UNCHANGED <<map, wc, cache, layout, fixed, budget, history>>

(* Giving up on the main table: rebuild both, or rescue the main table     *)
(* with a temporary copy behind the backup table.                          *)
MainFailed ==
    LET spare == TryReserve(st', mapBa, topBa - 1) IN
    /\ GaveUp("main")
    /\ KeepDirty
    /\ IF backupBa = 0
       THEN Go("rebuild") /\ UNCHANGED layout
       ELSE IF spare = None
       THEN KeepBackupOnly /\ Go("update")
       ELSE Start(Job("tmp", spare, topBa)) /\ UNCHANGED layout
    /\ UNCHANGED <<map, wc, cache, fixed, budget, history>>

-----------------------------------------------------------------------------
(* nmbm_rescue_main_info_table(): a temporary table, tried from ever lower *)
(* blocks, and then the main table again, over the old backup table.       *)
OneLower_Same == wr.from     \* mutant
OneLower == wr.from - 1

TmpFailed ==
    /\ GaveUp("tmp")
    /\ KeepDirty
    /\ IF OneLower >= mapBa
       THEN Start(Job("tmp", OneLower, topBa)) /\ UNCHANGED layout
       ELSE KeepBackupOnly /\ Go("update")
    /\ UNCHANGED <<map, wc, cache, fixed, budget, history>>

TmpWritten_PoolKept ==       \* mutant: the copy stays in the spare pool
    /\ Written("tmp")
    /\ Start(Job("rescue", MgmtStart, wr.ba))
    /\ UNCHANGED <<bad, tables, layout, fixed, budget, history>>

TmpWritten ==
    /\ Written("tmp")
    /\ mapBa' = wr.ba + 1
    /\ Start(Job("rescue", MgmtStart, wr.ba))
    /\ UNCHANGED <<bad, tables, mainBa, backupBa, topBa, fixed, budget, history>>

RescueWritten_OldBackup ==   \* mutant: the old backup table is kept
    /\ Written("rescue")
    /\ mainBa' = wr.ba
    /\ MarkTablesClean
    /\ Go("update")
    /\ UNCHANGED <<bad, st, map, wc, cache, backupBa, mapBa, topBa, fixed, budget, history>>

RescueWritten ==
    /\ Written("rescue")
    /\ mainBa' = wr.ba
    /\ backupBa' = wr.limit
    /\ MarkTablesClean
    /\ Go("update")
    /\ UNCHANGED <<bad, st, map, wc, cache, mapBa, topBa, fixed, budget, history>>

RescueFailed ==
    /\ GaveUp("rescue")
    /\ mainBa' = wr.limit
    /\ backupBa' = 0
    /\ MarkTablesClean
    /\ Go("update")
    /\ UNCHANGED <<map, wc, cache, mapBa, topBa, fixed, budget, history>>

TableStep ==
    \/ MgmtErased \/ MgmtEraseFails \/ MgmtProgramFails
    \/ CleanStep \/ CleanFails
    \/ RebuildStart \/ RebuildFailed \/ RebuildWritten
    \/ SecondFailed \/ SecondWritten \/ SecondCleaned
    \/ UpdateBegin \/ UpdateDone \/ BackupWritten \/ BackupFailed
    \/ MainBegin \/ MainWritten \/ MainFailed
    \/ TmpFailed \/ TmpWritten \/ RescueWritten \/ RescueFailed
=============================================================================
