-------------------------------- MODULE Nmbm --------------------------------
(***************************************************************************)
(* The NAND Mapped-block Management device (nmbm-core.c): attaching to a   *)
(* chip, creating the management area, the operations on a logical block,  *)
(* detaching, and power cuts.  NmbmTables has the state and the writing of *)
(* the information tables.                                                 *)
(*                                                                         *)
(* NMBM_F_CREATE lets an attach create tables.  nmbm_probe() sets it for   *)
(* every attach when the device tree has forced-create, as those of the    *)
(* boards in this tree do: ForcedCreate.  Otherwise the first attach of    *)
(* the chip has it, that of the tool that prepares it, and no other.       *)
(***************************************************************************)
EXTENDS NmbmTables

Begin == /\ pc = "off"
         /\ attaches < MaxAttach
         /\ attaches' = attaches + 1

MayCreate == ForcedCreate \/ attaches = 0

(* The top of the spare pool is the first good block below the signature.  *)
PoolTop_Signature(s, sig) == WalkDesc(s, sig, 0, MgmtStart)     \* mutant
PoolTop(s, sig) == WalkDesc(s, sig, 1, MgmtStart)

(* nmbm_create_info_table() up to its first flash operation, with block    *)
(* states s, mapping m, signature block sig and changed-flag d.            *)
CreateTables(s, m, sig, d) ==
    LET top == PoolTop(s, sig) IN
    IF top = None
    THEN Go("gone") /\ UNCHANGED <<topBa, wc, cache>>
    ELSE /\ topBa' = top
         /\ wc' = IF d THEN wc + 1 ELSE wc
         /\ cache' = [wc |-> wc', st |-> s, map |-> m]
         /\ pc' = "rebuild" /\ wr' = NoJob /\ ret' = "create" /\ cur' = 0

-----------------------------------------------------------------------------
(* nmbm_create_new(): a chip with no signature.                            *)
AttachNew ==
    /\ Begin /\ MayCreate
    /\ FindSignature(phys, bad) = None
    /\ st' = Marked(AllGood, bad)
    /\ map' = BuildMapping(st')
    /\ dataCount' = BuiltCount(st')
    /\ dirty' = (st' # AllGood)
    /\ pc' = "sign" /\ wr' = Job("sign", BlockCount - 1, MgmtStart)
    /\ UNCHANGED <<flash, wc, cache, layout, sigBa, protected, ret, cur, fails, history>>

(* nmbm_write_signature(): the good blocks in turn, from the highest.      *)
SignatureBlocks == GoodIn(st, wr.limit + 1, wr.ba)

SignatureWritten ==
    LET b == Highest(SignatureBlocks) IN
    /\ pc = "sign" /\ SignatureBlocks # {}
    /\ phys' = [phys EXCEPT ![b] = Signature]
    /\ sigBa' = b
    /\ CreateTables(st, map, b, dirty)
    /\ UNCHANGED <<bad, st, map, dirty, mainBa, backupBa, mapBa, dataCount, protected>>
    /\ UNCHANGED <<budget, history>>

SignatureFails ==
    LET b == Highest(SignatureBlocks) IN
    /\ pc = "sign" /\ SignatureBlocks # {}
    /\ Fail(b)
    /\ Spoil(b)
    /\ st' = Marked(st, {b})
    /\ dirty' = TRUE
    /\ wr' = [wr EXCEPT !.ba = b - 1]
    /\ UNCHANGED <<map, wc, cache, layout, fixed, pc, ret, cur, attaches, history>>

NoSignatureBlock ==
    /\ pc = "sign" /\ SignatureBlocks = {}
    /\ Go("gone")
    /\ UNCHANGED <<flash, tables, layout, fixed, budget, history>>

(* The loop of nmbm_create_info_table() that maps the logical blocks left  *)
(* over by the bad blocks of the data area (pc = "create").                *)
Mapped_TopKept(lb, p) ==     \* mutant: the pool still holds the block
    /\ map' = [map EXCEPT ![lb] = p]
    /\ skipped' = (skipped \/ p # topBa)
    /\ UNCHANGED topBa

Mapped(lb, p) ==
    /\ map' = [map EXCEPT ![lb] = p]
    /\ topBa' = topBa - 1
    /\ skipped' = (skipped \/ p # topBa)

NextSpare(s) == WalkDesc(s, topBa, 0, mapBa)

Update(r) == pc' = "update" /\ wr' = NoJob /\ ret' = r

CreateRemap ==
    /\ pc = "create" /\ dataCount < MgmtStart
    /\ mapBa # topBa /\ NextSpare(st) # None
    /\ Mapped(dataCount, NextSpare(st))
    /\ dataCount' = dataCount + 1
    /\ dirty' = TRUE
    /\ UNCHANGED <<flash, st, wc, cache, mainBa, backupBa, mapBa, sigBa, protected>>
    /\ UNCHANGED <<control, budget, promise>>

CreateEnd ==
    /\ pc = "create"
    /\ dataCount = MgmtStart \/ mapBa = topBa \/ NextSpare(st) = None
    /\ Update(IF dataCount = MgmtStart \/ mapBa = topBa THEN "created" ELSE "nospare")
    /\ UNCHANGED <<flash, tables, layout, fixed, cur, budget, history>>

(* The walk of nmbm_map_block() found nothing, and the update it then does *)
(* has returned.                                                           *)
CreateNoSpare ==
    /\ pc = "nospare"
    /\ topBa' = mapBa
    /\ Update("created")
    /\ UNCHANGED <<flash, tables, mainBa, backupBa, mapBa, fixed, cur, budget, history>>

-----------------------------------------------------------------------------
(* nmbm_load_info_table(): what its two searches find when the blocks in   *)
(* ecc cannot be read.  Only blocks whose last program was cut short may   *)
(* fail to read.                                                           *)
UnreadableSets == SUBSET {b \in PB : b >= MgmtStart /\ phys[b] = Torn}

Found(ecc) ==
    LET sig == FindSignature(phys, bad)
        unread == bad \cup ecc
        first == TableAt(phys, unread, AllGood, MgmtStart, sig)
        st1 == IF first = None THEN AllGood ELSE phys[first].img.st
        second == IF first = None THEN None
                  ELSE TableAt(phys, unread, st1, first + 1, sig)
    IN  [sig |-> sig, first |-> first, second |-> second,
         lost1 |-> Searched(MgmtStart, first, sig) \cap unread,
         lost2 |-> IF first = None THEN {}
                   ELSE {b \in Searched(first + 1, second, sig) \cap unread :
                                st1[b] = "good"}]

(* nmbm_load_existing() when there is no table: create them anew.          *)
AttachNoTable(ecc) ==
    LET f == Found(ecc) IN
    /\ Begin /\ MayCreate
    /\ f.sig # None /\ f.first = None
    /\ st' = Marked(AllGood, bad \cup f.lost1)
    /\ map' = BuildMapping(st')
    /\ dataCount' = BuiltCount(st')
    /\ dirty' = (st' # AllGood)
    /\ sigBa' = f.sig
    /\ CreateTables(st', map', f.sig, dirty')
    /\ UNCHANGED <<flash, mainBa, backupBa, mapBa, protected, fails, history>>

(* The table with the higher write count is taken, the first if equal;     *)
(* blocks found unreadable stay marked unless the second table replaces    *)
(* the states of the first.                                                *)
Newer(f) == f.second # None /\ phys[f.second].img.wc > phys[f.first].img.wc

Load(f) ==
    LET at == IF Newer(f) THEN f.second ELSE f.first
        img == phys[at].img
    IN  /\ Begin
        /\ f.sig # None /\ f.first # None
        /\ st' = IF Newer(f) THEN img.st ELSE Marked(img.st, f.lost2)
        /\ map' = img.map
        /\ wc' = img.wc + (IF f.lost1 \cup f.lost2 = {} THEN 0 ELSE 1)
        /\ cache' = [wc |-> wc', st |-> st', map |-> map']
        /\ sigBa' = f.sig
        /\ mainBa' = f.first
        /\ backupBa' = IF f.second = None THEN 0 ELSE f.second
        /\ mapBa' = (IF f.second = None THEN f.first ELSE f.second) + 1
        /\ topBa' = MappingTop(img, at, f.sig)
        /\ dataCount' = LoadedCount(img.map)
        /\ UNCHANGED <<flash, fails, history>>

LoadDone(success) == protected' = (mapBa' = topBa' \/ ~ success) /\ Rest

AttachOne(ecc) ==
    LET f == Found(ecc) IN
    /\ Load(f)
    /\ f.second = None
    /\ dirty' = (f.lost1 \cup f.lost2 # {})
    /\ Start(Job("front", MgmtStart, f.first))
    /\ UNCHANGED protected

SyncMainLimit(f) == f.second

AttachUnequal(ecc) ==
    LET f == Found(ecc)
        w(b) == phys[b].img.wc
    IN  /\ Load(f)
        /\ f.second # None /\ w(f.first) # w(f.second)
        /\ dirty' = TRUE
        /\ Start(IF w(f.first) < w(f.second)
                 THEN Job("syncmain", f.first, SyncMainLimit(f))
                 ELSE Job("syncbackup", f.second, topBa'))
        /\ UNCHANGED protected

AttachEqual(ecc) ==
    LET f == Found(ecc) IN
    /\ Load(f)
    /\ f.second # None /\ phys[f.first].img.wc = phys[f.second].img.wc
    /\ dirty' = (f.lost1 \cup f.lost2 # {})
    /\ LoadDone(TRUE)

-----------------------------------------------------------------------------
(* nmbm_rescue_single_info_table(): a second copy is written in front of   *)
(* the only table or, failing that, behind it.                             *)
FrontWritten ==
    /\ Written("front")
    /\ backupBa' = mainBa
    /\ mainBa' = wr.ba
    /\ MarkTablesClean
    /\ Clean(Job("front", wr.ba + 1, mainBa))
    /\ UNCHANGED <<bad, st, map, wc, cache, mapBa, topBa, fixed, budget, history>>

FrontCleaned ==
    /\ Cleaned("front")
    /\ KeepDirty
    /\ UNCHANGED layout
    /\ LoadDone(TRUE)
    /\ UNCHANGED <<map, wc, cache, sigBa, dataCount, budget, history>>

FrontFailed ==
    LET spare == TryReserve(st', mapBa, topBa - 1) IN
    /\ GaveUp("front")
    /\ KeepDirty
    /\ UNCHANGED layout
    /\ IF spare = None
       THEN LoadDone(FALSE)
       ELSE Start(Job("behind", spare, topBa)) /\ UNCHANGED protected
    /\ UNCHANGED <<map, wc, cache, sigBa, dataCount, budget, history>>

BehindFailed ==
    /\ GaveUp("behind")
    /\ KeepDirty
    /\ UNCHANGED layout
    /\ IF OneLower >= mapBa
       THEN Start(Job("behind", OneLower, topBa)) /\ UNCHANGED protected
       ELSE LoadDone(FALSE)
    /\ UNCHANGED <<map, wc, cache, sigBa, dataCount, budget, history>>

BehindWritten ==
    /\ Written("behind")
    /\ Clean(Job("behind", mapBa, wr.ba))
    /\ UNCHANGED <<bad, tables, layout, fixed, budget, history>>

BehindCleaned ==
    /\ Cleaned("behind")
    /\ backupBa' = wr.limit
    /\ mapBa' = wr.limit + 1
    /\ UNCHANGED <<mainBa, topBa>>
    /\ MarkTablesClean
    /\ LoadDone(TRUE)
    /\ UNCHANGED <<map, wc, cache, sigBa, dataCount, budget, history>>

(* nmbm_update_single_info_table(): the older of two tables is rewritten.  *)
SyncMainWritten_OldPlace ==  \* mutant: main_table_ba is not updated
    /\ Written("syncmain")
    /\ UNCHANGED layout
    /\ MarkTablesClean
    /\ LoadDone(TRUE)
    /\ UNCHANGED <<bad, st, map, wc, cache, sigBa, dataCount, budget, history>>

SyncMainWritten ==
    /\ Written("syncmain")
    /\ mainBa' = wr.ba
    /\ UNCHANGED <<backupBa, mapBa, topBa>>
    /\ MarkTablesClean
    /\ LoadDone(TRUE)
    /\ UNCHANGED <<bad, st, map, wc, cache, sigBa, dataCount, budget, history>>

SyncMainFailed ==
    /\ GaveUp("syncmain")
    /\ KeepDirty
    /\ KeepBackupOnly
    /\ Start(Job("front", MgmtStart, backupBa))
    /\ UNCHANGED <<map, wc, cache, fixed, budget, history>>

SyncBackupWritten ==
    /\ Written("syncbackup")
    /\ backupBa' = wr.ba
    /\ mapBa' = wr.ba + 1
    /\ UNCHANGED <<mainBa, topBa>>
    /\ MarkTablesClean
    /\ LoadDone(TRUE)
    /\ UNCHANGED <<bad, st, map, wc, cache, sigBa, dataCount, budget, history>>

SyncBackupFailed ==
    /\ GaveUp("syncbackup")
    /\ KeepDirty
    /\ mapBa' = backupBa
    /\ backupBa' = 0
    /\ UNCHANGED <<mainBa, topBa>>
    /\ LoadDone(FALSE)
    /\ UNCHANGED <<map, wc, cache, sigBa, dataCount, budget, history>>

AttachStep ==
    \/ AttachNew \/ SignatureWritten \/ SignatureFails \/ NoSignatureBlock
    \/ CreateRemap \/ CreateEnd \/ CreateNoSpare
    \/ \E ecc \in UnreadableSets : \/ AttachNoTable(ecc) \/ AttachOne(ecc)
                                  \/ AttachUnequal(ecc) \/ AttachEqual(ecc)
    \/ FrontWritten \/ FrontCleaned \/ FrontFailed
    \/ BehindFailed \/ BehindWritten \/ BehindCleaned
    \/ SyncMainWritten \/ SyncMainFailed \/ SyncBackupWritten \/ SyncBackupFailed

-----------------------------------------------------------------------------
(* The operations on a logical block.                                      *)
Accepts(lb) == pc = "idle" /\ ~ protected /\ lb < dataCount
Promise(lb, what) == promise' = [promise EXCEPT ![lb] = what] /\ UNCHANGED skipped
SetState(b, state) == st' = [st EXCEPT ![b] = state]

(* nmbm_read_logic_page() behind nmbm_read_single_page(): an error, or     *)
(* what the physical block holds.                                          *)
Error(errno) == [kind |-> "error", errno |-> errno]

ReadResult(lb) ==
    IF protected THEN Error("EROFS")
    ELSE IF lb >= dataCount THEN Error("EINVAL")
    ELSE IF map[lb] = None \/ st[map[lb]] = "bad" THEN Error("EIO")
    ELSE phys[map[lb]]

(* nmbm_write_logic_page().  A block that fails is remapped by its next    *)
(* erase.  As on any NAND, only a write to an erased block promises data.  *)
Writable(lb) == Accepts(lb) /\ map[lb] # None /\ st[map[lb]] # "bad"

WriteOk(lb) ==
    /\ Writable(lb)
    /\ phys' = [phys EXCEPT ![map[lb]] = Data(lb)]
    /\ Promise(lb, IF promise[lb] = "blank" THEN "data" ELSE "none")
    /\ UNCHANGED <<bad, tables, layout, fixed, control, budget>>

WriteFails(lb) ==
    /\ Writable(lb)
    /\ fails < MaxFail /\ fails' = fails + 1
    /\ Spoil(map[lb])
    /\ SetState(map[lb], "remap")
    /\ KeepDirty
    /\ Promise(lb, "none")
    /\ Update("idle")
    /\ UNCHANGED <<bad, map, wc, cache, layout, fixed, cur, attaches>>

(* nmbm_erase_logic_block(); pc = "erase_lb" is its retry loop.  For each  *)
(* block of a range protected is looked at again: nmbm_erase_block_range() *)
(* looks once, but a device that becomes protected in an erase that goes   *)
(* on has no table any more (Phases in NmbmPromiseProofs).                 *)
EraseBegin(lb) ==
    /\ Accepts(lb) /\ map[lb] # None
    /\ pc' = "erase_lb" /\ cur' = lb /\ UNCHANGED <<wr, ret>>
    /\ Promise(lb, "none")
    /\ UNCHANGED <<flash, tables, layout, fixed, budget>>

Erasable == st[map[cur]] = "good" /\ map[cur] \notin bad

ErasedBlock ==
    /\ pc = "erase_lb" /\ Erasable
    /\ phys' = [phys EXCEPT ![map[cur]] = Blank]
    /\ Promise(cur, "blank")
    /\ Rest
    /\ UNCHANGED <<bad, tables, layout, fixed, budget>>

(* The part after remap_logic_block: for the block pb that cur leaves,     *)
(* when the block states are s.                                            *)
Left(s, pb) == IF s[pb] = "remap" THEN s ELSE [s EXCEPT ![pb] = "bad"]

UpdateFirst_Never == pc' = "erase_lb" /\ UNCHANGED <<wr, ret>>   \* mutant: erases first
UpdateFirst == Update("erase_lb")

RemapBlock(s) ==
    LET pb == map[cur]
        spare == NextSpare(s)
    IN  /\ UNCHANGED <<wc, cache, mainBa, backupBa, mapBa, fixed, cur, promise>>
        /\ \/ /\ mapBa = topBa
              /\ map' = [map EXCEPT ![cur] = None]
              /\ st' = Left(s, pb)
              /\ KeepDirty
              /\ Update("idle")
              /\ UNCHANGED <<topBa, skipped>>
           \/ /\ mapBa # topBa /\ spare = None
              /\ st' = s
              /\ KeepDirty
              /\ Update("unmap")
              /\ UNCHANGED <<map, topBa, skipped>>
           \/ /\ mapBa # topBa /\ spare # None
              /\ Mapped(cur, spare)
              /\ st' = Left(s, pb)
              /\ dirty' = TRUE
              /\ UpdateFirst

EraseFails ==
    /\ pc = "erase_lb" /\ Erasable
    /\ Fail(map[cur])
    /\ Spoil(map[cur])
    /\ RemapBlock(Marked(st, {map[cur]}))
    /\ UNCHANGED attaches

EraseLeavesBlock ==
    /\ pc = "erase_lb" /\ ~ Erasable
    /\ RemapBlock(IF st[map[cur]] = "good" THEN Marked(st, {map[cur]}) ELSE st)
    /\ UNCHANGED <<flash, budget>>

EraseUnmaps ==
    /\ pc = "unmap"
    /\ topBa' = mapBa
    /\ map' = [map EXCEPT ![cur] = None]
    /\ st' = Left(st, map[cur])
    /\ KeepDirty
    /\ Update("idle")
    /\ UNCHANGED <<flash, wc, cache, mainBa, backupBa, mapBa, fixed, cur, budget, history>>

(* nmbm_mark_bad_block()                                                   *)
MarkBad(lb) ==
    /\ Accepts(lb) /\ map[lb] # None
    /\ Fail(map[lb])
    /\ map' = [map EXCEPT ![lb] = None]
    /\ SetState(map[lb], "bad")
    /\ KeepDirty
    /\ Promise(lb, "none")
    /\ Update("idle")
    /\ UNCHANGED <<phys, wc, cache, layout, fixed, cur, attaches>>

(* Every other call returns an error and changes nothing.                  *)
Refused(lb) ==
    /\ pc = "idle" /\ ~ Writable(lb)
    /\ UNCHANGED vars

(* nmbm_detach(), and the instance being dropped by nmbm_remove() or after *)
(* an attach that failed.                                                  *)
Detach ==
    /\ pc = "idle"
    /\ Update("gone")
    /\ UNCHANGED <<flash, tables, layout, fixed, cur, budget, history>>

PowerOff ==
    /\ pc' = "off" /\ wr' = NoJob /\ ret' = "idle" /\ cur' = 0
    /\ st' = AllGood /\ map' = NoMap /\ dirty' = FALSE /\ wc' = 0
    /\ cache' = NoImage
    /\ mainBa' = 0 /\ backupBa' = 0 /\ mapBa' = 0 /\ topBa' = 0
    /\ sigBa' = 0 /\ dataCount' = 0 /\ protected' = FALSE

(* What is promised when power goes: p, but nothing when there is no table *)
(* left on the chip of a driver that had no backup table.                  *)
TableLost == backupBa = 0 /\ \A b \in PB \ bad : phys'[b].kind # "table"
GiveUp(p) == promise' = IF TableLost THEN [lb \in LB |-> "none"] ELSE p

Leave ==
    /\ pc = "gone"
    /\ PowerOff
    /\ UNCHANGED <<flash, budget, skipped>>
    /\ GiveUp(promise)

Crash ==
    /\ pc \notin {"off", "gone"}
    /\ PowerOff
    /\ UNCHANGED <<flash, budget, skipped>>
    /\ GiveUp(promise)

(* Power is cut in the middle of an erase, or of a write by the user.      *)
CutShort ==
    /\ \/ /\ pc \in {"erase", "clean"} /\ Usable(wr.ba, wr.limit) # {}
          /\ Spoil(Lowest(Usable(wr.ba, wr.limit)))
          /\ GiveUp(promise)
       \/ /\ pc = "sign" /\ SignatureBlocks # {}
          /\ Spoil(Highest(SignatureBlocks))
          /\ GiveUp(promise)
       \/ /\ pc = "erase_lb" /\ Erasable
          /\ Spoil(map[cur])
          /\ GiveUp(promise)
       \/ \E lb \in LB : /\ Writable(lb)
                         /\ Spoil(map[lb])
                         /\ GiveUp([promise EXCEPT ![lb] = "none"])
    /\ PowerOff
    /\ UNCHANGED <<bad, budget, skipped>>

(* A board without power, or one whose attach returns -ENODEV.             *)
StaysOff == pc = "off" /\ UNCHANGED vars

BlockStep ==
    \/ \E lb \in LB : \/ WriteOk(lb) \/ WriteFails(lb) \/ EraseBegin(lb)
                      \/ MarkBad(lb) \/ Refused(lb)
    \/ ErasedBlock \/ EraseFails \/ EraseLeavesBlock \/ EraseUnmaps

Next == TableStep \/ AttachStep \/ BlockStep \/ Detach \/ Leave \/ Crash \/ CutShort \/ StaysOff

Spec == Init /\ [][Next]_vars

-----------------------------------------------------------------------------
Jobs == {"none", "sign", "rebuild", "second", "backup", "main", "tmp", "rescue",
         "front", "behind", "syncmain", "syncbackup"}
Pcs == {"off", "idle", "sign", "rebuild", "create", "nospare", "update", "main",
        "erase", "prog", "clean", "erase_lb", "unmap", "gone"}
Rets == {"idle", "create", "created", "nospare", "erase_lb", "unmap", "gone"}

(* Every variable of the driver and of the chip has its type; the block    *)
(* numbers the code keeps stay inside the chip.                            *)
TypeOK ==
    /\ phys \in [PB -> Contents] /\ bad \subseteq PB
    /\ st \in [PB -> BlockStates] /\ map \in Mappings
    /\ dirty \in BOOLEAN /\ wc \in Nat /\ cache \in Image
    /\ mainBa \in PB /\ backupBa \in PB /\ mapBa \in PB /\ topBa \in PB
    /\ sigBa \in PB /\ dataCount \in 0 .. MgmtStart /\ protected \in BOOLEAN
    /\ pc \in Pcs /\ ret \in Rets /\ cur \in LB
    /\ wr \in [k : Jobs, ba : 0 .. BlockCount, limit : PB,
               from : 0 .. BlockCount]
    /\ fails \in 0 .. MaxFail /\ attaches \in 0 .. MaxAttach
    /\ promise \in [LB -> {"none", "blank", "data"}] /\ skipped \in BOOLEAN

(* The last finished write or erase of a logical block is what a read of   *)
(* it returns, however many blocks went bad, tables were rewritten and     *)
(* power cuts and attaches happened since, those that create tables among  *)
(* them.  It holds of a device that is not protected (a protected one      *)
(* refuses reads), until nmbm_map_block() has passed over a bad block, and *)
(* of what is still promised (TableLost).  (nmbm_read_logic_page(), over   *)
(* everything that changes block_mapping, a table or a block.)             *)
Kept(lb) ==
    promise[lb] # "none" =>
        ReadResult(lb) = IF promise[lb] = "data" THEN Data(lb) ELSE Blank

KeepsPromises ==
    pc = "idle" /\ ~ protected /\ ~ skipped => \A lb \in LB : Kept(lb)

(* Unless nmbm_map_block() has passed over a bad block, two logical blocks *)
(* never share a physical block.                                           *)
InjectiveMap(m) == \A k, l \in LB : k # l /\ m[k] # None => m[k] # m[l]
Injective == ~ skipped => InjectiveMap(map)

(* No step writes over the signature or marks its block bad: a chip that   *)
(* has one keeps it, so no later nmbm_attach() takes it for a new chip.    *)
SignatureStays ==
    [][LET sig == FindSignature(phys, bad) IN
       sig # None => FindSignature(phys', bad') = sig]_vars

(* While the driver has two tables, nmbm_load_info_table() would find one  *)
(* of them if power were cut now, whichever torn blocks cannot be read,    *)
(* unless nmbm_map_block() has passed over a bad block: the spare pool     *)
(* then still holds a mapped block, and a table written there is refused.  *)
Recoverable ==
    sigBa # 0 /\ backupBa # 0 /\ ~ skipped =>
        \A ecc \in UnreadableSets : Found(ecc).first # None

(* The regions of the management area: main table, backup table, spare     *)
(* pool, mapped blocks, signature.  Every write of a table and every range *)
(* erase of nmbm-core.c relies on it.                                      *)
LaidOut == pc \notin {"off", "gone", "sign", "rebuild"} /\ ~ skipped
RegionsApart ==
    LaidOut =>
        /\ mapBa <= topBa /\ topBa < sigBa
        /\ \A lb \in LB : map[lb] < MgmtStart \/ map[lb] > topBa
        /\ mainBa # 0 => MgmtStart <= mainBa /\ mainBa < mapBa
        /\ backupBa # 0 => mainBa < backupBa /\ backupBa < mapBa

(* Between operations the tables the driver knows of are on the chip and   *)
(* have the same mapping (nmbm_update_info_table_once() and its rescues),  *)
(* unless nmbm_map_block() has passed over a bad block, as above.          *)
CopiesAgree ==
    pc = "idle" /\ mainBa # 0 /\ ~ skipped =>
        /\ phys[mainBa].kind = "table"
        /\ backupBa # 0 => /\ phys[backupBa].kind = "table"
                           /\ phys[backupBa].img.map = phys[mainBa].img.map

-----------------------------------------------------------------------------
(* The driver's code runs to its end once called: the steps that are not a *)
(* new call, a power cut or an attach.                                     *)
Working == pc \notin {"off", "idle"} /\ (TableStep \/ AttachStep \/ BlockStep \/ Leave)

FairSpec == Spec /\ WF_vars(Working)

(* Every attach and every operation ends: the update, rescue and retry     *)
(* loops give up at some point.                                            *)
EveryCallEnds == pc \notin {"off", "idle"} ~> pc \in {"off", "idle"}
=============================================================================
