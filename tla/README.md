# A verification of NMBM and of three parts of mt_wifi

This directory is a TLA+ model of the parts of this OpenWrt tree that carry
logic of its own, with model checks and proofs. It lives beside

    NMBM = src/openwrt/feeds/mtk_openwrt_feed/target/linux/generic/files-5.4/
        drivers/mtd/nmbm/nmbm-core.c      the core: tables, mapping, attach, operations
        drivers/mtd/nmbm/nmbm-mtd.c       the MTD glue: device lock, callbacks, probe/remove
        drivers/mtd/nmbm/nmbm-private.h   state (struct nmbm_instance), layout constants
    WIFI = src/openwrt/package/mtk/drivers/mt_wifi/src/mt_wifi/
        embedded/mcu/andes_core.c, andes_mt.c; embedded/common/hif_pci.c   command queue to the MCU
        embedded/common/ba_action.c                                        block-ack reordering
        embedded/common/token.c, fp_qm.c, cmm_mac_pci.c; mac/mt_fmac.c     token pool, transmission

NMBM hides bad blocks of a raw NAND chip from Linux. mt_wifi is the WiFi driver.
Line numbers without a file name are of `nmbm-core.c` in the NMBM parts.

## 1. Inventory of the repository

The repository is a whole OpenWrt 21.02 tree with MediaTek's feeds: 17.9
thousand files, 2.3 million lines of code. Most of it is upstream, generated
(firmware images as header files) or third-party. Parts with logic of their own:

| Part | State it keeps | Operations, interactions | What is hard | Model |
|---|---|---|---|---|
| **NMBM core** | block states, logical-to-physical mapping, two information tables on the chip, spare pool, signature | attach, read, write, erase, mark bad, detach; calls the lower MTD device one flash operation at a time | a power cut between any two flash operations; blocks that fail while the record of failing blocks is being written; regions that grow towards each other | `Nmbm...` |
| **NMBM MTD glue** | `nm->state`, wait queue `nm->wq`, list `nmbm_devs` | MTD callbacks take and release the device; reboot notifier takes it for good; probe and remove | tasks interleave; lost wake-ups; reboot while an operation runs | `NmbmMtd` |
| **mt_wifi MCU command queue** | `txq`, `ackq`, `tx_doneq`, sequence numbers, completions | send and wait, answer, time out, send again, free, unload | a thread carries another thread's message; a timeout against a late answer; messages freed on several paths | `Mcu` |
| **mt_wifi block-ack reordering** | sorted list, `LastIndSeq`, session status, `FlushTimer` | receive, block-ack request, flush, session made and ended | sequence numbers modulo 4096; timer against arrival; session ended under a frame | `Reorder` |
| **mt_wifi token pool** | ring of free tokens, packets, counters, water marks | take a token and transmit, put it back on a TxFree event, stop and wake the dequeue task | head and tail under different locks; a give-up racing the last return | `TokenPool`, `TxFlow` |
| mt_wifi, the rest | MAC tables, per-station state machines | ioctl, firmware interface | register and frame formats of a closed interface | none |
| mtk_hnat, mtk-snand, mt76 | hardware tables | register programming | behaviour lives in the hardware | none |
| netifd, procd, uhttpd, hostapd, LuCI, feeds | third-party | | built from or patched over upstream | none |
| build system, kernel patches, images | none at run time | | | none |

The full list of hazards, each with its line and the properties for it, is in
`PROJECT.json`.

### NMBM, as the code has it

Physical blocks `0 .. mgmt_start_ba - 1` are the data area. The management area
above is laid out, from the bottom, as

    main table | backup table | spare pool ............ | mapped blocks | signature
               main_table_ba  mapping_blocks_ba     mapping_blocks_top_ba   signature_ba
               backup_table_ba

A *table* holds a write count, the state of every block (good, bad, or to be
remapped) and the mapping. When a block fails an erase, the logical block is
mapped to the top of the spare pool and both tables are rewritten, the backup
first, then the main table. A table write tries the good blocks of its region
one after the other, so tables wander upwards; when a table does not fit any
more the other is moved, a temporary copy is made, or both are rebuilt. At
attach, the driver looks for the signature from the top, then for the first two
readable tables that pass a check, takes the one with the higher write count
and rewrites the other.

What makes it correct: what the user wrote is what the user reads; two logical
blocks never share a physical one; the regions never overlap; the signature,
without which a chip is taken for a new one, is never overwritten; a chip that
had two tables always has one that can be loaded; every loop ends; one task at a
time is inside the core, and no task sleeps forever beside a free device.

### The WiFi driver's command queue

`AndesSendCmdMsg()` appends its message to `txq` and empties `txq`, whosever
messages are in it: each gets a sequence number from 1 to 15, is put on the
ring, and waits in `ackq` (or goes to `tx_doneq` when no answer is wanted). A
thread that wants an answer sleeps with a timeout; the event handler looks in
`ackq` for the number of the answer and completes that message. On a timeout the
message leaves `ackq` and may be sent again from a copy; at the end it goes to
`tx_doneq`, which a tasklet frees. Correct: an answer completes the command it
answers; none reaches a message that was given back; nothing freed is reachable;
what is sent again has its packet; every call returns.

### Block-ack reordering

`ba_reorder()` passes up the frame that is next, drops repeated and old ones,
sorts early ones into a list, and moves the window when a frame or a block-ack
request is beyond it. A timer gives up on missing frames. Sequence numbers are
12 bits. Correct: frames are passed up in the sender's order, each once; none is
kept behind one that has come or been given up; whatever waits has a timer; a
session that ends leaves nothing behind.

### Tokens

A packet handed to the hardware is known by a token. `token_tx_enq()` takes one
at the head of a ring, under `enq_lock`; `token_tx_deq()` puts it back at the
tail, under `deq_lock`, when the firmware reports it. The dequeue task asks
whether enough tokens are left before each packet; when not, it marks the pool
low and gives up, and the TxFree handler wakes it once the count is above the
high mark. Correct: tokens are conserved and never handed out twice; the check
suffices; packets do not wait for ever.

## 2. The modules

| Module | Models | Extends |
|---|---|---|
| `NmbmFlash` | geometry, contents of a block, pure functions: block walks, initial mapping, signature search, table search and check | |
| `NmbmTables` | the driver's state; table writes, range erases, rebuild, update and rescue of tables | `NmbmFlash` |
| `Nmbm` | attach (new or existing chip), operations on a logical block, detach, power cuts; `Spec`, `FairSpec`, the properties | `NmbmTables` |
| `NmbmStore` | the abstract register that the tables promise to be | |
| `NmbmRefinement` | the refinement mapping from `Nmbm` to `NmbmStore` | `Nmbm`, instance of `NmbmStore` |
| `NmbmClaims` | a comment that the code does not meet | `Nmbm` |
| `NmbmWalk` | the walk loops turn by turn, against `NmbmFlash` | `NmbmFlash` |
| `NmbmMtd` | device lock, wait queue, shutdown | |
| `Mcu` | the command queue: threads, firmware, tasklet, recovery, unloading | |
| `TokenPool` | `token_tx_enq()` and `token_tx_deq()`, one shared access a step | |
| `TxFlow` | the dequeue task and the TxFree handler over the pool | `TokenPool` |
| `Reorder` | one block-ack session: receive path, flush timer, MLME thread | |
| `NmbmProofs` | theorems about `Nmbm`, section 4: types and the signature, after lemmas about `NmbmFlash` | `Nmbm` |
| `NmbmLayoutProofs` | the layout of the management area | `NmbmProofs` |
| `NmbmPromiseProofs` | what is on the chip: the tables, the user's data, and that the tables implement the register | `NmbmLayoutProofs`, `NmbmRefinement` |
| `NmbmWalkProofs`, `NmbmMtdProofs`, `TokenPoolProofs`, `McuProofs`, `ReorderProofs` | theorems, section 4 | their subject |

Operators with the comment `mutant` are variants with a plausible bug; nothing
in the specifications uses them. `PROJECT.json` pairs each property with the
variant that breaks it.

### State and steps of NMBM

The variables are the fields of `struct nmbm_instance` (`st` is `block_state`,
`map` is `block_mapping`, `mainBa` is `main_table_ba`, ...; the comments in
`NmbmTables` give each), the chip (`phys`, `bad`), control, two budgets that
bound the runs (`fails`, `attaches`) and two history variables (`promise`,
`skipped`) that only properties read.

One step is one flash operation with the memory-only code behind it, up to the
next flash operation: power can fail between any two steps (`Crash`), and in the
middle of an erase or write (`CutShort`, which leaves a block torn). The call
stack is in `pc` (the loop under way), `wr` (the arguments of the table write or
range erase under way) and `ret` (where `nmbm_update_info_table()` returns to).

| Code | Model |
|---|---|
| `nmbm_write_mgmt_range()` 948 | `MgmtErased`, `MgmtEraseFails`, `MgmtProgramFails`, `Written`, `GaveUp` |
| `nmbm_erase_range()` 696 | `CleanStep`, `CleanFails`, `Cleaned` |
| `nmbm_rebuild_info_table()` 1103 | `Rebuild...`, `Second...` |
| `nmbm_update_info_table()` 1569, `_once()` 1466 | `UpdateBegin`, `Backup...`, `Main...`, `UpdateDone` |
| `nmbm_rescue_main_info_table()` 1317 | `Tmp...`, `Rescue...` |
| `nmbm_rescue_single_info_table()` 1180 | `Front...`, `Behind...` |
| `nmbm_update_single_info_table()` 1255 | `SyncMain...`, `SyncBackup...` |
| `nmbm_create_new()`, `nmbm_write_signature()`, `nmbm_create_info_table()` | `AttachNew`, `Signature...`, `CreateTables`, `Create...` |
| `nmbm_load_existing()`, `nmbm_load_info_table()` 1930 | `Found`, `Load`, `AttachNoTable`, `AttachOne`, `AttachUnequal`, `AttachEqual` |
| `nmbm_map_block()` 1592 | `NextSpare`, `Mapped` and the branches of `RemapBlock`, `CreateRemap` |
| `nmbm_erase_logic_block()` 2409 | `EraseBegin`, `Erased...`, `Erase...` |
| `nmbm_write_logic_page()`, `nmbm_read_logic_page()`, `nmbm_mark_bad_block()` | `WriteOk`, `WriteFails`, `ReadResult`, `MarkBad` |
| `nmbm_detach()`, `nmbm_remove()` | `Detach`, `Leave` |

`NmbmStore` is what the tables are for: a register with a mapping. Saving
replaces its contents in one step; a power cut leaves the old contents or the
new; an attach takes what is there; a register with a single copy may be lost,
since it is rewritten in place. The refinement mapping `Stored` computes from the
chip the mapping that an attach would load now.

### State and steps of the WiFi modules

`Mcu`: `pc[m]` is where the thread of message `m` is, `hold` the message it
carries, `msg` the fields of `struct cmd_msg` that matter (packet, retry copy,
retry count, number, state, completion, freed or not), and the three queues. A
step is what one lock protects or the code between two locks. `Send`, `Dequeue`,
`Skip`, `Fill`, `Kick...`, `Write` are `AndesSendCmdMsg()` up to its wait with
`AndesDequeueAndKickOutCmdMsgs()` and `pci_kick_out_cmd_msg()`; `Woken`,
`Timeout`, `GiveUp`, `Again`, `Finish` the code after; `Answer` is
`HandleSeqNonZeroNormalEvents()`; `Bh...` the tasklet; `Exit ... CleanDone` are
`AndesCtrlExit()`. A lost answer is one that never comes. The history variable
`reused` remembers that a sequence number was given out while a command that had
it was unanswered or on its way to the firmware.

`TokenPool`: one step per access to what the two locks do not protect from one
another (`free_id`, `id_head`, `id_tail`, `pkt_buf`, the counters), in program
order. Sequential consistency is assumed: neither function has a barrier against
the other's lock. `Reported` lets the firmware report a token again that has
been returned. `TxFlow` adds the queue, the task (`Task...`, `Recheck`, `Set...`,
`Send`, `Sending`) and the handler (`Ev...`, `Report`, `PutBack`), which reads
the pool's state and its count at two moments. The code kicks the packets of a
loop to the hardware together at its end; the model lets each be reported at
once, which only adds behaviours.

`Reorder`: the receive path, the timer's thread and the MLME thread each have a
program counter; a step is what `RxReRingLock` protects, or one access without
it (`LastIndSeq`, status, `SetFlushTimer`). A frame is the number its sender
counts by, and the code sees it modulo `Seqs`, which stands for 4096: nothing in
the code depends on the modulus beyond `Seqs >= 4 * BAWinSize`. The sender stays
within what a window allows (`Sendable`); without that no receiver could tell an
old frame from a new one. The history variables `raced` and `torn` remember that
two of the three threads have overlapped, and that the MLME thread and the
receive path have; `top`, `ordered` and `again` remember what was passed up, and
that a frame about to be passed up directly has a copy that waits.

### Abstractions

NMBM:

* A block is one unit. Its pages are written and verified together, OOB data
  and address arithmetic are left out.
* A table fits in one block (`size2blk = 1`; true of chips with fewer than about
  30000 blocks), so the number of spare blocks kept behind a table is two.
* A checksum matches exactly the bytes that were written. A torn block may or
  may not be readable: attach chooses, per torn block (`UnreadableSets`).
* A block that fails is given its bad mark in the same step, and the chip stores
  the mark. Marks set behind NMBM's back are not modelled; factory marks are
  (`FactoryBad`).
* `nmbm_erase_logic_block()` is called for one block; an erase of a range is a
  sequence of such calls (`nmbm_erase_block_range()` is exactly that loop).
* Erasing before writing is the user's duty, as on any NAND: `WriteOk` promises
  data only for a write to a block that an erase has left blank. This matters. A
  remap that a power cut stops leaves the old block with its bad mark on the chip
  and as good in the table that is loaded; the driver takes a write there, and
  the next attach walks over the block and the data is gone. A user who erases
  first gets the remap that was cut short.
* `nmbm_erase_block_range()` checks `ni->protected` once per range, `EraseBegin` at
  every block. They differ only when the erase of a block of the range succeeds and
  leaves the device protected; then no table is left on the chip (`Phases` of
  `NmbmPromiseProofs`), and a protected device promises nothing.
* `NMBM_F_READ_ONLY` is not modelled. `NMBM_F_CREATE` is the property `forced-create`
  of the device tree (`nmbm-mtd.c` 612 to 621), which the boards of this tree set.
  `ForcedCreate = TRUE` is such a board: every attach may create the tables. `FALSE`
  is a chip that whoever prepares it creates once (first attach) and that later
  attaches refuse when they find no table.

WiFi:

* `Mcu`: when all numbers are taken, `AndesGetCmdMsgSeq()` spins with the lock held
  that would free one; the model's thread waits there, and lets the others run on,
  until a number is free, which only adds behaviours to the safety properties (the
  spin is a hazard of its own, and `SendEnds` is checked with numbers enough). A
  command times out later than a thread that carries it is preempted; allocation does not
  fail. Events without a sequence number, fragments of unified commands and buses
  other than PCI are left out. So is the early return of `AndesSendCmdMsg()` during a
  WiFi reset (`andes_core.c` 801 to 804): it is compiled under `WF_RESET_SUPPORT`,
  which is off by default (`config.in` 965) and on every board configuration; only
  the sanity build of mt7986-AX6000 turns it on. With it a thread would leave its
  message in `ackq`, and `NoLateAnswer` would not hold.
* `TxFlow`: the TX ring has room; the task's limit of 8192 packets per run is
  beyond its queue; `high_water_mark` is any value from `low_water_mark` up (the
  code has low + 10), and `low_water_mark` is at least one (the chips have 5).
  The dequeue task has more reasons to leave packets in their queue than the model:
  `TX_FLAG_STOP_DEQUEUE` (`fp_qm.c` 412), `tx_deq_delay` (418 to 422), a station or
  interface that may not transmit (`forbid_data_tx`, a null `wdev`, 187 to 197). They
  are conditions set and cleared outside these files; `Drains` is about a driver in
  which none of them holds.
* `TokenPool`: `Reported` repeats the report of a token that is in the ring. A stale
  report of a token that has been taken again (`token.c` 313 to 338 cannot tell it
  from the token's own) is to the pool the same call as the report of the packet that
  has the token now, which the model has at every moment from the end of
  `token_tx_enq()` on: `Conserved`, `NeverReplaced` and `NeverOverwritten` cover it.
  That the packet freed then is still on the air, and that the stale report may come
  while `token_tx_enq()` of that very token is between its two writes, is not modelled.
* `Reorder`: no A-MSDU, so `CurMpdu` is always null when a frame comes. (With
  A-MSDU the flush timer can free the MPDU that `CurMpdu` points to, a hazard
  of its own that the plan keeps.) `FlushTimer` serves all
  sessions, here one. The idle timeout (288 to 314) is never armed in this tree;
  the per-core monitor (786 to 941) triggers the same flush as the timer. One
  reading of `LastIndSeq` is taken per check of `ba_reorder()`. The timer does not
  expire between being armed and `SetFlushTimer` being set. A session that is renewed
  keeps its `BAWinSize`; `recipient_offload` (1408), the status of a session whose
  frames the hardware reorders, is left out: `ba_reorder()` passes them up at once.

## 3. What the runs check

| Run | Instance | Distinct states | Shows |
|---|---|---|---|
| `nmbm_power` | 9 blocks, 3 of data and two of them bad, 5 failures, 2 attaches with forced-create, power cuts | 2.7 million | promises kept, regions apart, no block shared, signature stays; the blocks for the signature and the spare pool can run out |
| `nmbm_recovery` | 9 blocks, 1 of data and it is bad, 3 failures, 3 attaches with forced-create, power cuts | 647 thousand | types; recovery from a recovery: a table is loadable, tables agree, the tables implement the register |
| `nmbm_rescue` | 11 blocks, 1 of data and it is bad, 5 failures, 1 attach | 205 thousand | the rescue of the main table and its retries; every call ends |
| `nmbm_walk` | 5 blocks, every block state table, start, count up to 2, limit past the chip | 179 thousand | the loops compute what the set definitions of `NmbmFlash` say, and end |
| `nmbm_mtd` | 3 tasks | 7 thousand | one task at a time, no lost wake-up, sleepers wake, a free device is taken |
| `mcu` | 3 threads (synchronous with a retry, synchronous, unacknowledged), 2 sequence numbers, the flag goes off once, unloading | 513 thousand | no answer to a message given back, nothing freed is reachable, packets there, calls return |
| `mcu_numbers` | 3 synchronous threads, one of them with a retry, 2 sequence numbers, the flag goes off once, unloading | 3.4 million | right answer to right command while no number is used twice, nothing freed is reachable |
| `tokens` | 4 tokens, marks 1 and 3, 7 packets | 124 thousand | tokens conserved, never replaced, counters exact, a token is there, the queue drains |
| `reorder` | window 3, modulus 12, frames 9 to 13, 3 session events | 615 thousand | sorted, fits, in order, none held back, timer not lost, delivered |
| `claim_*` | the smallest instance that shows it | | three statements of comments that the code does not meet, section 5 |

NMBM properties:

* `KeepsPromises`: what the last finished write or erase of a logical block left
  is what a read of a writable device returns, across bad blocks, table rewrites and
  power cuts, with forced-create and without. It is stated until `nmbm_map_block()`
  has passed over a bad block (`skipped`, the first finding of section 5). One loss
  is in the code's own design and gives the promises up (`GiveUp`): a driver that is
  down to one table rewrites it in place, a power cut between the erase and the write
  leaves no table on the chip (`TableLost`), and with forced-create the next attach
  builds a fresh mapping in which remapped blocks are not found. The instance of
  `nmbm_power` gets there: without `GiveUp` the property is violated in it. A driver
  that has two tables does not lose them (`Recoverable`); `ImplementsStore` says the
  same of the register, which may be lost only when it is down to a single copy.
* `ImplementsStore`: the initial state and every step are those of `NmbmStore`
  under the mapping of `NmbmRefinement`. No sequence of failures and power cuts
  brings an older mapping back, and an operation of a writable device with two
  tables ends with the mapping saved.
* `Injective`, `RegionsApart`: no sharing, and the layout drawn above.
* `Recoverable`: while the driver has two tables, a power cut now leaves one that
  attach finds, whichever torn blocks cannot be read.
* `CopiesAgree`: when the device is idle both tables are on the chip with the
  same mapping.

  All of these hold until `nmbm_map_block()` passes over a bad block (`skipped`).
  For `Recoverable`, `CopiesAgree` and `ImplementsStore` that premise came from the
  proofs: the spare pool then still holds a mapped block, a later table write may use
  that block, and `nmbm_check_info_table()` refuses a table that maps a block at or
  below itself, so the driver has a table that no attach would load. It takes a chip on which the
  pool is long enough and has bad blocks in it from the start, such as eleven blocks
  with 5, 7 and 8 bad; on the instances above it does not happen.
* `SignatureStays`: what `nmbm_find_signature()` finds never changes.
* `EveryCallEnds`: the update, rescue, retry and remap loops give up.

`Mcu`:

* `AnswersOwn`: an answer completes the command it answers, however late it comes
  and however often the command is sent again, since a waiting message keeps its
  number and a retransmission keeps the number it had. It is stated until a number
  is given out for a second time (`reused`). After that it fails:
  `AndesGetCmdMsgSeq()` looks only at the commands that wait now, so the late answer
  of one that has timed out completes the command that has its number 15 commands
  later. The run `mcu_numbers` has three waiting threads for two numbers, so every
  number is soon in use.
* `NoLateAnswer`, `NoDangling`: stated while the ring has never been full and
  `MCU_INIT` is set; with a full ring they fail (section 5).
* `PacketThere`: a message that is put on the ring has a packet, whoever carries
  it and however often.
* `SendEnds`: every call of `AndesSendCmdMsg()` returns, also when its message was
  dropped or the driver is unloaded: the timeout sees to it.

`TxFlow`: `Conserved`, `NeverReplaced`, `NeverOverwritten`, `CountersExact`,
`TokenThere` and `Drains` (a queue with packets is empty some time). `Drains`
needs two facts of the instance: `PerBand = N`, since a band over its share stops
the task without marking the pool low, and `Mixed = FALSE`, since an event wakes
only the queue of its last token. Both cases are hazards in `PROJECT.json`.

`Reorder`: `Sorted`, `WindowFits`, `InOrder`, `NoneHeldBack` are stated while the
three threads have not overlapped (`raced`): `LastIndSeq` is written outside the
lock, and with an overlap an old frame may be passed up. `WindowFits`: fewer than
`BAWinSize` frames wait, and between calls each has one of the `BAWinSize` numbers
after `LastIndSeq`, which is what makes the comparisons modulo 4096 right. `InOrder`:
frames are passed up in the sender's order, each once, with one exception that the
formula names: a retransmission of a frame that waits, for which the pool has no
block, makes `ba_enqueue_reordering_packet()` pass up what waits up to its number, the
waiting copy included (`ba_action.c` 2101), and then the retransmission itself
(2104), so the frame goes up twice in a row. `again` remembers that this is about to
happen. `NoLostTimer` and `Delivered` hold with the receive path and the timer
overlapping at will; they are stated for sessions that were not made or ended under a
frame (`torn`).

Bounds. Five failing blocks on a chip of nine, two of them bad from the factory, exhaust
the tables' region, the spare pool and the blocks for the signature, so every give-up
branch is taken; five on eleven reach the retry of the temporary table from a lower
block, which needs spares behind both tables. Two attaches give recovery after a power
cut, three give recovery from a recovery. One to three logical blocks suffice: blocks
interact only through the spare pool and the table. In `mcu`, two numbers for two
waiting messages are as few as will do, and the third thread is there to carry their
messages; in `mcu_numbers` there is one number less than there are waiting threads, so
that a thread finds none free (`NextSeq` is empty, the code spins) and numbers are used
twice. In `tokens`, seven packets go round a ring of five slots more than once. In
`reorder`, frames 9 to 13 cross the wrap at 12 in a window of three, one frame beyond
the window; three session events are made, renewed, ended or made, ended, made. Between
them the passing runs take every action.

Fairness. `Nmbm!FairSpec` has weak fairness of `Working`, the steps of an operation
or attach that has been called: it is sequential code that runs on. New calls,
power cuts and attaches are not fair. In `NmbmMtd` each task's own steps are weakly
fair: the scheduler runs a runnable task, and an operation on the chip ends. No
strong fairness is assumed, so nothing is said about which of several waiters gets
the device; `nmbm_mtd_shutdown()` may wait for as long as others keep taking it.
In `Mcu` threads and the tasklet run on and a wait times out; the firmware need not
answer. In `TxFlow` task and handler run on, and each packet on the air is
reported: strong fairness, since a report waits for the handler to be in its loop.
In `Reorder` the three threads run on and an armed timer fires; strong fairness of
`TimerLook(TRUE)` says that a frame does not stay younger than its timeout for
ever, the timer being armed again and again.

`CHECK_DEADLOCK FALSE` is set where the system stops: after shutdown in
`nmbm_mtd`, when all messages have been sent in `mcu`, when the packets, frames and
session events of the instance are used up in `tokens` and `reorder`.

## 4. What is proved

All proofs hold for every geometry (`GeometryAssumption`: at least one data block
and four management blocks, factory-bad blocks anywhere), every number of
failures and attaches (`BoundsAssumption`), both values of `ForcedCreate`, every
set of tasks, every set of messages, of synchronous and of retried ones with every
number of tries and of sequence numbers (`MsgsAssumption`, `NoMsgAssumption`), every
size and marks of the token pool (`NAssumption`, `MarksAssumption`), and every window
and modulus (`SeqsAssumption`).

* `TypeCorrect` (`NmbmProofs`): `Spec => []TypeOK`. Every block number the core
  computes is a block of the chip. `TypeOK` alone is not inductive; `TInv` adds
  `Control`, where the control state says more than the types: a program is
  below its limit (`wr.ba < wr.limit`), which keeps `wr.ba + 1` on the chip when
  it becomes `mapping_blocks_ba`; a `behind` erase has a block after its limit;
  the retry loop of an erase has a physical block to erase, also while an update
  runs on its behalf. The proof has one lemma for each group of actions.
* `SignatureKept` (`NmbmProofs`): `Spec => SignatureStays`. The invariant
  `SInv` says that at most one unmarked block holds a signature
  (`OneSignature`); before there is one the driver has no layout and memory knows
  every bad mark (`Unsigned`); after, the tables, the pool and its top are below it
  and no logical block is mapped to it (`Below`); and every table write and range
  erase ends below it (`WritesBelow`). The step lemmas then show that the set of
  signed blocks never changes, and `SameFound` that the search sees nothing else.
  After attach `Below` rests on `nmbm_check_info_table()`, which refuses a table
  that maps a logical block to the signature (`FoundChecked`).
* `RegionsStayApart`, `NoneShared` (`NmbmLayoutProofs`): `RegionsApart` and
  `Injective`. Stale tables count as well as current ones, since a power cut may
  make them the ones that are loaded, so the invariant `LInv` is about every
  readable table on the chip (`Tables`). `Chip` says that there are at most two
  (`TablesTwo`); that each lies below the signature and on blocks that its own
  states call good; that it maps no block from `MgmtStart` up to itself or to a
  later table, and none twice (`Sound`); and that of two tables the one written
  last knows all the bad blocks of the other (`TablesOrdered`) and no table fits in
  front of the second that would not be in front of the first (`TablesLow`).
  `Memory`, `Known` and `Regions` say the same of what is in memory against the
  tables and the pool; `Underway`, `Place` and `Passed` what each of the eleven jobs
  of a table write has for its range, where tables can be meanwhile, and that the
  blocks it has passed are bad (`Full`). The last is the argument for attach: what it
  finds in front of the current main table could only be a stale table, and every
  block there is bad or unreadable. All of it holds while nothing was skipped.
* `CopiesStayEqual`, `NeverLost` (`NmbmPromiseProofs`): `CopiesAgree` and
  `Recoverable`. `Copies` says for each job which table stays on the chip with the
  mapping last written or loaded while another is written: the backup table while
  the main one is, the temporary table during the rescue of the main one, the newer
  one while an attach repairs the older.
* `PromisesKept` (`NmbmPromiseProofs`): `KeepsPromises`, for both values of
  `ForcedCreate`. `Vows` says that a promise to the user has one block: it holds the
  data, every table on the chip maps the logical block to it and calls it good, and so
  does memory while the driver is attached. It is inductive only together with
  `Flushed` (what memory maps is what was last written to a table, unless an update of
  the tables is on its way or no table is left), `Phases` (which steps find the device
  writable, and that an update on behalf of an erase makes it read-only only when no
  table is left) and `Unpromised`: the block being erased has no promise, which is
  where the order of `nmbm_erase_logic_block()` counts (mark, map, update the tables,
  and only then erase), and a chip without power and without a table has none, which
  is where forced-create counts. The last follows at a power cut from `Copies`: a
  driver that knows a backup table has a table on the chip at every moment
  (`TwoTables`, `TableSpared`, `TableSurvives`), and one that knows none gives the
  promises up with its table.
* `TablesAreARegister` (`NmbmPromiseProofs`): `Spec => ImplementsStore`, with any
  `ForcedCreate`. What the register holds (`Stored`) is what an attach would load;
  `StoredFound` shows that this is what the table search of `NmbmFlash` finds, and
  `Register` that it is the mapping of the table with the highest write count
  (`Newest`). `Saved` says which table that is while another is written: the backup
  table while the main one is, the temporary table during the rescue, the main one
  while an attach repairs the backup; and that all agree while the backup table is
  written after the main one. So an erase of a job's range leaves the newest table
  or loses the only copy, which the register allows (`RangeStored`), and a table
  that has been written is the newest (`WrittenNewest`): this is the one step in
  which the register takes what is in memory. `Settled`, from `Flushed` and
  `Copies`, is the obligation at the end of an operation. One lemma for each group
  of actions maps it to a step of `NmbmStore` or a stutter, and `NextRefines` puts
  them together.
* `OneAtATime`, `WakeupsArrive` (`NmbmMtdProofs`): mutual exclusion, and that no
  task sleeps while the device is free. The invariant ties `nm->state` to the one
  task inside the core and every sleeping task to the wait queue.
* `TokensConserved`, `TokensNotReplaced`, `TokensNotOverwritten`,
  `CountersAreExact` (`TokenPoolProofs`), first of the pool alone, then of `TxFlow`
  through `FlowUsesPool`. The comment of `token.h` says that equal indices mean an
  empty ring; between the steps of the two functions that is not so, and the head
  may pass the slot that the tail is filling. The invariant therefore takes the
  ring from `First` to `End`, which are one slot further than the indices while a
  slot is cleared or filled and its index not moved (`Ring`); says that each
  token is in the ring, with a packet or on its way back, and in one of them only
  except while being taken (`Parts`, `Once`, `Taken`); and that the counters are
  the cardinality of the tokens with packets, give or take the calls in progress
  (`Counted`). That the slot at the tail is empty is a counting argument: `N`
  tokens cannot fill `N + 1` slots.
* `FlowTypes`, `TokenIsThere`: in the composed system the free count is never
  negative when the task looks at it (`Seen`), so the unsigned comparison is right,
  and once the task has seen a token it is still there when it takes it: the count
  follows the ring when a token is put back, and nobody else takes one.
* `ReorderTypes`, `TimerNotLost` (`ReorderProofs`): the first says that sequence
  numbers stay within `MAXSEQ` through every subtraction and wrap. The second needs
  that `SetFlushTimer` is set only with the timer armed or about to clear it
  (`Armed`); that a frame that waits has it set, or a flush under way that will look
  at the list at its end, or is about to be passed up with its session (`Watched`);
  that nothing is received for a session being deleted (`Apart`); and that a session
  that is over has no frames (`Over`). `Armed` and `Watched` together are the
  argument why `ba_reorder_timeout_Exec()` clears the flag before it looks at the
  list: in the other order a frame queued in between would be left without a timer.
* `ListSorted`, `WindowNeverFull`, `PassedUpInOrder`, `NothingHeldBack`
  (`ReorderProofs`), for every window and modulus, until two of the three
  threads overlap (`raced`). The code compares numbers modulo 4096; the frames it
  stands for are counted without wrapping. The invariant (`Steady`) says with the
  latter where a step has got to: `Last`, the frame `LastIndSeq` stands for, counted
  down from the newest frame of the sender (`front`); `Target`, the end of the jump
  under way; and from these `Edge`, beyond which every waiting frame lies, and
  `Passed`, beyond which none has been passed up. Between them they say for each
  place of the receive path and the timer which part of the list has been passed up
  and which is still due. The list is in the order of the frames (`Ranked`) and lies
  between `Edge` and the end of the window (`Inside`); what the steps compare is
  closer than half the modulus (`Near`). From that, `SmallerMeans`, `SameMeans` and
  `StepOneMeans` show that `SEQ_SMALLER()`, equality and `SEQ_STEPONE()` mean `<`,
  `=` and successor, which is where `Seqs >= 4 * BAWinSize` is used, and `UpToMeans`,
  `AfterMeans` and `InsertedIs` that the loops over the list take and insert what
  they should. A frame about to be passed up directly has not been passed up and does not wait
  (`Fresh`), which is what each-once rests on; with a copy that waits and no free block
  it is the exception of section 3. That fewer than `BAWinSize` frames wait is a counting argument: so many
  numbers do not fit between the last frame indicated and the window's end.
* `McuTypes`, `PacketsThere`, `NothingDangles`, `NoAnswerAfterReturn`,
  `AnswersAreOwn` (`McuProofs`). The invariant `IInv` says where a message can be: in
  `txq` or in the hands of one thread (`Waiting`), in `ackq`, or in `tx_doneq`, in one
  place only and linked once, except that a thread still writing the ring's index
  holds a message that is on another queue by then or back from it (`Hands`,
  `Apart`); which of these are possible at each place of the message's own thread
  (`Threads`); that whatever waits to be sent has its packet and was not answered, and
  that what may be sent again has its copy unless it waits (`Packets`); that a thread
  does not leave a message that waits to be sent (`Awaited`); and that active
  messages have different numbers and an unanswered command has the number of its own
  message only (`Numbers`, while `reused` is not set). The invariant is about every
  thread's messages at once, as any thread may carry any message.
* `WalksAgree` (`NmbmWalkProofs`): `LoopsAgree` for every chip, block state table,
  start, count and limit. While a loop runs, it has been past as many good blocks as
  its counter has gone down (`Down`, `Up`); and `nmbm_try_reserve_blocks()`, which
  walks up again with one block less to skip, has found that there are not more good
  blocks than the last walk had to skip. No two good blocks have as many before them
  (`OnlyOne`), so the block where a loop stops is the one of the definition.
* The lemmas at the head of `NmbmProofs` say what the walks, the reservation, the
  initial mapping, the signature search, the table search and the top of the pool
  return; those of `NmbmLayoutProofs` what a flash operation does to the tables.

Only model-checked: liveness (`EveryCallEnds`, `LoopsEnd`, `SleepEnds`, `FreeIsTaken`,
`SendEnds`, `Drains`, `Delivered`). It rests on fairness and ENABLED, which the
prover does not handle. Every invariant and action property that a run checks is
proved.

## 5. Where code and text disagree

Each is a run that ends in a counterexample; `PROJECT.json` quotes the lines.

1. `MapsUnusedBlock` (`claim_unused_block`): `nmbm_map_block()` lowers
   `mapping_blocks_top_ba` by one even when its walk has passed over bad blocks, so
   a later call can hand the same physical block to a second logical block, and a
   table written there is one that attach refuses (section 3).
2. `FreedWhenDone` (`claim_mcu`): when the command ring is full, the thread that
   carries a message frees it, although the message's own thread sleeps on it
   (`andes_core.c:690`).
3. `EmptyWhenDeleted` (`claim_reorder`): `ba_resrc_rec_del()` flushes the list "to
   make sure the reordering buffer will be empty", and a frame that passed the
   check of the status before is inserted after.

Also seen while reading, without a run of their own:
`nmbm_mark_tables_clean()` (1063) clears the flag of blocks found bad during that
very write, where 1566 says that updating goes on until none is found; a logical
block made unusable for want of spares (2449) may stay mapped in the tables, where
2448 says that they are updated; a device announced as read-only (2033) refuses
reads (2578); the result of the update before an erase (2459) is ignored, where
2456 says that the update comes first; a command that was dropped while the in-band
flag was off and is then sent again has never been given a number
(`andes_core.c` 653), so its answer carries none and is taken for an event
(`andes_mt.c` 4537), and the command times out until its tries are used up; a
retransmission of a waiting frame is passed up a second time when there is no free
block (`ba_action.c` 2101 to 2104, section 3), where the insertion (325) gives it up
as a duplicate.

## 6. Not modelled, and the plan

Done: the core of NMBM with its abstract register and the refinement, its walks,
the device lock; the command queue, the token pool with its flow control, and the
block-ack recipient of mt_wifi; the theorems of section 4.

Next, in this order:

1. `NmbmDevices`: probe, remove and the list `nmbm_devs` with its mutex
   (`nmbm-mtd.c` 575 to 795), where `nmbm_remove()` adds instead of deletes; composed
   with `NmbmMtd`.
2. A-MSDU in `Reorder` (`CurMpdu` against the timer) and the originator's side of
   `ba_action.c`.

Left out for good: firmware and hardware interfaces, third-party daemons and web
interface, the build system (see `components` in `PROJECT.json`).
