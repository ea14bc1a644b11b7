----------------------------- MODULE NmbmFlash -----------------------------
(***************************************************************************)
(* The chip seen by the NAND Mapped-block Management layer (nmbm-core.c)   *)
(* and the pure functions it computes on its tables: walks over good       *)
(* blocks, the initial mapping, the signature search and the search for    *)
(* information tables when an existing chip is attached.                   *)
(*                                                                         *)
(* Abstractions: a block is one unit (its pages are written and verified   *)
(* together); one information table fits in one block (size2blk = 1: true  *)
(* of every chip with fewer than about 30000 blocks of 128 KiB); a         *)
(* checksum matches exactly the bytes that were written.                   *)
(***************************************************************************)
EXTENDS Integers, FiniteSets

CONSTANTS
    BlockCount,     \* ni->block_count
    MgmtStart,      \* ni->mgmt_start_ba, first block of the management area
    FactoryBad      \* blocks the manufacturer marked bad

ASSUME GeometryAssumption ==
    /\ BlockCount \in Nat
    /\ MgmtStart \in Nat \ {0}
    /\ MgmtStart + 4 <= BlockCount
    /\ FactoryBad \subseteq 0 .. BlockCount - 1

PB == 0 .. BlockCount - 1           \* physical blocks
LB == 0 .. MgmtStart - 1            \* logical blocks
None == -1                          \* block_mapping[lb] of an unusable block

BlockStates == {"bad", "remap", "good"}
Mappings == [LB -> PB \cup {None}]

(* An information table: the write count, the block states and the mapping *)
(* that nmbm_generate_info_table_cache() copies into info_table_cache.     *)
Image == [wc : Nat, st : [PB -> BlockStates], map : Mappings]

(* What a block holds.  "torn": erased for a table whose program has not   *)
(* finished, so its pages may fail ECC.                                    *)
Blank == [kind |-> "blank"]
Torn == [kind |-> "torn"]
Signature == [kind |-> "signature"]
Data(lb) == [kind |-> "data", lb |-> lb]
Table(img) == [kind |-> "table", img |-> img]
Contents == {Blank, Torn, Signature} \cup [kind : {"data"}, lb : LB]
                \cup [kind : {"table"}, img : Image]

AllGood == [b \in PB |-> "good"]
Lowest(S) == CHOOSE b \in S : \A c \in S : b <= c
Highest(S) == CHOOSE b \in S : \A c \in S : b >= c
Least(m, n) == IF m <= n THEN m ELSE n

-----------------------------------------------------------------------------
(* NMBM_SPARE_BLOCK_*: the spare blocks kept behind a table of n blocks.   *)
SpareBlockCount(n) ==
    LET val == (n + 1) \div 2 IN IF val < 2 THEN 2 ELSE val

InfoTableSpares == SpareBlockCount(1)

GoodIn(st, lo, hi) == {b \in lo .. hi : st[b] = "good"}

(* Walking down from ba, skipping count good blocks, stops at a good block *)
(* above limit; None when there is none.                                   *)
WalkDesc(st, ba, count, limit) ==
    LET good == GoodIn(st, limit + 1, ba)
        hits == {b \in good : Cardinality({c \in good : c > b}) = count}
    IN  IF hits = {} THEN None ELSE Lowest(hits)

(* nmbm_try_reserve_blocks(): skip count good blocks from ba on, or as     *)
(* many as there are below limit; None when no block is good.              *)
Reserve(st, ba, count, limit) ==
    LET good == GoodIn(st, ba, limit - 1)
        skip == Least(count, Cardinality(good) - 1)
        hits == {b \in good : Cardinality({c \in good : c < b}) = skip}
    IN  IF hits = {} THEN None ELSE Lowest(hits)

TryReserve(st, ba, limit) == Reserve(st, ba, InfoTableSpares, limit)

(* nmbm_scan_badblocks(): marked blocks become bad, the rest keep st.      *)
Marked(st, blocks) == [b \in PB |-> IF b \in blocks THEN "bad" ELSE st[b]]

(* nmbm_build_mapping_table(): the n-th logical block is the n-th block    *)
(* below MgmtStart that is not bad.                                        *)
BuildMapping(st) ==
    LET usable == {b \in LB : st[b] # "bad"}
        nth(lb) == {b \in usable : Cardinality({c \in usable : c < b}) = lb}
    IN  [lb \in LB |-> IF nth(lb) = {} THEN None ELSE Lowest(nth(lb))]

BuiltCount(st) == Cardinality({b \in LB : st[b] # "bad"})

-----------------------------------------------------------------------------
(* nmbm_find_signature(): the highest unmarked block with a signature,     *)
(* down to one block below the management area; None when there is none.   *)
FindSignature(phys, bad) ==
    LET found == {b \in MgmtStart - 1 .. BlockCount - 1 :
                        b \notin bad /\ phys[b] = Signature}
    IN  IF found = {} THEN None ELSE Highest(found)

(* nmbm_check_info_table(): no logical block of the table at block b may   *)
(* map between the data area and the table's end or to the signature, and  *)
(* the table must not call its own block bad (st is the state in memory).  *)
CheckInfoTable(img, st, b, sig) ==
    /\ \A lb \in LB : /\ ~ (img.map[lb] >= MgmtStart /\ img.map[lb] < b + 1)
                      /\ img.map[lb] # sig
    /\ st[b] = "good" => img.st[b] = "good"

(* mapping_blocks_top_ba as that check computes it: one below the lowest   *)
(* block above the table that is mapped, or below the signature.           *)
MappedAbove(img, b, sig) == {p \in b + 1 .. sig - 1 : \E lb \in LB : img.map[lb] = p}
MappingTop(img, b, sig) == Lowest(MappedAbove(img, b, sig) \cup {sig}) - 1

(* nmbm_search_info_table() with nmbm_try_load_info_table(): the first     *)
(* readable block from lo on that holds a table that passes the check.     *)
TableAt(phys, unread, st, lo, sig) ==
    LET found == {b \in lo .. sig - 2 :
                    /\ st[b] = "good" /\ b \notin unread
                    /\ phys[b].kind = "table"
                    /\ CheckInfoTable(phys[b].img, st, b, sig)}
    IN  IF found = {} THEN None ELSE Lowest(found)

(* The blocks that search looks at; those it cannot read it marks bad in   *)
(* memory only.                                                            *)
Searched(lo, hit, sig) == lo .. (IF hit = None THEN sig - 2 ELSE hit)

(* data_block_count after loading: past the last mapped logical block.     *)
LoadedCount_PastEnd(map) == Cardinality({lb \in LB : map[lb] # None}) + 1     \* mutant
LoadedCount(map) ==
    LET used == {lb \in LB : map[lb] # None}
    IN  IF used = {} THEN MgmtStart ELSE Highest(used) + 1
=============================================================================
