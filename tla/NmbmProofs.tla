----------------------------- MODULE NmbmProofs -----------------------------
(***************************************************************************)
(* Proofs about Nmbm, for every chip and every number of failures.         *)
(***************************************************************************)
EXTENDS Nmbm, FiniteSetTheorems, WellFoundedInduction, TLAPS

(***************************************************************************)
(* What the functions of NmbmFlash return, for every geometry and every    *)
(* content of the chip.                                                    *)
(***************************************************************************)

(* A non-empty set of natural numbers has a lowest element.                *)
LEMMA LowestIn ==
  ASSUME NEW S \in SUBSET Nat, S # {}
  PROVE  Lowest(S) \in S /\ \A c \in S : Lowest(S) <= c
<1> DEFINE R == OpToRel(<, Nat)
<1>1. PICK x \in S : \A y \in S : ~ (<<y, x>> \in R)
  BY NatLessThanWellFounded, WFMin
<1>2. \A y \in S : ~ (y < x)
  <2> SUFFICES ASSUME NEW y \in S, y < x PROVE <<y, x>> \in R
    BY <1>1
  <2>1. x \in Nat /\ y \in Nat
    OBVIOUS
  <2> QED
    BY <2>1, Zenon DEF OpToRel
<1>3. \E b \in S : \A c \in S : b <= c
  BY <1>2
<1> QED
  BY <1>3 DEF Lowest

(* A non-empty bounded set of natural numbers has a highest element.       *)
LEMMA HighestIn ==
  ASSUME NEW S, NEW n \in Nat, S \subseteq 0 .. n, S # {}
  PROVE  Highest(S) \in S /\ \A c \in S : c <= Highest(S)
<1> DEFINE T == {n - b : b \in S}
<1>1. \A c \in S : c \in Int /\ c <= n /\ n - c \in T
  OBVIOUS
<1>2. T # {}
  BY <1>1
<1>3. \A t \in T : t \in Nat
  BY <1>1
<1>4. PICK t \in T : \A u \in T : t <= u
  BY <1>2, <1>3, LowestIn
<1>5. PICK b \in S : t = n - b
  BY <1>4
<1>6. \A c \in S : c <= b
  <2> SUFFICES ASSUME NEW c \in S PROVE c <= b
    OBVIOUS
  <2>1. n - b <= n - c
    BY <1>1, <1>4, <1>5
  <2> QED
    BY <2>1, <1>1, <1>5
<1>7. \E h \in S : \A c \in S : h >= c
  BY <1>6
<1> QED
  BY <1>7 DEF Highest

(* The walk down returns a good block strictly above its limit.            *)
LEMMA WalkDescIn ==
  ASSUME NEW s, NEW ba \in PB, NEW count, NEW limit \in PB,
         WalkDesc(s, ba, count, limit) # None
  PROVE  /\ WalkDesc(s, ba, count, limit) \in limit + 1 .. ba
         /\ s[WalkDesc(s, ba, count, limit)] = "good"
<1> DEFINE good == GoodIn(s, limit + 1, ba)
           hits == {b \in good : Cardinality({c \in good : c > b}) = count}
<1>1. WalkDesc(s, ba, count, limit) = Lowest(hits) /\ hits # {}
  BY DEF WalkDesc
<1>2. hits \in SUBSET Nat
  BY GeometryAssumption DEF GoodIn, PB
<1>3. Lowest(hits) \in good
  BY <1>1, <1>2, LowestIn
<1> QED
  BY <1>1, <1>3 DEF GoodIn

(* Skipping one block, the walk does not return the block it starts at.    *)
LEMMA WalkDescSkips ==
  ASSUME NEW s, NEW ba \in PB, NEW limit \in PB,
         WalkDesc(s, ba, 1, limit) # None
  PROVE  WalkDesc(s, ba, 1, limit) < ba
<1> DEFINE good == GoodIn(s, limit + 1, ba)
           hits == {b \in good : Cardinality({c \in good : c > b}) = 1}
<1>1. WalkDesc(s, ba, 1, limit) = Lowest(hits) /\ hits # {}
  BY DEF WalkDesc
<1>2. hits \in SUBSET Nat
  BY GeometryAssumption DEF GoodIn, PB
<1>3. Lowest(hits) \in hits
  BY <1>1, <1>2, LowestIn
<1>4. {c \in good : c > ba} = {}
  BY GeometryAssumption DEF GoodIn, PB
<1>5. Lowest(hits) # ba
  <2>1. Cardinality({c \in good : c > Lowest(hits)}) = 1
    BY <1>3
  <2>2. Cardinality({c \in good : c > ba}) = 0
    BY <1>4, FS_EmptySet
  <2> HIDE DEF hits, good
  <2> QED
    BY <2>1, <2>2
<1> QED
  BY <1>1, <1>3, <1>5, GeometryAssumption DEF GoodIn, PB

(* Spare blocks are reserved from the given block on, below the limit.     *)
LEMMA TryReserveIn ==
  ASSUME NEW s, NEW ba \in Nat, NEW limit \in Int,
         TryReserve(s, ba, limit) # None
  PROVE  TryReserve(s, ba, limit) \in ba .. limit - 1
<1> DEFINE good == GoodIn(s, ba, limit - 1)
           skip == Least(InfoTableSpares, Cardinality(good) - 1)
           hits == {b \in good : Cardinality({c \in good : c < b}) = skip}
<1>1. TryReserve(s, ba, limit) = Lowest(hits) /\ hits # {}
  BY DEF TryReserve, Reserve
<1> HIDE DEF skip
<1>2. hits \in SUBSET Nat
  BY DEF GoodIn
<1>3. Lowest(hits) \in good
  BY <1>1, <1>2, LowestIn
<1> QED
  BY <1>1, <1>3 DEF GoodIn

-----------------------------------------------------------------------------
(* A subset of an interval of naturals is finite and no larger than it.    *)
LEMMA CountBelow ==
  ASSUME NEW n \in Nat \ {0}, NEW S, S \subseteq 0 .. n - 1
  PROVE  Cardinality(S) \in 0 .. n
<1>1. IsFiniteSet(0 .. n - 1) /\ Cardinality(0 .. n - 1) = n
  BY FS_Interval
<1>2. IsFiniteSet(S) /\ Cardinality(S) <= n
  BY <1>1, FS_Subset
<1>3. Cardinality(S) \in Nat
  BY <1>2, FS_CardinalityType
<1> QED
  BY <1>2, <1>3

(* The initial mapping maps every logical block into the data area, if at  *)
(* all.                                                                    *)
LEMMA BuildMappingIn ==
  ASSUME NEW s
  PROVE  BuildMapping(s) \in [LB -> LB \cup {None}]
<1> DEFINE usable == {b \in LB : s[b] # "bad"}
           nth(lb) == {b \in usable : Cardinality({c \in usable : c < b}) = lb}
<1>1. ASSUME NEW lb \in LB, nth(lb) # {} PROVE Lowest(nth(lb)) \in LB
  <2>1. nth(lb) \in SUBSET LB
    OBVIOUS
  <2>2. LB \subseteq Nat
    BY GeometryAssumption DEF LB
  <2>3. nth(lb) \in SUBSET Nat
    BY <2>1, <2>2
  <2> HIDE DEF nth
  <2>4. Lowest(nth(lb)) \in nth(lb)
    BY <1>1, <2>3, LowestIn
  <2> QED
    BY <2>1, <2>4
<1>2. BuildMapping(s) = [lb \in LB |-> IF nth(lb) = {} THEN None ELSE Lowest(nth(lb))]
  BY DEF BuildMapping
<1> HIDE DEF nth
<1> QED
  BY <1>1, <1>2

(* nmbm_build_mapping_table() maps at most the blocks of the data area.    *)
LEMMA BuiltCountIn ==
  ASSUME NEW s
  PROVE  BuiltCount(s) \in 0 .. MgmtStart
<1>1. {b \in LB : s[b] # "bad"} \subseteq 0 .. MgmtStart - 1
  BY DEF LB
<1> QED
  BY <1>1, CountBelow, GeometryAssumption DEF BuiltCount

(* The signature found is the highest one that is not marked bad.          *)
LEMMA FindSignatureIn ==
  ASSUME NEW chip, NEW marks, NEW sig, sig = FindSignature(chip, marks), sig # None
  PROVE  /\ sig \in MgmtStart - 1 .. BlockCount - 1
         /\ sig \notin marks /\ chip[sig] = Signature
         /\ \A b \in MgmtStart - 1 .. BlockCount - 1 :
                b \notin marks /\ chip[b] = Signature => b <= sig
<1> DEFINE found == {b \in MgmtStart - 1 .. BlockCount - 1 :
                        b \notin marks /\ chip[b] = Signature}
<1>1. found # {} /\ sig = Highest(found)
  BY DEF FindSignature
<1>2. found \subseteq 0 .. BlockCount /\ BlockCount \in Nat
  BY GeometryAssumption
<1>3. Highest(found) \in found /\ \A c \in found : c <= Highest(found)
  BY <1>1, <1>2, HighestIn
<1> QED
  BY <1>1, <1>3

(* Without a signature found, no unmarked block from there on has one.     *)
LEMMA FindSignatureNone ==
  ASSUME NEW chip, NEW marks, FindSignature(chip, marks) = None
  PROVE  \A b \in MgmtStart - 1 .. BlockCount - 1 : ~ (b \notin marks /\ chip[b] = Signature)
<1> DEFINE found == {b \in MgmtStart - 1 .. BlockCount - 1 :
                        b \notin marks /\ chip[b] = Signature}
<1> SUFFICES ASSUME found # {} PROVE FALSE
  OBVIOUS
<1>1. FindSignature(chip, marks) = Highest(found)
  BY DEF FindSignature
<1>2. found \subseteq 0 .. BlockCount /\ BlockCount \in Nat
  BY GeometryAssumption
<1>3. Highest(found) \in found
  BY <1>2, HighestIn
<1> QED
  BY <1>1, <1>3, GeometryAssumption DEF None

(* A table found is a table that passed the check, below the signature.    *)
LEMMA TableAtIn ==
  ASSUME NEW chip, NEW unread, NEW s, NEW lo \in Nat, NEW sig \in Int,
         NEW b, b = TableAt(chip, unread, s, lo, sig), b # None
  PROVE  /\ b \in lo .. sig - 2 /\ b \notin unread
         /\ chip[b].kind = "table"
         /\ CheckInfoTable(chip[b].img, s, b, sig)
<1> DEFINE found == {c \in lo .. sig - 2 :
                    /\ s[c] = "good" /\ c \notin unread
                    /\ chip[c].kind = "table"
                    /\ CheckInfoTable(chip[c].img, s, c, sig)}
<1>1. found # {} /\ b = Lowest(found)
  BY DEF TableAt
<1>2. found \in SUBSET Nat
  OBVIOUS
<1>3. Lowest(found) \in found
  BY <1>1, <1>2, LowestIn
<1> QED
  BY <1>1, <1>3

(* The search finds the first block it looks at that holds a good table.   *)
LEMMA TableAtFirst ==
  ASSUME NEW chip, NEW unread, NEW s, NEW lo \in Nat, NEW sig \in Int,
         NEW c \in lo .. sig - 2, s[c] = "good", c \notin unread,
         chip[c].kind = "table", CheckInfoTable(chip[c].img, s, c, sig)
  PROVE  TableAt(chip, unread, s, lo, sig) # None
<1> DEFINE found == {b \in lo .. sig - 2 :
                    /\ s[b] = "good" /\ b \notin unread
                    /\ chip[b].kind = "table"
                    /\ CheckInfoTable(chip[b].img, s, b, sig)}
<1>1. found \in SUBSET Nat /\ c \in found
  OBVIOUS
<1> HIDE DEF found
<1>2. Lowest(found) \in Nat
  BY <1>1, LowestIn
<1>3. TableAt(chip, unread, s, lo, sig) = Lowest(found)
  BY <1>1 DEF TableAt, found
<1> QED
  BY <1>2, <1>3 DEF None

(* The top of the spare pool of a loaded table is between the table and    *)
(* the signature.                                                          *)
LEMMA MappingTopIn ==
  ASSUME NEW img, NEW b \in Nat, NEW sig \in Nat, b < sig
  PROVE  MappingTop(img, b, sig) \in b .. sig - 1
<1> DEFINE above == MappedAbove(img, b, sig) \cup {sig}
<1>1. above \in SUBSET Nat /\ above # {} /\ \A p \in above : b < p /\ p <= sig
  BY DEF MappedAbove
<1> HIDE DEF above
<1>2. Lowest(above) \in above
  BY <1>1, LowestIn
<1> QED
  BY <1>1, <1>2 DEF MappingTop, above

(* The data_block_count of a loaded table is within the data area.         *)
LEMMA LoadedCountIn ==
  ASSUME NEW m
  PROVE  LoadedCount(m) \in 0 .. MgmtStart
<1> DEFINE used == {lb \in LB : m[lb] # None}
<1>1. CASE used = {}
  BY <1>1, GeometryAssumption DEF LoadedCount
<1>2. CASE used # {}
  <2>1. used \subseteq 0 .. MgmtStart /\ MgmtStart \in Nat
    BY GeometryAssumption DEF LB
  <2>2. Highest(used) \in used
    BY <1>2, <2>1, HighestIn
  <2> QED
    BY <1>2, <2>2, GeometryAssumption DEF LoadedCount, LB
<1> QED
  BY <1>1, <1>2

-----------------------------------------------------------------------------
(***************************************************************************)
(* The types of the driver's state.                                        *)
(***************************************************************************)

(* What TypeOK needs to be inductive: where the control state says more    *)
(* about wr, ret and map than their types do.                              *)
Control ==
    /\ pc = "prog" => wr.ba < wr.limit
    /\ pc = "sign" => wr.ba \in PB
    /\ pc = "clean" /\ wr.k = "behind" => wr.limit + 1 \in PB
    /\ pc = "off" => ret = "idle"
    /\ pc = "erase_lb" \/ ret = "erase_lb" => map[cur] # None

TInv == TypeOK /\ Control

-----------------------------------------------------------------------------
(* The blocks and contents that actions name have their types.             *)
LEMMA BlockNumbers ==
  /\ BlockCount \in Nat /\ MgmtStart \in Nat /\ 0 < MgmtStart
  /\ MgmtStart + 4 <= BlockCount
  /\ PB \subseteq Nat /\ 0 \in PB /\ MgmtStart \in PB /\ BlockCount - 1 \in PB
  /\ LB \subseteq PB /\ 0 \in LB
  /\ \A b : b \in PB <=> b \in Nat /\ b < BlockCount
  /\ \A b : b \in LB <=> b \in Nat /\ b < MgmtStart
  BY GeometryAssumption DEF PB, LB

(* What a program or an erase leaves in a block.                           *)
LEMMA ContentsType ==
  /\ Blank \in Contents /\ Torn \in Contents /\ Signature \in Contents
  /\ \A lb \in LB : Data(lb) \in Contents
  /\ \A img \in Image : Table(img) \in Contents
  BY DEF Contents, Data, Table

(* The image of a block that holds a table.                                *)
LEMMA TableImage ==
  ASSUME NEW c \in Contents, c.kind = "table"
  PROVE  c.img \in Image
  BY DEF Contents, Blank, Torn, Signature

(* nmbm_generate_info_table_cache() makes an image.                        *)
LEMMA ImageType ==
  ASSUME NEW w \in Nat, NEW s \in [PB -> BlockStates], NEW m \in Mappings
  PROVE  [wc |-> w, st |-> s, map |-> m] \in Image
  BY DEF Image

(* nmbm_scan_badblocks() and failures keep the state array an array.       *)
LEMMA MarkedType ==
  ASSUME NEW s \in [PB -> BlockStates], NEW B
  PROVE  Marked(s, B) \in [PB -> BlockStates]
  BY DEF Marked, BlockStates

(* The memory of a driver that is not attached.                            *)
LEMMA StartState ==
  /\ AllGood \in [PB -> BlockStates] /\ NoMap \in Mappings /\ NoImage \in Image
  BY DEF AllGood, BlockStates, NoMap, Mappings, NoImage, Image

(* The block that a table write or range erase takes next.                 *)
LEMMA UsableIn ==
  ASSUME NEW lo \in Nat, NEW hi \in PB, Usable(lo, hi) # {}
  PROVE  /\ Lowest(Usable(lo, hi)) \in PB
         /\ lo <= Lowest(Usable(lo, hi)) /\ Lowest(Usable(lo, hi)) < hi
         /\ Lowest(Usable(lo, hi)) \notin bad
         /\ st[Lowest(Usable(lo, hi))] = "good"
<1>1. hi \in Nat /\ hi < BlockCount /\ BlockCount \in Nat
  BY BlockNumbers
<1>2. Usable(lo, hi) \in SUBSET Nat
  BY <1>1 DEF Usable
<1>3. Lowest(Usable(lo, hi)) \in Usable(lo, hi)
  BY <1>2, LowestIn
<1> QED
  BY <1>1, <1>3, BlockNumbers DEF Usable

-----------------------------------------------------------------------------
(* The board before its first attach.                                      *)
LEMMA InitTypeOK == Init => TInv
<1> SUFFICES ASSUME Init PROVE TInv
  OBVIOUS
<1> USE DEF Init, Off, NoJob, Job
<1>1. phys \in [PB -> Contents] /\ bad \subseteq PB
  BY ContentsType, GeometryAssumption DEF PB
<1>2. wr \in [k : Jobs, ba : 0 .. BlockCount, limit : PB, from : 0 .. BlockCount]
  BY BlockNumbers DEF Jobs
<1>3. dirty \in BOOLEAN /\ protected \in BOOLEAN /\ skipped \in BOOLEAN
  BY Zenon
<1>4. TypeOK
  BY <1>1, <1>2, <1>3, BlockNumbers, StartState, BoundsAssumption DEF TypeOK, Pcs, Rets
<1>5. Control
  BY DEF Control
<1> QED
  BY <1>4, <1>5 DEF TInv

(* The writing of information tables.                                      *)
LEMMA TableTypeOK == TInv /\ TableStep => TInv'
<1> SUFFICES ASSUME TInv, TableStep PROVE TInv'
  OBVIOUS
<1> USE DEF TInv, TypeOK, Control, Pcs, Rets, Jobs, flash, tables, layout, fixed,
            control, budget, history, Go, Rest, Start, Clean, Job, NoJob,
            Fail, Spoil, MarkTablesClean, KeepDirty, Written, GaveUp, Cleaned
<1> USE BlockNumbers
<1>0. pc = "prog" => /\ wr.ba \in PB /\ wr.ba + 1 \in PB
                     /\ wr.ba + 1 \in 0 .. BlockCount
  OBVIOUS
<1>1. CASE MgmtErased
  BY <1>1, UsableIn, ContentsType, MarkedType DEF MgmtErased, Seen
<1>2. CASE MgmtEraseFails
  <2>1. dirty' \in BOOLEAN
    BY <1>2, Zenon DEF MgmtEraseFails
  <2> QED
    BY <2>1, <1>2, UsableIn, ContentsType, MarkedType, BoundsAssumption
      DEF MgmtEraseFails, Seen
<1>3. CASE MgmtProgramFails
  <2>1. dirty' \in BOOLEAN
    BY <1>3, Zenon DEF MgmtProgramFails
  <2> QED
    BY <2>1, <1>0, <1>3, MarkedType, BoundsAssumption DEF MgmtProgramFails
<1>4. CASE CleanStep
  BY <1>4, UsableIn, ContentsType, MarkedType DEF CleanStep, Seen
<1>5. CASE CleanFails
  <2>1. dirty' \in BOOLEAN
    BY <1>5, Zenon DEF CleanFails
  <2> QED
    BY <2>1, <1>5, UsableIn, ContentsType, MarkedType, BoundsAssumption DEF CleanFails, Seen
<1>6. CASE RebuildStart
  BY <1>6 DEF RebuildStart
<1>7. CASE RebuildFailed
  BY <1>7, MarkedType DEF RebuildFailed, Seen
<1>8. CASE RebuildWritten
  <2>1. dirty' \in BOOLEAN
    BY <1>8, Zenon DEF RebuildWritten
  <2> QED
    BY <2>1, <1>0, <1>8, TryReserveIn, ContentsType DEF RebuildWritten, Returned
<1>9. CASE SecondFailed
  BY <1>9, MarkedType DEF SecondFailed, Seen, Returned
<1>10. CASE SecondWritten
  BY <1>0, <1>10, ContentsType DEF SecondWritten
<1>11. CASE SecondCleaned
  BY <1>11, MarkedType DEF SecondCleaned, Seen, Returned
<1>12. CASE UpdateBegin
  BY <1>12, ImageType DEF UpdateBegin, NeedsUpdate
<1>13. CASE UpdateDone
  BY <1>13 DEF UpdateDone
<1>14. CASE BackupWritten
  <2>1. dirty' \in BOOLEAN
    BY <1>14, Zenon DEF BackupWritten
  <2> QED
    BY <2>1, <1>0, <1>14, ContentsType DEF BackupWritten
<1>15. CASE BackupFailed
  BY <1>15, MarkedType DEF BackupFailed, Seen
<1>16. CASE MainBegin
  BY <1>16 DEF MainBegin, MainLimit
<1>17. CASE MainWritten
  <2>1. dirty' \in BOOLEAN
    BY <1>17, Zenon DEF MainWritten
  <2> QED
    BY <2>1, <1>0, <1>17, ContentsType DEF MainWritten
<1>18. CASE MainFailed
  BY <1>18, MarkedType, TryReserveIn DEF MainFailed, Seen, KeepBackupOnly
<1>19. CASE TmpFailed
  BY <1>19, MarkedType DEF TmpFailed, Seen, KeepBackupOnly, OneLower
<1>20. CASE TmpWritten
  BY <1>0, <1>20, ContentsType DEF TmpWritten
<1>21. CASE RescueWritten
  <2>1. dirty' \in BOOLEAN
    BY <1>21, Zenon DEF RescueWritten
  <2> QED
    BY <2>1, <1>0, <1>21, ContentsType DEF RescueWritten
<1>22. CASE RescueFailed
  <2>1. dirty' \in BOOLEAN
    BY <1>22, Zenon DEF RescueFailed
  <2> QED
    BY <2>1, <1>22, MarkedType DEF RescueFailed, Seen
<1> QED
  BY <1>1, <1>2, <1>3, <1>4, <1>5, <1>6, <1>7, <1>8, <1>9, <1>10, <1>11,
     <1>12, <1>13, <1>14, <1>15, <1>16, <1>17, <1>18, <1>19, <1>20, <1>21,
     <1>22 DEF TableStep

(* What nmbm_load_info_table() finds are table blocks below the signature. *)
LEMMA FoundIn ==
  ASSUME TypeOK, NEW ecc, NEW f, f = Found(ecc), f.sig # None
  PROVE  /\ f.sig \in PB /\ f.sig = FindSignature(phys, bad)
         /\ f.first # None => /\ f.first \in MgmtStart .. f.sig - 2
                             /\ phys[f.first].kind = "table"
                             /\ phys[f.first].img \in Image
         /\ f.second # None => /\ f.first # None
                              /\ f.second \in f.first + 1 .. f.sig - 2
                              /\ phys[f.second].kind = "table"
                              /\ phys[f.second].img \in Image
<1> DEFINE sig == FindSignature(phys, bad)
           unread == bad \cup ecc
           first == TableAt(phys, unread, AllGood, MgmtStart, sig)
           st1 == IF first = None THEN AllGood ELSE phys[first].img.st
<1>1. f.sig = sig /\ f.first = first
  BY DEF Found
<1>2. f.second = IF first = None THEN None
                 ELSE TableAt(phys, unread, st1, first + 1, sig)
  BY DEF Found
<1> HIDE DEF st1, unread, sig
<1>3. sig \in PB
  BY <1>1, FindSignatureIn, BlockNumbers DEF sig
<1>4. first # None => first \in MgmtStart .. sig - 2 /\ phys[first].kind = "table"
  BY <1>3, TableAtIn, BlockNumbers
<1> HIDE DEF first
<1>5. f.second # None => /\ first # None /\ f.second \in first + 1 .. sig - 2
                         /\ phys[f.second].kind = "table"
  BY <1>2, <1>3, <1>4, TableAtIn, BlockNumbers
<1>6. ASSUME NEW b \in MgmtStart .. sig - 2, phys[b].kind = "table"
      PROVE  phys[b].img \in Image
  <2>1. b \in PB
    BY <1>3, BlockNumbers
  <2> QED
    BY <1>6, <2>1, TableImage DEF TypeOK
<1>7. f.second # None => f.second \in MgmtStart .. sig - 2
  BY <1>3, <1>4, <1>5, BlockNumbers
<1> QED
  BY <1>1, <1>3, <1>4, <1>5, <1>6, <1>7 DEF sig

(* The top of the spare pool of a new chip is a block below the signature. *)
LEMMA PoolTopIn ==
  ASSUME NEW s, NEW sig \in PB, PoolTop(s, sig) # None
  PROVE  PoolTop(s, sig) \in MgmtStart + 1 .. sig - 1
<1>1. MgmtStart \in PB /\ WalkDesc(s, sig, 1, MgmtStart) # None
  BY BlockNumbers DEF PoolTop
<1>2. WalkDesc(s, sig, 1, MgmtStart) \in MgmtStart + 1 .. sig
  BY <1>1, WalkDescIn
<1>3. WalkDesc(s, sig, 1, MgmtStart) < sig
  BY <1>1, WalkDescSkips
<1> QED
  BY <1>2, <1>3, BlockNumbers DEF PoolTop

(* The spare block that nmbm_map_block() takes is in the spare pool.       *)
LEMMA NextSpareIn ==
  ASSUME TypeOK, NEW s, NextSpare(s) # None
  PROVE  NextSpare(s) \in mapBa + 1 .. topBa
  BY WalkDescIn DEF NextSpare, TypeOK

(* nmbm_build_mapping_table() makes a block_mapping.                       *)
LEMMA MappingType ==
  ASSUME NEW s
  PROVE  BuildMapping(s) \in Mappings
  BY BuildMappingIn, BlockNumbers DEF Mappings

(* The block that the search for a signature block takes next.             *)
LEMMA SignatureBlockIn ==
  ASSUME TypeOK, wr.ba \in PB, SignatureBlocks # {}
  PROVE  /\ Highest(SignatureBlocks) \in wr.limit + 1 .. wr.ba
         /\ st[Highest(SignatureBlocks)] = "good"
<1>1. SignatureBlocks \subseteq 0 .. wr.ba /\ wr.ba \in Nat
  BY BlockNumbers DEF SignatureBlocks, GoodIn, TypeOK
<1>2. Highest(SignatureBlocks) \in SignatureBlocks
  BY <1>1, HighestIn
<1> QED
  BY <1>2 DEF SignatureBlocks, GoodIn

-----------------------------------------------------------------------------
(* Attaching: a new chip, and the creation of its tables.                  *)
LEMMA CreateTypeOK ==
  TInv /\ (\/ AttachNew \/ SignatureWritten \/ SignatureFails \/ NoSignatureBlock
          \/ CreateRemap \/ CreateEnd \/ CreateNoSpare
          \/ \E ecc \in UnreadableSets : AttachNoTable(ecc)) => TInv'
<1> SUFFICES ASSUME TInv,
                    \/ AttachNew \/ SignatureWritten \/ SignatureFails
                    \/ NoSignatureBlock \/ CreateRemap \/ CreateEnd \/ CreateNoSpare
                    \/ \E ecc \in UnreadableSets : AttachNoTable(ecc)
             PROVE  TInv'
  OBVIOUS
<1> USE DEF TInv, TypeOK, Control, Pcs, Rets, Jobs, flash, tables, layout, fixed,
            control, budget, history, Go, Job, NoJob, Fail, Spoil, Begin, Update
<1> USE BlockNumbers
<1>1. CASE AttachNew
  <2>1. dirty' \in BOOLEAN
    BY <1>1, Zenon DEF AttachNew
  <2>2. st' \in [PB -> BlockStates] /\ map' \in Mappings /\ dataCount' \in 0 .. MgmtStart
    BY <1>1, StartState, MarkedType, MappingType, BuiltCountIn DEF AttachNew
  <2>3. attaches' \in 0 .. MaxAttach
    BY <1>1, BoundsAssumption DEF AttachNew
  <2> QED
    BY <1>1, <2>1, <2>2, <2>3 DEF AttachNew
<1>2. CASE SignatureWritten
  <2> DEFINE b == Highest(SignatureBlocks)
  <2>1. b \in PB
    BY <1>2, SignatureBlockIn DEF SignatureWritten
  <2>2. CreateTables(st, map, b, dirty) /\ sigBa' = b
    BY <1>2 DEF SignatureWritten
  <2>3. phys' \in [PB -> Contents]
    BY <1>2, ContentsType DEF SignatureWritten
  <2> HIDE DEF b
  <2>4. topBa' \in PB /\ wc' \in Nat /\ cache' \in Image
    BY <2>1, <2>2, PoolTopIn, ImageType DEF CreateTables
  <2>5. pc' \in {"gone", "rebuild"} /\ wr' = NoJob /\ ret' \in {ret, "create"}
    BY <2>2 DEF CreateTables
  <2>6. cur' \in LB
    BY <2>2 DEF CreateTables
  <2>7. ret' = "erase_lb" => map'[cur'] # None
    BY <1>2, <2>2 DEF CreateTables, SignatureWritten
  <2> QED
    BY <1>2, <2>1, <2>2, <2>3, <2>4, <2>5, <2>6, <2>7 DEF SignatureWritten
<1>3. CASE SignatureFails
  <2> DEFINE b == Highest(SignatureBlocks)
  <2>1. b \in wr.limit + 1 .. wr.ba
    BY <1>3, SignatureBlockIn DEF SignatureFails
  <2>2. dirty' \in BOOLEAN
    BY <1>3, Zenon DEF SignatureFails
  <2> HIDE DEF b
  <2>3. b \in PB /\ b - 1 \in PB
    BY <1>3, <2>1 DEF SignatureFails
  <2> QED
    BY <1>3, <2>2, <2>3, ContentsType, MarkedType, BoundsAssumption
    DEF SignatureFails, b
<1>4. CASE NoSignatureBlock
  BY <1>4 DEF NoSignatureBlock
<1>5. CASE CreateRemap
  <2>1. NextSpare(st) \in mapBa + 1 .. topBa
    BY <1>5, NextSpareIn DEF CreateRemap
  <2>2. dirty' \in BOOLEAN /\ skipped' \in BOOLEAN
    BY <1>5, Zenon DEF CreateRemap, Mapped
  <2>3. topBa' \in PB /\ NextSpare(st) \in PB
    BY <1>5, <2>1 DEF CreateRemap, Mapped
  <2>4. map' \in Mappings
    BY <1>5, <2>3 DEF CreateRemap, Mapped, Mappings
  <2>5. dataCount' \in 0 .. MgmtStart
    BY <1>5 DEF CreateRemap
  <2>6. map[cur] # None => map'[cur] # None
    BY <1>5, <2>3 DEF CreateRemap, Mapped, Mappings
  <2> QED
    BY <1>5, <2>2, <2>3, <2>4, <2>5, <2>6 DEF CreateRemap
<1>6. CASE CreateEnd
  BY <1>6 DEF CreateEnd
<1>7. CASE CreateNoSpare
  BY <1>7 DEF CreateNoSpare
<1>8. ASSUME NEW ecc \in UnreadableSets, AttachNoTable(ecc) PROVE TInv'
  <2> DEFINE f == Found(ecc)
  <2>1. f.sig \in PB
    BY <1>8, FoundIn DEF AttachNoTable
  <2>2. dirty' \in BOOLEAN
    BY <1>8, Zenon DEF AttachNoTable
  <2>3. st' \in [PB -> BlockStates] /\ map' \in Mappings /\ dataCount' \in 0 .. MgmtStart
    BY <1>8, StartState, MarkedType, MappingType, BuiltCountIn DEF AttachNoTable
  <2>4. CreateTables(st', map', f.sig, dirty') /\ sigBa' = f.sig
    BY <1>8 DEF AttachNoTable
  <2> HIDE DEF f
  <2>5. topBa' \in PB /\ wc' \in Nat /\ cache' \in Image
    BY <2>1, <2>3, <2>4, PoolTopIn, ImageType DEF CreateTables
  <2>6. /\ pc' \in {"gone", "rebuild"} /\ wr' = NoJob /\ ret' \in {ret, "create"}
        /\ cur' \in LB
    BY <2>4 DEF CreateTables
  <2>7. attaches' \in 0 .. MaxAttach /\ ret = "idle"
    BY <1>8, BoundsAssumption DEF AttachNoTable
  <2>8. UNCHANGED <<flash, mainBa, backupBa, mapBa, protected, fails, history>>
    BY <1>8 DEF AttachNoTable
  <2> QED
    BY <2>1, <2>2, <2>3, <2>4, <2>5, <2>6, <2>7, <2>8
<1> QED
  BY <1>1, <1>2, <1>3, <1>4, <1>5, <1>6, <1>7, <1>8

(* Loading the tables of an existing chip gives every variable its type.   *)
Loaded ==
    /\ st' \in [PB -> BlockStates] /\ map' \in Mappings /\ wc' \in Nat
    /\ cache' \in Image /\ sigBa' \in PB /\ mainBa' \in PB /\ backupBa' \in PB
    /\ mapBa' \in PB /\ topBa' \in PB /\ dataCount' \in 0 .. MgmtStart
    /\ attaches' \in 0 .. MaxAttach /\ ret = "idle"
    /\ UNCHANGED <<phys, bad, fails, promise, skipped>>

LEMMA LoadType ==
  ASSUME TInv, NEW ecc, Load(Found(ecc))
  PROVE  Loaded
<1> DEFINE f == Found(ecc)
           at == IF Newer(f) THEN f.second ELSE f.first
           img == phys[at].img
           lost == f.lost1 \cup f.lost2
<1>1. f.sig # None /\ f.first # None /\ pc = "off" /\ attaches < MaxAttach
      /\ attaches' = attaches + 1
  BY DEF Load, Begin
<1>2. /\ f.sig \in PB
      /\ f.first \in MgmtStart .. f.sig - 2 /\ phys[f.first].img \in Image
      /\ f.second # None => /\ f.second \in f.first + 1 .. f.sig - 2
                           /\ phys[f.second].img \in Image
  BY <1>1, FoundIn DEF TInv
<1>3. at \in MgmtStart .. f.sig - 2 /\ img \in Image
  BY <1>2, BlockNumbers DEF Newer
<1>4. /\ st' = IF Newer(f) THEN img.st ELSE Marked(img.st, f.lost2)
      /\ map' = img.map
      /\ wc' = img.wc + (IF lost = {} THEN 0 ELSE 1)
      /\ cache' = [wc |-> wc', st |-> st', map |-> map']
      /\ sigBa' = f.sig /\ mainBa' = f.first
      /\ backupBa' = (IF f.second = None THEN 0 ELSE f.second)
      /\ mapBa' = (IF f.second = None THEN f.first ELSE f.second) + 1
      /\ topBa' = MappingTop(img, at, f.sig)
      /\ dataCount' = LoadedCount(img.map)
      /\ UNCHANGED <<phys, bad, fails, promise, skipped>>
  BY DEF Load, flash, history
<1> HIDE DEF f, at, img, lost
<1>5. img.st \in [PB -> BlockStates] /\ img.map \in Mappings /\ img.wc \in Nat
  BY <1>3 DEF Image
<1>6. st' \in [PB -> BlockStates] /\ map' \in Mappings /\ wc' \in Nat
  BY <1>4, <1>5, MarkedType
<1>7. topBa' \in PB
  <2>1. at \in Nat /\ f.sig \in Nat /\ at < f.sig
    BY <1>2, <1>3, BlockNumbers
  <2>2. topBa' \in at .. f.sig - 1
    BY <1>4, <2>1, MappingTopIn
  <2> QED
    BY <1>2, <2>1, <2>2, BlockNumbers
<1>8. mainBa' \in PB /\ backupBa' \in PB /\ mapBa' \in PB
  BY <1>2, <1>4, BlockNumbers
<1> QED
  BY <1>1, <1>2, <1>4, <1>6, <1>7, <1>8, ImageType, LoadedCountIn, BoundsAssumption
  DEF TInv, TypeOK, Control, Loaded

(* Attaching to an existing chip, and bringing its tables up to date.      *)
LEMMA LoadTypeOK ==
  ASSUME TInv, NEW ecc, AttachOne(ecc) \/ AttachUnequal(ecc) \/ AttachEqual(ecc)
  PROVE  TInv'
<1> USE DEF TypeOK, Control, Pcs, Rets, Jobs, Start, Job, NoJob, Rest
<1> USE BlockNumbers
<1>0. Loaded
  BY LoadType DEF AttachOne, AttachUnequal, AttachEqual
<1>1. CASE AttachOne(ecc)
  <2>1. dirty' \in BOOLEAN
    BY <1>1, Zenon DEF AttachOne
  <2>2. UNCHANGED <<ret, cur, protected>> /\ pc' = "erase"
        /\ wr' = Job("front", MgmtStart, mainBa')
    BY <1>1 DEF AttachOne, Load
  <2> QED
    BY <1>0, <2>1, <2>2 DEF TInv, Loaded
<1>2. CASE AttachUnequal(ecc)
  <2>1. dirty' \in BOOLEAN
    BY <1>2, Zenon DEF AttachUnequal
  <2>2. UNCHANGED <<ret, cur, protected>> /\ pc' = "erase"
        /\ \/ wr' = Job("syncmain", mainBa', backupBa')
           \/ wr' = Job("syncbackup", backupBa', topBa')
    BY <1>2 DEF AttachUnequal, Load, SyncMainLimit
  <2> QED
    BY <1>0, <2>1, <2>2 DEF TInv, Loaded
<1>3. CASE AttachEqual(ecc)
  <2>1. dirty' \in BOOLEAN /\ protected' \in BOOLEAN
    BY <1>3, Zenon DEF AttachEqual, LoadDone
  <2>2. pc' = "idle" /\ wr' = NoJob /\ ret' = "idle" /\ cur' = 0
    BY <1>3 DEF AttachEqual, LoadDone
  <2> QED
    BY <1>0, <2>1, <2>2 DEF TInv, Loaded
<1> QED
  BY <1>1, <1>2, <1>3

(* Rescuing the only table and rewriting the older of two.                 *)
LEMMA RescueTypeOK ==
  TInv /\ (\/ FrontWritten \/ FrontCleaned \/ FrontFailed
          \/ BehindFailed \/ BehindWritten \/ BehindCleaned
          \/ SyncMainWritten \/ SyncMainFailed
          \/ SyncBackupWritten \/ SyncBackupFailed) => TInv'
<1> SUFFICES ASSUME TInv,
                    \/ FrontWritten \/ FrontCleaned \/ FrontFailed
                    \/ BehindFailed \/ BehindWritten \/ BehindCleaned
                    \/ SyncMainWritten \/ SyncMainFailed
                    \/ SyncBackupWritten \/ SyncBackupFailed
             PROVE  TInv'
  OBVIOUS
<1> USE DEF TInv, TypeOK, Control, Pcs, Rets, Jobs, flash, layout, budget,
            control, history, tables, fixed, Rest, Start, Clean, Job, NoJob, MarkTablesClean,
            KeepDirty, Written, GaveUp, Cleaned, LoadDone
<1> USE BlockNumbers
<1>0. pc = "prog" => /\ wr.ba \in PB /\ wr.ba + 1 \in PB
                     /\ wr.ba + 1 \in 0 .. BlockCount
  OBVIOUS
<1>1. CASE FrontWritten
  <2>1. dirty' \in BOOLEAN
    BY <1>1, Zenon DEF FrontWritten
  <2> QED
    BY <1>0, <1>1, <2>1, ContentsType DEF FrontWritten
<1>2. CASE FrontCleaned
  <2>1. dirty' \in BOOLEAN /\ protected' \in BOOLEAN
    BY <1>2, Zenon DEF FrontCleaned
  <2> QED
    BY <1>2, <2>1, MarkedType DEF FrontCleaned, Seen
<1>3. CASE FrontFailed
  <2>1. dirty' \in BOOLEAN /\ protected' \in BOOLEAN
    BY <1>3, Zenon DEF FrontFailed
  <2> QED
    BY <1>3, <2>1, MarkedType, TryReserveIn DEF FrontFailed, Seen
<1>4. CASE BehindFailed
  <2>1. dirty' \in BOOLEAN /\ protected' \in BOOLEAN
    BY <1>4, Zenon DEF BehindFailed
  <2> QED
    BY <1>4, <2>1, MarkedType DEF BehindFailed, Seen, OneLower
<1>5. CASE BehindWritten
  BY <1>0, <1>5, ContentsType DEF BehindWritten
<1>6. CASE BehindCleaned
  <2>1. dirty' \in BOOLEAN /\ protected' \in BOOLEAN
    BY <1>6, Zenon DEF BehindCleaned
  <2> QED
    BY <1>6, <2>1, MarkedType DEF BehindCleaned, Seen
<1>7. CASE SyncMainWritten
  <2>1. dirty' \in BOOLEAN /\ protected' \in BOOLEAN
    BY <1>7, Zenon DEF SyncMainWritten
  <2> QED
    BY <1>0, <1>7, <2>1, ContentsType DEF SyncMainWritten
<1>8. CASE SyncMainFailed
  BY <1>8, MarkedType DEF SyncMainFailed, Seen, KeepBackupOnly
<1>9. CASE SyncBackupWritten
  <2>1. dirty' \in BOOLEAN /\ protected' \in BOOLEAN
    BY <1>9, Zenon DEF SyncBackupWritten
  <2> QED
    BY <1>0, <1>9, <2>1, ContentsType DEF SyncBackupWritten
<1>10. CASE SyncBackupFailed
  <2>1. dirty' \in BOOLEAN /\ protected' \in BOOLEAN
    BY <1>10, Zenon DEF SyncBackupFailed
  <2> QED
    BY <1>10, <2>1, MarkedType DEF SyncBackupFailed, Seen
<1> QED
  BY <1>1, <1>2, <1>3, <1>4, <1>5, <1>6, <1>7, <1>8, <1>9, <1>10

-----------------------------------------------------------------------------
(* The operations on a logical block: leaving a physical block keeps the   *)
(* state array an array.                                                   *)
LEMMA LeftType ==
  ASSUME NEW s \in [PB -> BlockStates], NEW b
  PROVE  Left(s, b) \in [PB -> BlockStates]
  BY DEF Left, BlockStates

(* A remap leaves cur mapped, or unmapped once its update is under way.    *)
LEMMA RemapTypeOK ==
  ASSUME TInv, NEW s \in [PB -> BlockStates], RemapBlock(s),
         phys' \in [PB -> Contents], bad' \subseteq PB,
         fails' \in 0 .. MaxFail, attaches' \in 0 .. MaxAttach
  PROVE  TInv'
<1> USE DEF TInv, TypeOK, Control, Pcs, Rets, Jobs, fixed, control, Update, NoJob, Job
<1> USE BlockNumbers
<1>1. UNCHANGED <<wc, cache, mainBa, backupBa, mapBa, sigBa, dataCount, protected,
                  cur, promise>>
  BY DEF RemapBlock
<1>2. CASE /\ mapBa = topBa
           /\ map' = [map EXCEPT ![cur] = None]
           /\ st' = Left(s, map[cur])
           /\ KeepDirty
           /\ Update("idle")
           /\ UNCHANGED <<topBa, skipped>>
  <2>1. dirty' \in BOOLEAN
    BY <1>2, Zenon DEF KeepDirty
  <2>2. map' \in Mappings
    BY <1>2 DEF Mappings
  <2> QED
    BY <1>1, <1>2, <2>1, <2>2, LeftType
<1>3. CASE /\ mapBa # topBa /\ NextSpare(s) = None
           /\ st' = s
           /\ KeepDirty
           /\ Update("unmap")
           /\ UNCHANGED <<map, topBa, skipped>>
  <2>1. dirty' \in BOOLEAN
    BY <1>3, Zenon DEF KeepDirty
  <2> QED
    BY <1>1, <1>3, <2>1
<1>4. CASE /\ mapBa # topBa /\ NextSpare(s) # None
           /\ Mapped(cur, NextSpare(s))
           /\ st' = Left(s, map[cur])
           /\ dirty' = TRUE
           /\ UpdateFirst
  <2>1. dirty' \in BOOLEAN /\ skipped' \in BOOLEAN
    BY <1>4, Zenon DEF Mapped
  <2>2. NextSpare(s) \in mapBa + 1 .. topBa
    BY <1>4, NextSpareIn
  <2>3. topBa' \in PB /\ NextSpare(s) \in PB
    BY <1>4, <2>2 DEF Mapped
  <2>4. map' \in Mappings /\ map'[cur] # None
    BY <1>4, <2>3 DEF Mapped, Mappings
  <2> QED
    BY <1>1, <1>4, <2>1, <2>3, <2>4, LeftType DEF UpdateFirst
<1> QED
  BY <1>2, <1>3, <1>4 DEF RemapBlock

(* Reads, writes, erases and bad marks.                                    *)
LEMMA BlockTypeOK == TInv /\ BlockStep => TInv'
<1> SUFFICES ASSUME TInv, BlockStep PROVE TInv'
  OBVIOUS
<1> USE DEF TInv, TypeOK, Control, Pcs, Rets, Jobs, flash, tables, layout, fixed,
            control, budget, history, Rest, Job, NoJob, Fail, Spoil, Update,
            KeepDirty, Accepts, Promise, SetState
<1> USE BlockNumbers
<1>1. ASSUME NEW lb \in LB, WriteOk(lb) PROVE TInv'
  <2>1. phys' \in [PB -> Contents]
    BY <1>1, ContentsType DEF WriteOk
  <2>2. promise' \in [LB -> {"none", "blank", "data"}]
    BY <1>1 DEF WriteOk
  <2> QED
    BY <1>1, <2>1, <2>2 DEF WriteOk
<1>2. ASSUME NEW lb \in LB, WriteFails(lb) PROVE TInv'
  <2>1. dirty' \in BOOLEAN
    BY <1>2, Zenon DEF WriteFails
  <2>2. phys' \in [PB -> Contents] /\ st' \in [PB -> BlockStates]
    BY <1>2, ContentsType DEF WriteFails, BlockStates
  <2>3. promise' \in [LB -> {"none", "blank", "data"}]
    BY <1>2 DEF WriteFails
  <2> QED
    BY <1>2, <2>1, <2>2, <2>3, BoundsAssumption DEF WriteFails
<1>3. ASSUME NEW lb \in LB, EraseBegin(lb) PROVE TInv'
  BY <1>3 DEF EraseBegin
<1>4. ASSUME NEW lb \in LB, MarkBad(lb) PROVE TInv'
  <2>1. dirty' \in BOOLEAN
    BY <1>4, Zenon DEF MarkBad
  <2>2. map[lb] \in PB /\ map' \in Mappings
    BY <1>4 DEF MarkBad, Mappings
  <2>3. st' \in [PB -> BlockStates]
    BY <1>4 DEF MarkBad, BlockStates
  <2>4. promise' \in [LB -> {"none", "blank", "data"}]
    BY <1>4 DEF MarkBad
  <2>5. fails < MaxFail /\ fails' = fails + 1 /\ attaches' = attaches
        /\ bad' = bad \cup {map[lb]}
    BY <1>4 DEF MarkBad
  <2>6. bad' \subseteq PB
    BY <2>2, <2>5
  <2>7. fails' \in 0 .. MaxFail /\ attaches' \in 0 .. MaxAttach
    BY <2>5, BoundsAssumption
  <2> QED
    BY <1>4, <2>1, <2>2, <2>3, <2>4, <2>6, <2>7 DEF MarkBad
<1>5. ASSUME NEW lb \in LB, Refused(lb) PROVE TInv'
  BY <1>5 DEF Refused, vars
<1>6. CASE ErasedBlock
  <2>1. phys' \in [PB -> Contents]
    BY <1>6, ContentsType DEF ErasedBlock
  <2>2. promise' \in [LB -> {"none", "blank", "data"}]
    BY <1>6 DEF ErasedBlock
  <2> QED
    BY <1>6, <2>1, <2>2 DEF ErasedBlock
<1>7. CASE EraseFails
  <2>1. map[cur] \in PB
    BY <1>7 DEF EraseFails, Mappings
  <2>2. RemapBlock(Marked(st, {map[cur]}))
    BY <1>7 DEF EraseFails
  <2>3. /\ phys' \in [PB -> Contents] /\ bad' \subseteq PB
        /\ fails' \in 0 .. MaxFail /\ attaches' \in 0 .. MaxAttach
    <3>1. phys' \in [PB -> Contents]
      BY <1>7, ContentsType DEF EraseFails
    <3>2. fails < MaxFail /\ fails' = fails + 1 /\ attaches' = attaches
          /\ bad' = bad \cup {map[cur]}
      BY <1>7 DEF EraseFails
    <3>3. bad' \subseteq PB
      BY <2>1, <3>2
    <3>4. fails' \in 0 .. MaxFail /\ attaches' \in 0 .. MaxAttach
      BY <3>2, BoundsAssumption
    <3> QED
      BY <3>1, <3>3, <3>4
  <2> QED
    BY <2>2, <2>3, MarkedType, RemapTypeOK
<1>8. CASE EraseLeavesBlock
  <2>1. PICK s \in [PB -> BlockStates] : RemapBlock(s)
    BY <1>8, MarkedType DEF EraseLeavesBlock
  <2>2. /\ phys' \in [PB -> Contents] /\ bad' \subseteq PB
        /\ fails' \in 0 .. MaxFail /\ attaches' \in 0 .. MaxAttach
    BY <1>8 DEF EraseLeavesBlock
  <2> QED
    BY <2>1, <2>2, RemapTypeOK
<1>9. CASE EraseUnmaps
  <2>1. dirty' \in BOOLEAN
    BY <1>9, Zenon DEF EraseUnmaps
  <2>2. map' \in Mappings
    BY <1>9 DEF EraseUnmaps, Mappings
  <2> QED
    BY <1>9, <2>1, <2>2, LeftType DEF EraseUnmaps
<1> QED
  BY <1>1, <1>2, <1>3, <1>4, <1>5, <1>6, <1>7, <1>8, <1>9 DEF BlockStep

(* Detaching, power cuts, and nothing happening.                           *)
LEMMA OtherTypeOK ==
  TInv /\ (Detach \/ Leave \/ Crash \/ CutShort \/ StaysOff \/ UNCHANGED vars) => TInv'
<1> SUFFICES ASSUME TInv,
                    Detach \/ Leave \/ Crash \/ CutShort \/ StaysOff \/ UNCHANGED vars
             PROVE  TInv'
  OBVIOUS
<1> USE DEF TInv, TypeOK, Control, Pcs, Rets, Jobs, flash, tables, layout, fixed,
            control, budget, history, Job, NoJob, Update
<1> USE BlockNumbers
<1>1. CASE Detach
  BY <1>1 DEF Detach
<1>2. CASE Leave \/ Crash \/ CutShort
  <2>1. PowerOff /\ UNCHANGED <<bad, budget, skipped>>
    BY <1>2 DEF Leave, Crash, CutShort
  <2>2. phys' \in [PB -> Contents]
    BY <1>2, ContentsType DEF Leave, Crash, CutShort, Spoil
  <2>4. PICK p \in [LB -> {"none", "blank", "data"}] : GiveUp(p)
    BY <1>2 DEF Leave, Crash, CutShort
  <2>5. promise' \in [LB -> {"none", "blank", "data"}]
    BY <2>4 DEF GiveUp
  <2>3. dirty' \in BOOLEAN /\ protected' \in BOOLEAN
    BY <2>1, Zenon DEF PowerOff
  <2> QED
    BY <2>1, <2>2, <2>3, <2>5, StartState DEF PowerOff
<1>3. CASE UNCHANGED vars
  BY <1>3 DEF vars
<1> QED
  BY <1>1, <1>2, <1>3 DEF StaysOff

(* Every step.                                                             *)
LEMMA NextTypeOK == TInv /\ [Next]_vars => TInv'
<1> SUFFICES ASSUME TInv, [Next]_vars PROVE TInv'
  OBVIOUS
<1>1. CASE TableStep
  BY <1>1, TableTypeOK
<1>2. CASE AttachStep
  BY <1>2, CreateTypeOK, LoadTypeOK, RescueTypeOK DEF AttachStep
<1>3. CASE BlockStep
  BY <1>3, BlockTypeOK
<1> QED
  BY <1>1, <1>2, <1>3, OtherTypeOK DEF Next

(* Whatever fails and whenever power is cut, every variable of the driver  *)
(* and the chip keeps its type, and every block number nmbm-core.c works   *)
(* with is a block of the chip.                                            *)
THEOREM TypeCorrect == Spec => []TypeOK
<1>1. Init => TInv
  BY InitTypeOK
<1>2. TInv /\ [Next]_vars => TInv'
  BY NextTypeOK
<1>3. TInv => TypeOK
  BY DEF TInv
<1> QED
  BY <1>1, <1>2, <1>3, PTL DEF Spec

-----------------------------------------------------------------------------
(***************************************************************************)
(* No step of nmbm-core.c, whatever fails and wherever power is cut, loses *)
(* the signature block of a chip or makes a second one.                    *)
(***************************************************************************)

(* The blocks that nmbm_find_signature() may take for the signature.       *)
Signed == {b \in PB : b \notin bad /\ phys[b] = Signature}

(* There is at most one, in the management area.                           *)
OneSignature ==
    /\ \A b \in Signed : b > MgmtStart
    /\ \A b, c \in Signed : b = c

(* Before there is one, the driver has no layout, and looks for a block    *)
(* that carries no bad mark.                                               *)
Unsigned ==
    /\ pc \in {"off", "sign"} => /\ sigBa = 0 /\ mainBa = 0 /\ backupBa = 0
                                 /\ mapBa = 0 /\ topBa = 0
    /\ pc = "sign" => /\ Signed = {} /\ wr.limit = MgmtStart
                      /\ \A b \in PB : st[b] = "good" => b \notin bad
                      /\ \A lb \in LB : map[lb] < MgmtStart

(* Once there is one, everything else of the management area is below it.  *)
Below ==
    sigBa # 0 =>
        /\ sigBa \in Signed
        /\ mainBa < sigBa /\ backupBa < sigBa /\ mapBa < sigBa /\ topBa < sigBa
        /\ \A lb \in LB : map[lb] # sigBa

(* Table writes and range erases end below it.                             *)
WritesBelow ==
    /\ pc \notin {"off", "gone", "sign"} => sigBa # 0
    /\ pc \in {"erase", "prog", "clean"} => wr.limit < sigBa
    /\ pc = "clean" /\ wr.k = "behind" => wr.limit + 1 < sigBa

SInv == OneSignature /\ Unsigned /\ Below /\ WritesBelow

-----------------------------------------------------------------------------
(* Nothing that a program or an erase leaves is a signature, except one.   *)
LEMMA NotSignature ==
  /\ Blank # Signature /\ Torn # Signature
  /\ \A lb : Data(lb) # Signature
  /\ \A img : Table(img) # Signature
<1>1. Signature.kind = "signature" /\ Blank.kind = "blank" /\ Torn.kind = "torn"
  BY DEF Signature, Blank, Torn
<1>2. \A lb : Data(lb).kind = "data"
  BY DEF Data
<1>3. \A img : Table(img).kind = "table"
  BY DEF Table
<1> QED
  BY <1>1, <1>2, <1>3

(* Changing another block changes no signature.                            *)
LEMMA Untouched ==
  ASSUME TypeOK, NEW b \in PB, b \notin Signed,
         NEW x, x # Signature, phys' = [phys EXCEPT ![b] = x],
         bad' = bad \/ bad' = bad \cup {b}
  PROVE  Signed' = Signed
<1>1. \A c \in PB : phys'[c] = IF c = b THEN x ELSE phys[c]
  BY DEF TypeOK
<1>2. ASSUME NEW c \in PB PROVE c \in Signed' <=> c \in Signed
  <2>1. CASE c = b
    BY <1>1, <2>1 DEF Signed
  <2>2. CASE c # b
    BY <1>1, <2>2 DEF Signed
  <2> QED
    BY <2>1, <2>2
<1>3. Signed \subseteq PB /\ Signed' \subseteq PB
  BY DEF Signed
<1> QED
  BY <1>2, <1>3

(* Marking another block bad changes no signature.                         *)
LEMMA MarkedOther ==
  ASSUME NEW b \in PB, b \notin Signed, phys' = phys, bad' = bad \cup {b}
  PROVE  Signed' = Signed
  BY DEF Signed

(* Nor does a step that leaves the chip alone.                             *)
LEMMA SameFlash ==
  ASSUME UNCHANGED flash
  PROVE  Signed' = Signed
  BY DEF flash, Signed

(* With a signature block, a block below it has none.                      *)
LEMMA Only ==
  ASSUME SInv, sigBa # 0, NEW b, b # sigBa
  PROVE  b \notin Signed
  BY DEF SInv, OneSignature, Below

(* What the search finds depends only on the signed blocks.                *)
LEMMA SameFound ==
  ASSUME Signed' = Signed
  PROVE  FindSignature(phys', bad') = FindSignature(phys, bad)
<1> DEFINE R == MgmtStart - 1 .. BlockCount - 1
           found == {b \in R : b \notin bad /\ phys[b] = Signature}
           found1 == {b \in R : b \notin bad' /\ phys'[b] = Signature}
<1>1. R \subseteq PB
  BY BlockNumbers
<1>2. found = {b \in R : b \in Signed}
  BY <1>1 DEF Signed
<1>3. found1 = {b \in R : b \in Signed'}
  BY <1>1 DEF Signed
<1>4. found = found1
  BY <1>2, <1>3
<1>5. FindSignature(phys, bad) = IF found = {} THEN None ELSE Highest(found)
  BY DEF FindSignature
<1>6. FindSignature(phys', bad') = IF found1 = {} THEN None ELSE Highest(found1)
  BY DEF FindSignature
<1> HIDE DEF found, found1
<1> QED
  BY <1>4, <1>5, <1>6

(* With no signed block the search finds none.                             *)
LEMMA NoneFound ==
  ASSUME Signed = {}
  PROVE  FindSignature(phys, bad) = None
<1>1. \A b \in MgmtStart - 1 .. BlockCount - 1 : b \in PB
  BY BlockNumbers
<1>2. {b \in MgmtStart - 1 .. BlockCount - 1 : b \notin bad /\ phys[b] = Signature} = {}
  BY <1>1 DEF Signed
<1> QED
  BY <1>2 DEF FindSignature

-----------------------------------------------------------------------------
(* The board before its first attach has no signature.                     *)
LEMMA InitSigned == Init => SInv
<1> SUFFICES ASSUME Init PROVE SInv
  OBVIOUS
<1>1. Signed = {}
  BY NotSignature DEF Init, Signed
<1> QED
  BY <1>1 DEF Init, Off, SInv, OneSignature, Unsigned, Below, WritesBelow

(* The writing of tables touches blocks below the signature only.          *)
LEMMA TableFlash ==
  ASSUME TInv, SInv, TableStep
  PROVE  Signed' = Signed /\ pc \notin {"off", "gone", "sign"} /\ sigBa # 0
         /\ UNCHANGED <<map, sigBa>>
<1> USE DEF flash, tables, layout, fixed
<1>1. pc \notin {"off", "gone", "sign"} /\ UNCHANGED <<map, sigBa>>
  BY DEF TableStep, MgmtErased, MgmtEraseFails, MgmtProgramFails, CleanStep,
         CleanFails, RebuildStart, RebuildFailed, RebuildWritten, SecondFailed,
         SecondWritten, SecondCleaned, UpdateBegin, UpdateDone, BackupWritten,
         BackupFailed, MainBegin, MainWritten, MainFailed, TmpFailed, TmpWritten,
         RescueWritten, RescueFailed, Written, GaveUp, Cleaned
<1>2. sigBa # 0
  BY <1>1 DEF SInv, WritesBelow
<1>3. ASSUME pc \in {"erase", "clean"}, Usable(wr.ba, wr.limit) # {}
      PROVE  LET b == Lowest(Usable(wr.ba, wr.limit)) IN b \in PB /\ b \notin Signed
  <2>1. wr.ba \in Nat /\ wr.limit \in PB /\ wr.limit < sigBa /\ sigBa \in PB
    BY <1>3, BlockNumbers DEF TInv, TypeOK, SInv, WritesBelow
  <2> QED
    BY <1>2, <1>3, <2>1, UsableIn, Only, BlockNumbers
<1>4. pc = "prog" => wr.ba \in PB /\ wr.ba \notin Signed
  <2> SUFFICES ASSUME pc = "prog" PROVE wr.ba \in PB /\ wr.ba \notin Signed
    OBVIOUS
  <2>1. wr.ba \in Nat /\ wr.limit \in PB /\ wr.ba < wr.limit /\ wr.limit < sigBa
        /\ sigBa \in PB
    BY BlockNumbers DEF TInv, TypeOK, Control, SInv, WritesBelow
  <2> QED
    BY <1>2, <2>1, Only, BlockNumbers
<1>5. CASE MgmtErased \/ CleanStep
  <2> DEFINE b == Lowest(Usable(wr.ba, wr.limit))
  <2>1. b \in PB /\ b \notin Signed
    BY <1>3, <1>5 DEF MgmtErased, CleanStep
  <2>2. bad' = bad /\ (phys' = [phys EXCEPT ![b] = Torn] \/ phys' = [phys EXCEPT ![b] = Blank])
    BY <1>5 DEF MgmtErased, CleanStep, Spoil
  <2> HIDE DEF b
  <2> QED
    BY <1>1, <1>2, <2>1, <2>2, NotSignature, Untouched DEF TInv
<1>6. CASE MgmtEraseFails \/ CleanFails
  <2> DEFINE b == Lowest(Usable(wr.ba, wr.limit))
  <2>1. b \in PB /\ b \notin Signed
    BY <1>3, <1>6 DEF MgmtEraseFails, CleanFails
  <2>2. bad' = bad \cup {b} /\ phys' = [phys EXCEPT ![b] = Torn]
    BY <1>6 DEF MgmtEraseFails, CleanFails, Spoil, Fail
  <2> HIDE DEF b
  <2> QED
    BY <1>1, <1>2, <2>1, <2>2, NotSignature, Untouched DEF TInv
<1>7. CASE MgmtProgramFails
  BY <1>1, <1>2, <1>4, <1>7, MarkedOther DEF MgmtProgramFails, Fail
<1>8. CASE \/ RebuildWritten \/ SecondWritten \/ BackupWritten \/ MainWritten
           \/ TmpWritten \/ RescueWritten
  <2>1. pc = "prog" /\ bad' = bad /\ phys' = [phys EXCEPT ![wr.ba] = Table(cache)]
    BY <1>8 DEF RebuildWritten, SecondWritten, BackupWritten, MainWritten,
                TmpWritten, RescueWritten, Written
  <2> QED
    BY <1>1, <1>2, <1>4, <2>1, NotSignature, Untouched DEF TInv
<1>9. CASE \/ RebuildStart \/ RebuildFailed \/ SecondFailed \/ SecondCleaned
           \/ UpdateBegin \/ UpdateDone \/ BackupFailed \/ MainBegin \/ MainFailed
           \/ TmpFailed \/ RescueFailed
  <2>1. UNCHANGED flash
    BY <1>9 DEF RebuildStart, RebuildFailed, SecondFailed, SecondCleaned, UpdateBegin,
                UpdateDone, BackupFailed, MainBegin, MainFailed, TmpFailed,
                RescueFailed, GaveUp, Cleaned
  <2> QED
    BY <1>1, <1>2, <2>1, SameFlash
<1> QED
  BY <1>5, <1>6, <1>7, <1>8, <1>9 DEF TableStep

(* A step that keeps the signed blocks, sigBa and the mapping keeps SInv   *)
(* if it keeps the layout and the writes below the signature.              *)
LEMMA KeepsSInv ==
  ASSUME SInv, Signed' = Signed, UNCHANGED <<map, sigBa>>,
         sigBa # 0, pc' \notin {"off", "sign"},
         mainBa' < sigBa, backupBa' < sigBa, mapBa' < sigBa, topBa' < sigBa,
         pc' \in {"erase", "prog", "clean"} => wr'.limit < sigBa,
         pc' = "clean" /\ wr'.k = "behind" => wr'.limit + 1 < sigBa
  PROVE  SInv'
<1>1. OneSignature'
  BY DEF SInv, OneSignature
<1>2. Unsigned' /\ WritesBelow'
  BY DEF Unsigned, WritesBelow
<1>3. Below'
  BY DEF SInv, Below
<1> QED
  BY <1>1, <1>2, <1>3 DEF SInv

(* The writing of tables keeps the invariant.                              *)
LEMMA TableSigned ==
  ASSUME TInv, SInv, TableStep
  PROVE  SInv'
<1> USE DEF layout, tables, fixed, control, Go, Rest, Start, Clean, Job, NoJob,
            Written, GaveUp, Cleaned
<1>1. /\ Signed' = Signed /\ sigBa # 0 /\ UNCHANGED <<map, sigBa>>
      /\ pc \notin {"off", "gone", "sign"}
  BY TableFlash
<1>2. /\ mainBa \in PB /\ backupBa \in PB /\ mapBa \in PB /\ topBa \in PB
      /\ sigBa \in PB /\ PB \subseteq Nat
      /\ wr \in [k : Jobs, ba : 0 .. BlockCount, limit : PB, from : 0 .. BlockCount]
      /\ mainBa < sigBa /\ backupBa < sigBa /\ mapBa < sigBa /\ topBa < sigBa
      /\ pc \in {"erase", "prog", "clean"} => wr.limit < sigBa
      /\ pc = "prog" => wr.ba < wr.limit
      /\ pc = "clean" /\ wr.k = "behind" => wr.limit + 1 < sigBa
      /\ ret \in Rets
  BY <1>1, BlockNumbers DEF TInv, TypeOK, Control, SInv, Below, WritesBelow
<1>3. pc' \notin {"off", "sign"}
  BY <1>1, <1>2 DEF TableStep, MgmtErased, MgmtEraseFails, MgmtProgramFails, CleanStep,
         CleanFails, RebuildStart, RebuildFailed, RebuildWritten, SecondFailed,
         SecondWritten, SecondCleaned, UpdateBegin, UpdateDone, BackupWritten,
         BackupFailed, MainBegin, MainWritten, MainFailed, TmpFailed, TmpWritten,
         RescueWritten, RescueFailed, KeepBackupOnly, Rets, Returned
<1>4. mainBa' < sigBa /\ backupBa' < sigBa /\ mapBa' < sigBa /\ topBa' < sigBa
  BY <1>1, <1>2, BlockNumbers
     DEF TableStep, MgmtErased, MgmtEraseFails, MgmtProgramFails, CleanStep,
         CleanFails, RebuildStart, RebuildFailed, RebuildWritten, SecondFailed,
         SecondWritten, SecondCleaned, UpdateBegin, UpdateDone, BackupWritten,
         BackupFailed, MainBegin, MainWritten, MainFailed, TmpFailed, TmpWritten,
         RescueWritten, RescueFailed, KeepBackupOnly
<1>5. pc' \in {"erase", "prog", "clean"} => wr'.limit < sigBa
  BY <1>1, <1>2
     DEF TableStep, MgmtErased, MgmtEraseFails, MgmtProgramFails, CleanStep,
         CleanFails, RebuildStart, RebuildFailed, RebuildWritten, SecondFailed,
         SecondWritten, SecondCleaned, UpdateBegin, UpdateDone, BackupWritten,
         BackupFailed, MainBegin, MainWritten, MainFailed, TmpFailed, TmpWritten,
         RescueWritten, RescueFailed, KeepBackupOnly, MainLimit, Rets, Returned
<1>6. pc' = "clean" /\ wr'.k = "behind" => wr'.limit + 1 < sigBa
  BY <1>1, <1>2
     DEF TableStep, MgmtErased, MgmtEraseFails, MgmtProgramFails, CleanStep,
         CleanFails, RebuildStart, RebuildFailed, RebuildWritten, SecondFailed,
         SecondWritten, SecondCleaned, UpdateBegin, UpdateDone, BackupWritten,
         BackupFailed, MainBegin, MainWritten, MainFailed, TmpFailed, TmpWritten,
         RescueWritten, RescueFailed, KeepBackupOnly, Rets, Returned
<1> QED
  BY <1>1, <1>3, <1>4, <1>5, <1>6, KeepsSInv

(* The steps that rescue the only table, or rewrite the older of two.      *)
RescueStep ==
    \/ FrontWritten \/ FrontCleaned \/ FrontFailed
    \/ BehindFailed \/ BehindWritten \/ BehindCleaned
    \/ SyncMainWritten \/ SyncMainFailed \/ SyncBackupWritten \/ SyncBackupFailed

(* Those steps touch blocks below the signature only,                      *)
LEMMA RescueFlash ==
  ASSUME TInv, SInv, RescueStep
  PROVE  Signed' = Signed /\ pc \in {"erase", "prog", "clean"} /\ sigBa # 0
         /\ UNCHANGED <<map, sigBa>>
<1> USE DEF flash, tables, layout, fixed
<1>1. pc \in {"erase", "prog", "clean"} /\ UNCHANGED <<map, sigBa>>
  BY DEF RescueStep, FrontWritten, FrontCleaned, FrontFailed, BehindFailed,
         BehindWritten, BehindCleaned, SyncMainWritten, SyncMainFailed,
         SyncBackupWritten, SyncBackupFailed, Written, GaveUp, Cleaned
<1>2. sigBa # 0
  BY <1>1 DEF SInv, WritesBelow
<1>3. CASE \/ FrontWritten \/ BehindWritten \/ SyncMainWritten \/ SyncBackupWritten
  <2>1. pc = "prog" /\ bad' = bad /\ phys' = [phys EXCEPT ![wr.ba] = Table(cache)]
    BY <1>3 DEF FrontWritten, BehindWritten, SyncMainWritten, SyncBackupWritten, Written
  <2>2. wr.ba \in Nat /\ wr.limit \in PB /\ wr.ba < wr.limit /\ wr.limit < sigBa
        /\ sigBa \in PB
    BY <2>1, BlockNumbers DEF TInv, TypeOK, Control, SInv, WritesBelow
  <2>3. wr.ba \in PB /\ wr.ba \notin Signed
    BY <1>2, <2>2, Only, BlockNumbers
  <2> QED
    BY <1>1, <1>2, <2>1, <2>3, NotSignature, Untouched DEF TInv
<1>4. CASE \/ FrontCleaned \/ FrontFailed \/ BehindFailed \/ BehindCleaned
           \/ SyncMainFailed \/ SyncBackupFailed
  <2>1. UNCHANGED flash
    BY <1>4 DEF FrontCleaned, FrontFailed, BehindFailed, BehindCleaned,
                SyncMainFailed, SyncBackupFailed, GaveUp, Cleaned
  <2> QED
    BY <1>1, <1>2, <2>1, SameFlash
<1> QED
  BY <1>3, <1>4 DEF RescueStep

(* and keep the invariant.                                                 *)
LEMMA RescueSigned ==
  ASSUME TInv, SInv, RescueStep
  PROVE  SInv'
<1> USE DEF layout, tables, fixed, control, Rest, Start, Clean, Job, NoJob,
            Written, GaveUp, Cleaned, LoadDone
<1>1. /\ Signed' = Signed /\ sigBa # 0 /\ UNCHANGED <<map, sigBa>>
      /\ pc \in {"erase", "prog", "clean"}
  BY RescueFlash
<1>2. /\ mainBa \in PB /\ backupBa \in PB /\ mapBa \in PB /\ topBa \in PB
      /\ sigBa \in PB /\ PB \subseteq Nat
      /\ wr \in [k : Jobs, ba : 0 .. BlockCount, limit : PB, from : 0 .. BlockCount]
      /\ mainBa < sigBa /\ backupBa < sigBa /\ mapBa < sigBa /\ topBa < sigBa
      /\ wr.limit < sigBa
      /\ pc = "prog" => wr.ba < wr.limit
      /\ pc = "clean" /\ wr.k = "behind" => wr.limit + 1 < sigBa
  BY <1>1, BlockNumbers DEF TInv, TypeOK, Control, SInv, Below, WritesBelow
<1>3. pc' \notin {"off", "sign"}
  BY <1>1, <1>2
     DEF RescueStep, FrontWritten, FrontCleaned, FrontFailed, BehindFailed,
         BehindWritten, BehindCleaned, SyncMainWritten, SyncMainFailed,
         SyncBackupWritten, SyncBackupFailed
<1>4. mainBa' < sigBa /\ backupBa' < sigBa /\ mapBa' < sigBa /\ topBa' < sigBa
  BY <1>1, <1>2, BlockNumbers
     DEF RescueStep, FrontWritten, FrontCleaned, FrontFailed, BehindFailed,
         BehindWritten, BehindCleaned, SyncMainWritten, SyncMainFailed,
         SyncBackupWritten, SyncBackupFailed, KeepBackupOnly
<1>5. /\ pc' \in {"erase", "prog", "clean"} => wr'.limit < sigBa
      /\ pc' = "clean" /\ wr'.k = "behind" => wr'.limit + 1 < sigBa
  <2>1. CASE FrontWritten
    BY <1>2, <2>1 DEF FrontWritten
  <2>2. CASE FrontCleaned
    BY <2>2 DEF FrontCleaned
  <2>3. CASE FrontFailed
    BY <1>2, <2>3 DEF FrontFailed
  <2>4. CASE BehindFailed
    BY <1>2, <2>4 DEF BehindFailed
  <2>5. CASE BehindWritten
    BY <1>2, <2>5, BlockNumbers DEF BehindWritten
  <2>6. CASE BehindCleaned
    BY <2>6 DEF BehindCleaned
  <2>7. CASE SyncMainWritten
    BY <2>7 DEF SyncMainWritten
  <2>8. CASE SyncMainFailed
    BY <1>2, <2>8 DEF SyncMainFailed
  <2>9. CASE SyncBackupWritten
    BY <2>9 DEF SyncBackupWritten
  <2>10. CASE SyncBackupFailed
    BY <2>10 DEF SyncBackupFailed
  <2> QED
    BY <2>1, <2>2, <2>3, <2>4, <2>5, <2>6, <2>7, <2>8, <2>9, <2>10 DEF RescueStep
<1> QED
  BY <1>1, <1>3, <1>4, <1>5, KeepsSInv

-----------------------------------------------------------------------------
(* What nmbm_load_info_table() finds has passed nmbm_check_info_table().   *)
LEMMA FoundChecked ==
  ASSUME TypeOK, NEW ecc, NEW f, f = Found(ecc), f.sig # None
  PROVE  /\ f.first # None => \A lb \in LB : phys[f.first].img.map[lb] # f.sig
         /\ f.second # None => \A lb \in LB : phys[f.second].img.map[lb] # f.sig
<1> DEFINE sig == FindSignature(phys, bad)
           unread == bad \cup ecc
           first == TableAt(phys, unread, AllGood, MgmtStart, sig)
           st1 == IF first = None THEN AllGood ELSE phys[first].img.st
<1>1. f.sig = sig /\ f.first = first
  BY DEF Found
<1>2. f.second = IF first = None THEN None
                 ELSE TableAt(phys, unread, st1, first + 1, sig)
  BY DEF Found
<1>3. f.sig \in Int /\ MgmtStart \in Nat
      /\ (f.first # None => f.first \in Nat /\ f.first + 1 \in Nat)
  BY FoundIn, BlockNumbers
<1> HIDE DEF st1, unread, sig
<1>4. first # None => CheckInfoTable(phys[first].img, AllGood, first, sig)
  BY <1>1, <1>3, TableAtIn
<1> HIDE DEF first
<1>5. f.second # None => CheckInfoTable(phys[f.second].img, st1, f.second, sig)
  BY <1>1, <1>2, <1>3, TableAtIn
<1> QED
  BY <1>1, <1>4, <1>5 DEF CheckInfoTable

(* The signature found while attaching is the one signed block.            *)
LEMMA FoundSigned ==
  ASSUME TypeOK, OneSignature, NEW sig, sig = FindSignature(phys, bad), sig # None
  PROVE  sig \in Signed /\ sig \in PB /\ sig > MgmtStart
<1>1. sig \in MgmtStart - 1 .. BlockCount - 1 /\ sig \notin bad /\ phys[sig] = Signature
  BY FindSignatureIn
<1>2. sig \in Signed /\ sig \in PB
  BY <1>1, BlockNumbers DEF Signed
<1> QED
  BY <1>2 DEF OneSignature

(* Loading the tables of an existing chip keeps the invariant.             *)
LEMMA LoadSigned ==
  ASSUME TInv, SInv, NEW ecc, AttachOne(ecc) \/ AttachUnequal(ecc) \/ AttachEqual(ecc)
  PROVE  SInv' /\ Signed' = Signed
<1> DEFINE f == Found(ecc)
           at == IF Newer(f) THEN f.second ELSE f.first
           img == phys[at].img
<1>1. f.sig # None /\ f.first # None /\ Load(f)
  BY DEF AttachOne, AttachUnequal, AttachEqual, Load
<1>2. /\ f.sig = FindSignature(phys, bad)
      /\ f.first \in MgmtStart .. f.sig - 2
      /\ f.second # None => f.second \in f.first + 1 .. f.sig - 2
  BY <1>1, FoundIn DEF TInv
<1>3. f.sig \in Signed /\ f.sig \in PB /\ f.sig > MgmtStart
  BY <1>1, <1>2, FoundSigned DEF TInv, SInv
<1>4. at \in MgmtStart .. f.sig - 2 /\ \A lb \in LB : img.map[lb] # f.sig
  BY <1>1, <1>2, <1>3, FoundChecked, BlockNumbers DEF Newer, TInv
<1>5. /\ map' = img.map
      /\ sigBa' = f.sig /\ mainBa' = f.first
      /\ backupBa' = (IF f.second = None THEN 0 ELSE f.second)
      /\ mapBa' = (IF f.second = None THEN f.first ELSE f.second) + 1
      /\ topBa' = MappingTop(img, at, f.sig)
      /\ UNCHANGED flash
  BY <1>1 DEF Load
<1>6. Signed' = Signed
  BY <1>5, SameFlash
<1>7. \/ pc' = "erase" /\ wr'.limit \in {mainBa', backupBa', topBa'}
      \/ pc' = "idle"
  BY DEF AttachOne, AttachUnequal, AttachEqual, LoadDone, Rest, Start, Job, Load,
         SyncMainLimit
<1> HIDE DEF f, at, img
<1>8. /\ mainBa' < sigBa' /\ backupBa' < sigBa' /\ mapBa' < sigBa' /\ topBa' < sigBa'
  <2>1. at \in Nat /\ f.sig \in Nat /\ at < f.sig /\ MgmtStart \in Nat
    BY <1>3, <1>4, BlockNumbers
  <2>2. topBa' \in at .. f.sig - 1
    BY <1>5, <2>1, MappingTopIn
  <2> QED
    BY <1>2, <1>5, <2>1, <2>2
<1>9. OneSignature' /\ Below'
  BY <1>3, <1>4, <1>5, <1>6, <1>8 DEF SInv, OneSignature, Below
<1>10. sigBa' # 0
  BY <1>3, <1>5, BlockNumbers
<1>11. Unsigned' /\ WritesBelow'
  BY <1>7, <1>8, <1>10 DEF Unsigned, WritesBelow
<1> QED
  BY <1>6, <1>9, <1>11 DEF SInv

-----------------------------------------------------------------------------
(* When tables are created, the top of the spare pool is put below the     *)
(* signature.                                                              *)
LEMMA CreateTablesSigned ==
  ASSUME NEW s, NEW m, NEW sig \in PB, NEW d, CreateTables(s, m, sig, d),
         topBa = 0, sig > MgmtStart
  PROVE  topBa' < sig /\ pc' \in {"gone", "rebuild"}
<1>1. PoolTop(s, sig) = None => topBa' = topBa
  BY DEF CreateTables
<1>2. PoolTop(s, sig) # None => topBa' = PoolTop(s, sig)
  BY DEF CreateTables
<1>3. topBa' < sig
  BY <1>1, <1>2, PoolTopIn, BlockNumbers
<1> QED
  BY <1>3 DEF CreateTables, Go

(* So do writing the signature and starting to create the tables.          *)
LEMMA CreateSigned ==
  ASSUME TInv, SInv,
         \/ AttachNew \/ SignatureWritten \/ SignatureFails \/ NoSignatureBlock
         \/ \E ecc \in UnreadableSets : AttachNoTable(ecc)
  PROVE  SInv' /\ (Signed' = Signed \/ Signed = {})
<1> USE DEF flash, tables, layout, fixed, control
<1>1. CASE AttachNew
  <2>1. Signed' = Signed
    BY <1>1, SameFlash DEF AttachNew
  <2>2. Signed = {}
    <3>1. ASSUME NEW b \in Signed PROVE b \in MgmtStart - 1 .. BlockCount - 1
      BY BlockNumbers DEF SInv, OneSignature, Signed
    <3> QED
      BY <1>1, <3>1, FindSignatureNone DEF AttachNew, Signed
  <2>3. \A b \in PB : st'[b] = "good" => b \notin bad'
    BY <1>1 DEF AttachNew, Marked, AllGood
  <2>4. \A lb \in LB : map'[lb] < MgmtStart
    BY <1>1, BuildMappingIn, BlockNumbers DEF AttachNew, None
  <2>5. /\ sigBa' = 0 /\ mainBa' = 0 /\ backupBa' = 0 /\ mapBa' = 0 /\ topBa' = 0
        /\ pc' = "sign" /\ wr'.limit = MgmtStart
    BY <1>1 DEF AttachNew, Begin, Job, SInv, Unsigned
  <2>6. OneSignature'
    BY <2>1, <2>2 DEF OneSignature
  <2>7. Unsigned' /\ Below' /\ WritesBelow'
    BY <2>1, <2>2, <2>3, <2>4, <2>5 DEF Unsigned, Below, WritesBelow
  <2> QED
    BY <2>1, <2>6, <2>7 DEF SInv
<1>2. CASE SignatureWritten
  <2> DEFINE b == Highest(SignatureBlocks)
  <2>1. /\ pc = "sign" /\ Signed = {} /\ wr.limit = MgmtStart /\ wr.ba \in PB
        /\ sigBa = 0 /\ mainBa = 0 /\ backupBa = 0 /\ mapBa = 0 /\ topBa = 0
    BY <1>2 DEF SignatureWritten, SInv, Unsigned, TInv, Control
  <2>2. b \in MgmtStart + 1 .. wr.ba /\ st[b] = "good"
    BY <1>2, <2>1, SignatureBlockIn DEF SignatureWritten, TInv
  <2>3. b \in PB /\ b > MgmtStart
    BY <2>1, <2>2, BlockNumbers
  <2>4. b \notin bad
    BY <2>1, <2>2, <2>3 DEF SInv, Unsigned
  <2>5. /\ phys' = [phys EXCEPT ![b] = Signature] /\ bad' = bad /\ sigBa' = b
        /\ CreateTables(st, map, b, dirty)
        /\ UNCHANGED <<map, mainBa, backupBa, mapBa>>
    BY <1>2 DEF SignatureWritten
  <2> HIDE DEF b
  <2>6. Signed' = {b}
    <3>1. ASSUME NEW c \in PB PROVE c \in Signed' <=> c = b
      BY <2>1, <2>3, <2>4, <2>5 DEF Signed, TInv, TypeOK
    <3> QED
      BY <2>3, <3>1 DEF Signed
  <2>7. topBa' < b /\ pc' \in {"gone", "rebuild"}
    BY <2>1, <2>3, <2>5, CreateTablesSigned
  <2>8. \A lb \in LB : map[lb] # b
    BY <2>1, <2>3, BlockNumbers DEF SInv, Unsigned, TInv, TypeOK, Mappings, None
  <2>9. OneSignature' /\ Below'
    BY <2>1, <2>3, <2>5, <2>6, <2>7, <2>8, BlockNumbers DEF OneSignature, Below
  <2>10. Unsigned' /\ WritesBelow'
    BY <2>3, <2>5, <2>7, BlockNumbers DEF Unsigned, WritesBelow
  <2> QED
    BY <2>1, <2>9, <2>10 DEF SInv
<1>3. CASE SignatureFails
  <2> DEFINE b == Highest(SignatureBlocks)
  <2>1. /\ pc = "sign" /\ Signed = {} /\ wr.limit = MgmtStart /\ wr.ba \in PB
        /\ sigBa = 0
    BY <1>3 DEF SignatureFails, SInv, Unsigned, TInv, Control
  <2>2. b \in PB
    BY <1>3, <2>1, SignatureBlockIn, BlockNumbers DEF SignatureFails, TInv
  <2>3. /\ phys' = [phys EXCEPT ![b] = Torn] /\ bad' = bad \cup {b}
        /\ st' = Marked(st, {b}) /\ UNCHANGED <<map, layout, sigBa, pc>>
        /\ wr' = [wr EXCEPT !.ba = b - 1]
    BY <1>3 DEF SignatureFails, Spoil, Fail
  <2> HIDE DEF b
  <2>4. Signed' = Signed
    BY <2>1, <2>2, <2>3, NotSignature, Untouched DEF TInv
  <2>5. wr'.limit = MgmtStart
    BY <2>1, <2>3 DEF TInv, TypeOK
  <2>6. \A c \in PB : st'[c] = "good" => c \notin bad'
    BY <2>1, <2>3 DEF Marked, SInv, Unsigned
  <2>7. OneSignature' /\ Below' /\ WritesBelow'
    BY <2>1, <2>3, <2>4 DEF SInv, OneSignature, Below, WritesBelow
  <2>8. Unsigned'
    BY <2>1, <2>3, <2>4, <2>5, <2>6 DEF SInv, Unsigned
  <2> QED
    BY <2>4, <2>7, <2>8 DEF SInv
<1>4. CASE NoSignatureBlock
  <2>1. Signed' = Signed
    BY <1>4, SameFlash DEF NoSignatureBlock
  <2>2. UNCHANGED <<map, sigBa>> /\ pc' = "gone" /\ sigBa = 0
    BY <1>4 DEF NoSignatureBlock, Go, SInv, Unsigned
  <2> QED
    BY <2>1, <2>2 DEF SInv, OneSignature, Unsigned, Below, WritesBelow
<1>5. ASSUME NEW ecc \in UnreadableSets, AttachNoTable(ecc)
      PROVE  SInv' /\ Signed' = Signed
  <2> DEFINE sig == Found(ecc).sig
  <2>1. /\ sig # None /\ sigBa' = sig /\ CreateTables(st', map', sig, dirty')
        /\ map' = BuildMapping(st') /\ UNCHANGED <<flash, mainBa, backupBa, mapBa>>
        /\ pc = "off"
    BY <1>5 DEF AttachNoTable, Begin
  <2>2. sig = FindSignature(phys, bad)
    BY <2>1, FoundIn DEF TInv
  <2>3. sig \in Signed /\ sig \in PB /\ sig > MgmtStart
    BY <2>1, <2>2, FoundSigned DEF TInv, SInv
  <2>4. Signed' = Signed
    BY <2>1, SameFlash
  <2>5. mainBa = 0 /\ backupBa = 0 /\ mapBa = 0 /\ topBa = 0
    BY <2>1 DEF SInv, Unsigned
  <2> HIDE DEF sig
  <2>6. topBa' < sig /\ pc' \in {"gone", "rebuild"}
    BY <2>1, <2>3, <2>5, CreateTablesSigned
  <2>7. \A lb \in LB : map'[lb] # sig
    BY <2>1, <2>3, BuildMappingIn, BlockNumbers DEF None
  <2>8. OneSignature' /\ Below'
    BY <2>1, <2>3, <2>4, <2>5, <2>6, <2>7, BlockNumbers DEF SInv, OneSignature, Below
  <2>9. Unsigned' /\ WritesBelow'
    BY <2>1, <2>3, <2>6, BlockNumbers DEF Unsigned, WritesBelow
  <2> QED
    BY <2>4, <2>8, <2>9 DEF SInv
<1> QED
  BY <1>1, <1>2, <1>3, <1>4, <1>5

(* A step that maps or unmaps logical blocks keeps the invariant if the    *)
(* top of the spare pool goes down, or down to its bottom.                 *)
LEMMA RemapSigned ==
  ASSUME TInv, SInv, Signed' = Signed, sigBa # 0, UNCHANGED <<sigBa, mainBa, backupBa, mapBa>>,
         topBa' <= topBa \/ topBa' = mapBa, topBa' \in Int,
         \A lb \in LB : map'[lb] # sigBa,
         pc' \notin {"off", "sign", "erase", "prog", "clean"}
  PROVE  SInv'
<1>1. topBa \in Int /\ mapBa \in Int /\ sigBa \in Int /\ topBa < sigBa /\ mapBa < sigBa
  BY BlockNumbers DEF TInv, TypeOK, SInv, Below
<1>2. topBa' < sigBa
  BY <1>1
<1>3. OneSignature' /\ Below'
  BY <1>2 DEF SInv, OneSignature, Below
<1>4. Unsigned' /\ WritesBelow'
  BY DEF Unsigned, WritesBelow
<1> QED
  BY <1>3, <1>4 DEF SInv

(* A logical block moved to a spare block is still not at the signature.   *)
LEMMA MappedSigned ==
  ASSUME TInv, SInv, sigBa # 0, NEW s, NextSpare(s) # None,
         NEW lb \in LB, Mapped(lb, NextSpare(s))
  PROVE  /\ \A l \in LB : map'[l] # sigBa
         /\ topBa' \in Int /\ topBa' <= topBa
<1>1. topBa \in Int /\ mapBa \in Int /\ sigBa \in Int /\ topBa < sigBa
  BY BlockNumbers DEF TInv, TypeOK, SInv, Below
<1>2. NextSpare(s) \in mapBa + 1 .. topBa
  BY NextSpareIn DEF TInv
<1>3. NextSpare(s) # sigBa
  BY <1>1, <1>2
<1>4. map' = [map EXCEPT ![lb] = NextSpare(s)] /\ topBa' = topBa - 1
  BY DEF Mapped
<1>5. map \in Mappings
  BY DEF TInv, TypeOK
<1> QED
  BY <1>1, <1>3, <1>4, <1>5 DEF SInv, Below, Mappings

(* The loop of nmbm_create_info_table() keeps the invariant.               *)
LEMMA CreateMapSigned ==
  ASSUME TInv, SInv, CreateRemap \/ CreateEnd \/ CreateNoSpare
  PROVE  SInv' /\ Signed' = Signed
<1> USE DEF flash, tables, layout, fixed, control, Update
<1>1. Signed' = Signed /\ sigBa # 0 /\ UNCHANGED <<sigBa, mainBa, backupBa, mapBa>>
      /\ pc' \in {"create", "update"}
  BY SameFlash DEF CreateRemap, CreateEnd, CreateNoSpare, SInv, WritesBelow
<1>2. CASE CreateRemap
  <2>1. dataCount \in LB
    BY <1>2, BlockNumbers DEF CreateRemap, TInv, TypeOK
  <2>2. (\A l \in LB : map'[l] # sigBa) /\ topBa' \in Int /\ topBa' <= topBa
    BY <1>1, <1>2, <2>1, MappedSigned DEF CreateRemap
  <2> QED
    BY <1>1, <2>2, RemapSigned
<1>3. CASE CreateEnd \/ CreateNoSpare
  <2>1. map' = map /\ (topBa' = topBa \/ topBa' = mapBa) /\ topBa' \in Int /\ topBa \in Int
    BY <1>3, BlockNumbers DEF CreateEnd, CreateNoSpare, TInv, TypeOK
  <2>2. (\A l \in LB : map'[l] # sigBa) /\ (topBa' <= topBa \/ topBa' = mapBa)
    BY <1>1, <2>1 DEF SInv, Below
  <2> QED
    BY <1>1, <2>1, <2>2, RemapSigned
<1> QED
  BY <1>2, <1>3

-----------------------------------------------------------------------------
(* The operations on a logical block touch the block it is mapped to.      *)
LEMMA MappedUnsigned ==
  ASSUME TInv, SInv, sigBa # 0, NEW lb \in LB, map[lb] # None
  PROVE  map[lb] \in PB /\ map[lb] \notin Signed
<1>1. map[lb] \in PB /\ map[lb] # sigBa
  BY DEF TInv, TypeOK, Mappings, SInv, Below
<1> QED
  BY <1>1, Only

(* Writes, erases and bad marks keep the invariant.                        *)
LEMMA BlockSigned ==
  ASSUME TInv, SInv, BlockStep
  PROVE  SInv' /\ Signed' = Signed
<1> USE DEF flash, tables, layout, fixed, control, Accepts, Writable, Spoil, Fail,
            Update, Rest, Promise, budget, history
<1>1. CASE \E lb \in LB : Refused(lb)
  <2>1. UNCHANGED vars
    BY <1>1 DEF Refused
  <2>2. Signed' = Signed
    BY <2>1, SameFlash DEF vars
  <2> QED
    BY <2>1, <2>2 DEF vars, SInv, OneSignature, Unsigned, Below, WritesBelow
<1>2. ASSUME NEW lb \in LB, \/ WriteOk(lb) \/ WriteFails(lb) \/ EraseBegin(lb)
                            \/ MarkBad(lb)
      PROVE  SInv' /\ Signed' = Signed
  <2>1. sigBa # 0 /\ map[lb] \in PB /\ map[lb] \notin Signed
    BY <1>2, MappedUnsigned DEF WriteOk, WriteFails, EraseBegin, MarkBad, SInv, WritesBelow
  <2>2. Signed' = Signed
    <3>1. CASE WriteOk(lb)
      BY <2>1, <3>1, Untouched, NotSignature DEF WriteOk, TInv
    <3>2. CASE WriteFails(lb)
      BY <2>1, <3>2, Untouched, NotSignature DEF WriteFails, TInv
    <3>3. CASE EraseBegin(lb)
      BY <3>3, SameFlash DEF EraseBegin
    <3>4. CASE MarkBad(lb)
      BY <2>1, <3>4, MarkedOther DEF MarkBad
    <3> QED
      BY <1>2, <3>1, <3>2, <3>3, <3>4
  <2>3. /\ UNCHANGED <<sigBa, mainBa, backupBa, mapBa, topBa>>
        /\ pc' \in {"idle", "update", "erase_lb"}
        /\ map' = map \/ map' = [map EXCEPT ![lb] = None]
    BY <1>2 DEF WriteOk, WriteFails, EraseBegin, MarkBad
  <2>4. \A l \in LB : map'[l] # sigBa
    BY <2>1, <2>3, BlockNumbers DEF SInv, Below, TInv, TypeOK, Mappings, None
  <2>5. topBa' \in Int /\ topBa' <= topBa
    BY <2>3, BlockNumbers DEF TInv, TypeOK
  <2> QED
    BY <2>1, <2>2, <2>3, <2>4, <2>5, RemapSigned
<1>3. CASE ErasedBlock \/ EraseFails \/ EraseLeavesBlock \/ EraseUnmaps
  <2>1. sigBa # 0 /\ cur \in LB
    BY <1>3 DEF ErasedBlock, EraseFails, EraseLeavesBlock, EraseUnmaps, SInv,
                WritesBelow, TInv, TypeOK
  <2>2. pc = "erase_lb" => map[cur] \in PB /\ map[cur] \notin Signed
    BY <2>1, MappedUnsigned DEF TInv, Control
  <2>3. Signed' = Signed
    <3>1. CASE ErasedBlock
      BY <2>2, <3>1, Untouched, NotSignature DEF ErasedBlock, TInv
    <3>2. CASE EraseFails
      BY <2>2, <3>2, Untouched, NotSignature DEF EraseFails, TInv
    <3>3. CASE EraseLeavesBlock \/ EraseUnmaps
      BY <3>3, SameFlash DEF EraseLeavesBlock, EraseUnmaps
    <3> QED
      BY <1>3, <3>1, <3>2, <3>3
  <2>4. topBa \in Int /\ mapBa \in Int /\ sigBa \in Nat
    BY BlockNumbers DEF TInv, TypeOK
  <2>5. CASE ErasedBlock \/ EraseUnmaps
    <3>1. /\ UNCHANGED <<sigBa, mainBa, backupBa, mapBa>>
          /\ topBa' = topBa \/ topBa' = mapBa
          /\ pc' \in {"idle", "update"}
          /\ map' = map \/ map' = [map EXCEPT ![cur] = None]
      BY <2>5 DEF ErasedBlock, EraseUnmaps
    <3>2. \A l \in LB : map'[l] # sigBa
      BY <2>1, <2>4, <3>1 DEF SInv, Below, TInv, TypeOK, Mappings, None
    <3> QED
      BY <2>1, <2>3, <2>4, <3>1, <3>2, RemapSigned
  <2>6. CASE EraseFails \/ EraseLeavesBlock
    <3>1. PICK s : RemapBlock(s)
      BY <2>6 DEF EraseFails, EraseLeavesBlock
    <3>2. UNCHANGED <<sigBa, mainBa, backupBa, mapBa>> /\ pc' \in {"update", "erase_lb"}
      BY <3>1 DEF RemapBlock, UpdateFirst
    <3>3. CASE topBa' = topBa /\ (map' = map \/ map' = [map EXCEPT ![cur] = None])
      <4>1. \A l \in LB : map'[l] # sigBa
        BY <2>1, <2>4, <3>3 DEF SInv, Below, TInv, TypeOK, Mappings, None
      <4> QED
        BY <2>1, <2>3, <2>4, <3>2, <3>3, <4>1, RemapSigned
    <3>4. CASE NextSpare(s) # None /\ Mapped(cur, NextSpare(s))
      <4>1. (\A l \in LB : map'[l] # sigBa) /\ topBa' \in Int /\ topBa' <= topBa
        BY <2>1, <3>4, MappedSigned
      <4> QED
        BY <2>1, <2>3, <3>2, <4>1, RemapSigned
    <3> QED
      BY <3>1, <3>3, <3>4 DEF RemapBlock
  <2> QED
    BY <1>3, <2>3, <2>5, <2>6
<1> QED
  BY <1>1, <1>2, <1>3 DEF BlockStep

-----------------------------------------------------------------------------
(* Detaching and power cuts leave the signature alone.                     *)
LEMMA OtherSigned ==
  ASSUME TInv, SInv, Detach \/ Leave \/ Crash \/ CutShort \/ StaysOff \/ UNCHANGED vars
  PROVE  SInv' /\ Signed' = Signed
<1> USE DEF flash, tables, layout, fixed, control
<1>1. CASE UNCHANGED vars
  <2>1. Signed' = Signed
    BY <1>1, SameFlash DEF vars
  <2> QED
    BY <1>1, <2>1 DEF vars, SInv, OneSignature, Unsigned, Below, WritesBelow
<1>2. CASE Detach
  <2>1. Signed' = Signed
    BY <1>2, SameFlash DEF Detach
  <2> QED
    BY <1>2, <2>1 DEF Detach, Update, SInv, OneSignature, Unsigned, Below, WritesBelow
<1>3. CASE Leave \/ Crash \/ CutShort
  <2>1. PowerOff
    BY <1>3 DEF Leave, Crash, CutShort
  <2>2. Signed' = Signed
    <3>1. CASE Leave \/ Crash
      BY <3>1, SameFlash DEF Leave, Crash
    <3>2. CASE CutShort
      <4>1. ASSUME NEW b \in PB, b \notin Signed, Spoil(b) PROVE Signed' = Signed
        BY <3>2, <4>1, Untouched, NotSignature DEF CutShort, Spoil, TInv
      <4>2. CASE /\ pc \in {"erase", "clean"} /\ Usable(wr.ba, wr.limit) # {}
                 /\ Spoil(Lowest(Usable(wr.ba, wr.limit)))
        <5>1. wr.ba \in Nat /\ wr.limit \in PB /\ wr.limit < sigBa /\ sigBa \in PB
              /\ sigBa # 0
          BY <4>2, BlockNumbers DEF TInv, TypeOK, SInv, WritesBelow
        <5> QED
          BY <4>1, <4>2, <5>1, UsableIn, Only, BlockNumbers
      <4>3. CASE /\ pc = "sign" /\ SignatureBlocks # {}
                 /\ Spoil(Highest(SignatureBlocks))
        <5>1. Signed = {} /\ wr.ba \in PB
          BY <4>3 DEF TInv, Control, SInv, Unsigned
        <5>2. Highest(SignatureBlocks) \in PB
          BY <4>3, <5>1, SignatureBlockIn, BlockNumbers DEF TInv, TypeOK
        <5> QED
          BY <4>1, <4>3, <5>1, <5>2
      <4>4. CASE pc = "erase_lb" /\ Spoil(map[cur])
        <5>1. sigBa # 0 /\ cur \in LB /\ map[cur] # None
          BY <4>4 DEF TInv, TypeOK, Control, SInv, WritesBelow
        <5> QED
          BY <4>1, <4>4, <5>1, MappedUnsigned
      <4>5. ASSUME NEW lb \in LB, Writable(lb), Spoil(map[lb]) PROVE Signed' = Signed
        <5>1. sigBa # 0 /\ map[lb] # None
          BY <4>5 DEF Writable, Accepts, SInv, WritesBelow
        <5> QED
          BY <4>1, <4>5, <5>1, MappedUnsigned
      <4> QED
        BY <3>2, <4>2, <4>3, <4>4, <4>5 DEF CutShort
    <3> QED
      BY <1>3, <3>1, <3>2
  <2> QED
    BY <2>1, <2>2 DEF PowerOff, SInv, OneSignature, Unsigned, Below, WritesBelow
<1> QED
  BY <1>1, <1>2, <1>3 DEF StaysOff

-----------------------------------------------------------------------------
(* Every step keeps the invariant, and the signed blocks if there are any. *)
LEMMA NextSigned ==
  ASSUME TInv, SInv, [Next]_vars
  PROVE  SInv' /\ (Signed' = Signed \/ Signed = {})
<1>1. CASE TableStep
  BY <1>1, TableSigned, TableFlash
<1>2. CASE AttachStep
  BY <1>2, CreateSigned, CreateMapSigned, LoadSigned, RescueSigned, RescueFlash
  DEF AttachStep, RescueStep
<1>3. CASE BlockStep
  BY <1>3, BlockSigned
<1> QED
  BY <1>1, <1>2, <1>3, OtherSigned DEF Next

(* No step of nmbm_write_mgmt_range(), nmbm_erase_range() or of an         *)
(* operation on a logical block, none that fails and no power cut, changes *)
(* the block that nmbm_find_signature() finds.                             *)
THEOREM SignatureKept == Spec => SignatureStays
<1> DEFINE Stays == LET sig == FindSignature(phys, bad) IN
                    sig # None => FindSignature(phys', bad') = sig
<1>1. Init => TInv /\ SInv
  BY InitTypeOK, InitSigned
<1>2. TInv /\ SInv /\ [Next]_vars => (TInv /\ SInv)'
  BY NextTypeOK, NextSigned
<1>3. TInv /\ SInv /\ [Next]_vars => [Stays]_vars
  BY NextSigned, SameFound, NoneFound
<1> QED
  BY <1>1, <1>2, <1>3, PTL DEF Spec, SignatureStays
=============================================================================
