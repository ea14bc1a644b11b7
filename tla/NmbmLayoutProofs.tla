-------------------------- MODULE NmbmLayoutProofs --------------------------
(***************************************************************************)
(* Proofs about Nmbm: where the information tables are, and what they say, *)
(* for every chip and every number of failures.  Until nmbm_map_block()    *)
(* passes over a bad block, the regions of the management area stay apart  *)
(* and no two logical blocks share a block.                                *)
(***************************************************************************)
EXTENDS NmbmProofs

(* The tables on the chip that an attach may find, and what they say.      *)
Tables == {b \in PB : b \notin bad /\ phys[b].kind = "table"}
Img(b) == phys[b].img

(* What is good in s is good in t.                                         *)
NoMore(s, t) == \A a \in PB : s[a] = "good" => t[a] = "good"

(* A mapping that uses no block from MgmtStart to b, nor from the          *)
(* signature sig on, and none twice.                                       *)
Sound(m, b, sig) ==
    /\ InjectiveMap(m)
    /\ \A lb \in LB : m[lb] < MgmtStart \/ (b < m[lb] /\ m[lb] < sig)

(* No table can be written from block a to block b - 1, where the blocks   *)
(* in B carry a bad mark.                                                  *)
Full(s, B, a, b) == \A c \in a .. b - 1 : c \in B \/ s[c] # "good"

(* What holds of the chip, whatever the driver is at: there are at most    *)
(* two tables; none uses the blocks of another; those with the same write  *)
(* count are the same, and one with a higher count calls no more blocks    *)
(* good; below the lower of two, no block is good in both.                 *)
TablesPlaced == \A b \in Tables : \E s \in Signed : MgmtStart <= b /\ b + 1 < s
TablesSound == \A b, c \in Tables, s \in Signed : Sound(Img(b).map, c + 1, s)
TablesGood == \A b, c \in Tables : Img(b).st[c] = "good"
TablesOrdered == \A b, c \in Tables :
    /\ Img(b).wc = Img(c).wc => Img(b) = Img(c)
    /\ Img(b).wc <= Img(c).wc => NoMore(Img(c).st, Img(b).st)
TablesLow == \A b, c \in Tables : b < c =>
    \A a \in MgmtStart .. b - 1 : a \in bad \/ Img(b).st[a] # "good" \/ Img(c).st[a] # "good"
TablesTwo == \A a, b, c \in Tables : a = b \/ b = c \/ a = c
Chip == /\ TablesPlaced /\ TablesSound /\ TablesGood /\ TablesOrdered
        /\ TablesLow /\ TablesTwo

Attached == pc \notin {"off", "gone", "sign"}
Writing == pc \in {"erase", "prog"}
Writes(k) == Writing /\ wr.k = k
Cleans(k) == pc = "clean" /\ wr.k = k

(* What is in memory, against what was last written or is being written.   *)
Memory ==
    /\ mapBa <= topBa /\ topBa < sigBa
    /\ Sound(map, topBa, sigBa) /\ Sound(cache.map, topBa, sigBa)
    /\ wc = cache.wc
    /\ NoMore(st, cache.st)
    /\ \A a \in MgmtStart .. topBa : cache.st[a] = "good" => st[a] = "good" \/ a \in bad

(* The older of two tables, until it is replaced.                          *)
Older(b) == (Writes("syncmain") \/ Writes("syncbackup")) /\ b = wr.from

(* The tables on the chip, against what is in memory.                      *)
Known ==
    \A b \in Tables :
        /\ st[b] = "good" /\ b < topBa
        /\ Img(b).wc <= wc
        /\ Img(b).wc = wc => Img(b) = cache
        /\ NoMore(cache.st, Img(b).st)
        /\ ~ Older(b) => Sound(Img(b).map, topBa, sigBa)

Regions ==
    /\ mainBa = 0 => mapBa = topBa
    /\ mainBa # 0 => MgmtStart <= mainBa /\ mainBa < mapBa
    /\ backupBa # 0 => /\ mainBa # 0 /\ mainBa < backupBa /\ backupBa < mapBa
                       /\ Full(cache.st, bad, MgmtStart, mainBa)

(* Where the tables on the chip can be.                                    *)
Place(b) ==
    /\ pc # "rebuild" /\ ~ Writes("rebuild")
    /\ Writes("second") \/ Writes("front") \/ Writes("behind") => b = mainBa
    /\ Writes("tmp") => b = backupBa
    /\ Writes("rescue") => b \in {backupBa, wr.limit}
    /\ Cleans("behind") => b \in {mainBa, wr.limit}
    /\ ~ Writes("rescue") /\ ~ Cleans("behind") => b \in {mainBa, backupBa}

(* The arguments of the table write or range erase under way.              *)
From(a, limit) == wr.from = a /\ wr.limit = limit
Front(b) == Full(cache.st, bad, MgmtStart, b)
Underway ==
    /\ Writes("rebuild") => /\ mainBa = 0 /\ backupBa = 0 /\ mapBa = topBa
                            /\ From(MgmtStart, topBa)
    /\ Writes("second") => /\ mainBa # 0 /\ backupBa = 0 /\ wr.limit = topBa
                           /\ mapBa <= wr.from /\ Front(mainBa)
    /\ Cleans("second") => mainBa # 0 /\ From(mainBa + 1, backupBa)
    /\ Writes("backup") => backupBa # 0 /\ From(backupBa, topBa)
    /\ Writes("main") => mainBa # 0 /\ From(mainBa, MainLimit)
    /\ Writes("tmp") => /\ backupBa # 0 /\ wr.limit = topBa
                        /\ mapBa <= wr.from /\ Front(backupBa)
    /\ Writes("rescue") => /\ backupBa # 0 /\ From(MgmtStart, mapBa - 1)
                           /\ backupBa < wr.limit /\ Front(backupBa)
    /\ Writes("front") => backupBa = 0 /\ mainBa # 0 /\ From(MgmtStart, mainBa)
    /\ Cleans("front") => backupBa # 0 /\ From(mainBa + 1, backupBa)
    /\ Writes("behind") => /\ mainBa # 0 /\ backupBa = 0 /\ wr.limit = topBa
                           /\ mapBa <= wr.from /\ Front(mainBa)
    /\ Cleans("behind") => /\ mainBa # 0 /\ backupBa = 0 /\ From(mapBa, wr.limit)
                           /\ mapBa <= wr.limit /\ wr.limit < topBa /\ Front(mainBa)
    /\ Writes("syncmain") => backupBa # 0 /\ From(mainBa, backupBa)
    /\ Writes("syncbackup") => backupBa # 0 /\ From(backupBa, topBa)

(* The blocks that a table write or range erase has passed.                *)
Passed ==
    /\ Writing \/ pc = "clean" => MgmtStart <= wr.from /\ wr.from <= wr.ba /\ wr.limit <= topBa
    /\ pc = "erase" \/ pc = "clean" => \A b \in Tables : b < wr.from \/ wr.ba <= b
    /\ pc = "prog" => /\ \A b \in Tables : b < wr.from \/ wr.ba < b
                      /\ st[wr.ba] = "good" /\ wr.ba \notin bad
    /\ Writing => Full(cache.st, bad, wr.from, wr.ba)

Layout == /\ Memory /\ Known
          /\ \A b \in Tables : Place(b)
          /\ pc # "rebuild" => Regions
          /\ Underway /\ Passed

LInv == ~ skipped =>
    /\ InjectiveMap(map) /\ Chip
    /\ Attached => Layout

-----------------------------------------------------------------------------
(* The driver's block numbers are natural numbers.                         *)
LEMMA Numeric ==
  ASSUME TypeOK
  PROVE  /\ mainBa \in Nat /\ backupBa \in Nat /\ mapBa \in Nat /\ topBa \in Nat
         /\ sigBa \in Nat /\ topBa < BlockCount /\ sigBa < BlockCount
         /\ wr.ba \in Nat /\ wr.limit \in Nat /\ wr.from \in Nat /\ wr.limit \in PB
         /\ wr \in [k : Jobs, ba : 0 .. BlockCount, limit : PB, from : 0 .. BlockCount]
         /\ MgmtStart \in Nat /\ 0 < MgmtStart /\ BlockCount \in Nat /\ MgmtStart < BlockCount
         /\ \A b \in Tables : b \in Nat /\ b < BlockCount /\ b \in PB
         /\ PB \subseteq Nat
<1>1. mainBa \in Nat /\ backupBa \in Nat /\ mapBa \in Nat /\ topBa \in Nat
      /\ sigBa \in Nat /\ topBa < BlockCount /\ sigBa < BlockCount
  BY BlockNumbers DEF TypeOK
<1>2. wr \in [k : Jobs, ba : 0 .. BlockCount, limit : PB, from : 0 .. BlockCount]
  BY DEF TypeOK
<1>3. wr.ba \in Nat /\ wr.limit \in Nat /\ wr.from \in Nat /\ wr.limit \in PB
  BY <1>2, BlockNumbers
<1> QED
  BY <1>1, <1>2, <1>3, BlockNumbers DEF Tables

(* An attached driver knows the one signature, and the tables are below.   *)
LEMMA OneSigned ==
  ASSUME TypeOK, SInv, sigBa # 0
  PROVE  Signed = {sigBa}
  BY DEF SInv, OneSignature, Below

(* The states and the mapping of a table or of memory have their types.    *)
LEMMA ImagesTyped ==
  ASSUME TypeOK
  PROVE  /\ \A b \in Tables : Img(b) \in Image
         /\ \A img \in Image : /\ img.wc \in Nat /\ img.st \in [PB -> BlockStates]
                               /\ img.map \in Mappings
         /\ cache \in Image /\ map \in Mappings
         /\ \A m \in Mappings : \A lb \in LB : m[lb] \in Int
<1>1. \A b \in Tables : Img(b) \in Image
  BY TableImage DEF TypeOK, Tables, Img
<1>2. \A m \in Mappings : \A lb \in LB : m[lb] \in Int
  BY BlockNumbers DEF Mappings, None
<1> QED
  BY <1>1, <1>2 DEF Image, TypeOK

(* A mapping that keeps off a larger range keeps off a smaller one.        *)
LEMMA SoundBelow ==
  ASSUME NEW m \in Mappings, NEW b \in Int, NEW c \in Int, NEW sig \in Int, c <= b,
         Sound(m, b, sig)
  PROVE  Sound(m, c, sig)
<1>1. \A lb \in LB : m[lb] \in Int
  BY BlockNumbers DEF Mappings, None
<1> QED
  BY <1>1, BlockNumbers DEF Sound

(* What no block more is good in, no block more is good in.                *)
LEMMA NoMoreThen ==
  ASSUME NEW s, NEW t, NEW u, NoMore(s, t), NoMore(t, u)
  PROVE  NoMore(s, u)
  BY DEF NoMore

(* Tables that are erased or marked bad leave the others as they were.     *)
LEMMA ChipKept ==
  ASSUME Chip, Tables' \subseteq Tables, \A b \in Tables' : phys'[b] = phys[b],
         bad \subseteq bad', Signed' = Signed \/ Signed = {}
  PROVE  Chip'
<1>1. \A b \in Tables' : b \in Tables /\ Img(b)' = Img(b)
  BY DEF Img
<1>2. Signed = {} => Tables = {}
  BY DEF Chip, TablesPlaced
<1>3. TablesPlaced'
  BY <1>1, <1>2 DEF Chip, TablesPlaced
<1>4. TablesSound'
  BY <1>1, <1>2 DEF Chip, TablesSound
<1>5. TablesGood' /\ TablesOrdered' /\ TablesTwo'
  BY <1>1 DEF Chip, TablesGood, TablesOrdered, TablesTwo
<1>6. TablesLow'
  BY <1>1 DEF Chip, TablesLow
<1> QED
  BY <1>3, <1>4, <1>5, <1>6 DEF Chip

(* A step that leaves the chip alone leaves the tables alone.              *)
LEMMA SameTables ==
  ASSUME UNCHANGED flash
  PROVE  Tables' = Tables /\ \A b \in Tables' : phys'[b] = phys[b] /\ bad' = bad
  BY DEF flash, Tables

(* Erasing or spoiling a block takes at most its table away.               *)
LEMMA OneChanged ==
  ASSUME TypeOK, NEW b \in PB, NEW x, x.kind # "table", phys' = [phys EXCEPT ![b] = x],
         bad \subseteq bad'
  PROVE  /\ Tables' \subseteq Tables /\ b \notin Tables'
         /\ \A c \in Tables' : phys'[c] = phys[c]
<1>1. \A c \in PB : phys'[c] = IF c = b THEN x ELSE phys[c]
  BY DEF TypeOK
<1> QED
  BY <1>1 DEF Tables

(* What an erase leaves is no table.                                       *)
LEMMA NoTable == /\ Blank.kind # "table" /\ Torn.kind # "table" /\ Signature.kind # "table"
                 /\ \A lb : Data(lb).kind # "table"
  BY DEF Blank, Torn, Signature, Data

(* A step of a table write keeps what memory says about the chip: it marks *)
(* blocks as bad only when they carry the mark.                            *)
LEMMA MemoryKept ==
  ASSUME TypeOK, SInv, sigBa # 0, Chip, Memory, Known, Signed' = Signed,
         UNCHANGED <<map, wc, cache, topBa, sigBa>>,
         Tables' \subseteq Tables, \A b \in Tables' : phys'[b] = phys[b], bad \subseteq bad',
         NoMore(st', st), \A a \in PB : st[a] = "good" => st'[a] = "good" \/ a \in bad',
         mapBa' <= topBa,
         \A b \in Tables' : Older(b) => Older(b)'
  PROVE  Chip' /\ Memory' /\ Known'
<1>1. Chip'
  BY ChipKept
<1>2. NoMore(st', cache'.st)
  BY NoMoreThen DEF Memory
<1>3. ASSUME NEW a \in MgmtStart' .. topBa', cache'.st[a] = "good"
      PROVE  st'[a] = "good" \/ a \in bad'
  <2>1. a \in PB /\ a \in MgmtStart .. topBa /\ cache.st[a] = "good"
    BY <1>3, Numeric, BlockNumbers
  <2> QED
    BY <2>1 DEF Memory
<1>4. Memory'
  BY <1>2, <1>3 DEF Memory
<1>5. ASSUME NEW b \in Tables'
      PROVE  /\ st'[b] = "good" /\ b < topBa
             /\ Img(b)' = Img(b) /\ b \in Tables
  BY Numeric DEF Known, Tables, Img
<1>6. Known'
  BY <1>5 DEF Known
<1> QED
  BY <1>1, <1>4, <1>6

-----------------------------------------------------------------------------
(* Here is what the invariant says of a driver that is attached.           *)
Here == InjectiveMap(map) /\ Chip /\ Layout

(* An attached driver has the one signature, and keeps it.                 *)
LEMMA Attach ==
  ASSUME TInv, SInv, Attached
  PROVE  TypeOK /\ sigBa # 0 /\ Signed = {sigBa}
<1>1. TypeOK /\ sigBa # 0
  BY DEF TInv, SInv, WritesBelow, Attached
<1> QED
  BY <1>1, OneSigned

(* More bad marks leave no more blocks for a table.                        *)
LEMMA StillFull ==
  ASSUME NEW s, NEW B, NEW C, NEW a, NEW b, B \subseteq C, Full(s, B, a, b)
  PROVE  Full(s, C, a, b)
  BY DEF Full

(* The blocks that a table write or range erase passes over until it finds *)
(* a usable one hold no table, and cannot take one.                        *)
LEMMA PassedOver ==
  ASSUME TInv, SInv, Attached, Memory, Known, Passed, pc \in {"erase", "clean"},
         NEW n \in Nat, n <= wr.limit,
         \A c \in Usable(wr.ba, wr.limit) : n <= c
  PROVE  /\ \A c \in Tables : c < wr.from \/ n <= c
         /\ Writing => Full(cache.st, bad, wr.from, n)
<1>1. TypeOK
  BY DEF TInv
<1>2. /\ wr.ba \in Nat /\ wr.limit \in Nat /\ wr.from \in Nat /\ topBa \in Nat
      /\ MgmtStart \in Nat /\ wr.from <= wr.ba /\ MgmtStart <= wr.from /\ wr.limit <= topBa
      /\ wr.limit \in PB
  BY <1>1, Numeric DEF Passed, Writing
<1>3. ASSUME NEW c \in wr.ba .. n - 1 PROVE c \in bad \/ st[c] # "good"
  <2>1. c \in wr.ba .. wr.limit - 1 /\ c \in Nat /\ c < n
    BY <1>2, <1>3
  <2>2. c \notin Usable(wr.ba, wr.limit)
    BY <2>1
  <2> QED
    BY <2>1, <2>2 DEF Usable
<1>4. ASSUME NEW c \in Tables PROVE c < wr.from \/ n <= c
  <2>1. c \in Nat /\ c \notin bad /\ st[c] = "good"
    BY <1>1, Numeric DEF Known, Tables
  <2>2. c < wr.from \/ wr.ba <= c
    BY DEF Passed
  <2>3. c \notin wr.ba .. n - 1
    BY <1>3, <2>1
  <2> QED
    BY <1>2, <2>1, <2>2, <2>3
<1>5. ASSUME Writing, NEW c \in wr.from .. n - 1 PROVE c \in bad \/ cache.st[c] # "good"
  <2>1. CASE c \in wr.from .. wr.ba - 1
    BY <1>5, <2>1 DEF Passed, Full
  <2>2. CASE c \in wr.ba .. n - 1
    <3>1. c \in bad \/ st[c] # "good"
      BY <1>3, <2>2
    <3>2. c \in MgmtStart .. topBa
      BY <1>2, <2>2
    <3> QED
      BY <3>1, <3>2 DEF Memory
  <2> QED
    BY <1>2, <1>5, <2>1, <2>2
<1> QED
  BY <1>4, <1>5 DEF Full

(* The loops of nmbm_write_mgmt_range() and nmbm_erase_range().            *)
LoopStep == MgmtErased \/ MgmtEraseFails \/ MgmtProgramFails \/ CleanStep \/ CleanFails

(* They go on from block to block: b is the one looked at, and n is where  *)
(* the loop goes on.                                                       *)
LEMMA LoopEffect ==
  ASSUME TInv, SInv, Here, Attached, LoopStep
  PROVE  \E b \in PB, n \in Nat :
           /\ wr.ba <= b /\ b < wr.limit /\ st[b] = "good"
           /\ \A c \in Tables : c < wr.from \/ b <= c
           /\ Writing => Full(cache.st, bad, wr.from, b)
           /\ Tables' \subseteq Tables /\ b \notin Tables'
           /\ \A c \in Tables' : phys'[c] = phys[c]
           /\ bad \subseteq bad'
           /\ \A a \in PB : st'[a] = st[a] \/ (st'[a] = "bad" /\ a \in bad')
           /\ UNCHANGED <<map, wc, cache, layout, fixed, ret, cur, history>>
           /\ wr' = [wr EXCEPT !.ba = n]
           /\ \/ n = b /\ pc' = "prog" /\ pc = "erase" /\ st'[b] = "good" /\ b \notin bad'
              \/ n = b + 1 /\ pc' = "erase" /\ pc \in {"erase", "prog"} /\ b \in bad'
              \/ n = b + 1 /\ pc' = "clean" /\ pc = "clean"
<1>1. TypeOK
  BY DEF TInv
<1>2. wr.ba \in Nat /\ wr.limit \in PB /\ wr.limit \in Nat /\ PB \subseteq Nat
  BY <1>1, Numeric
<1>3. Memory /\ Known /\ Passed
  BY DEF Here, Layout
<1> DEFINE b == Lowest(Usable(wr.ba, wr.limit))
<1>4. ASSUME pc \in {"erase", "clean"}, Usable(wr.ba, wr.limit) # {}
      PROVE  /\ b \in PB /\ wr.ba <= b /\ b < wr.limit /\ b \notin bad /\ st[b] = "good"
             /\ \A c \in Tables : c < wr.from \/ b <= c
             /\ Writing => Full(cache.st, bad, wr.from, b)
  <2>1. b \in PB /\ wr.ba <= b /\ b < wr.limit /\ b \notin bad /\ st[b] = "good"
    BY <1>2, <1>4, UsableIn
  <2>2. Usable(wr.ba, wr.limit) \in SUBSET Nat
    BY <1>2 DEF Usable
  <2>3. \A c \in Usable(wr.ba, wr.limit) : b <= c
    BY <1>4, <2>2, LowestIn
  <2> HIDE DEF b
  <2>4. b \in Nat /\ b <= wr.limit
    BY <1>2, <2>1
  <2> QED
    BY <1>3, <1>4, <2>1, <2>3, <2>4, PassedOver
<1> HIDE DEF b
<1>5. CASE MgmtErased
  <2>1. /\ b \in PB /\ wr.ba <= b /\ b < wr.limit /\ b \notin bad /\ st[b] = "good"
        /\ \A c \in Tables : c < wr.from \/ b <= c
        /\ Writing => Full(cache.st, bad, wr.from, b)
    BY <1>4, <1>5 DEF MgmtErased
  <2>2. /\ phys' = [phys EXCEPT ![b] = Torn] /\ bad' = bad /\ st' = Seen(wr.ba, b)
        /\ pc = "erase" /\ pc' = "prog" /\ wr' = [wr EXCEPT !.ba = b]
        /\ UNCHANGED <<map, wc, cache, layout, fixed, ret, cur, history>>
    BY <1>5 DEF MgmtErased, Spoil, b
  <2>3. Tables' \subseteq Tables /\ b \notin Tables' /\ \A c \in Tables' : phys'[c] = phys[c]
    BY <1>1, <2>1, <2>2, OneChanged, NoTable
  <2>4. \A a \in PB : st'[a] = st[a] \/ (st'[a] = "bad" /\ a \in bad')
    BY <2>2 DEF Seen, Marked
  <2>5. st'[b] = "good" /\ b \notin bad'
    BY <2>1, <2>2 DEF Seen, Marked
  <2> QED
    BY <1>2, <2>1, <2>2, <2>3, <2>4, <2>5
<1>6. CASE MgmtEraseFails \/ CleanFails
  <2>1. /\ b \in PB /\ wr.ba <= b /\ b < wr.limit /\ b \notin bad /\ st[b] = "good"
        /\ \A c \in Tables : c < wr.from \/ b <= c
        /\ Writing => Full(cache.st, bad, wr.from, b)
    BY <1>4, <1>6 DEF MgmtEraseFails, CleanFails
  <2>2. /\ phys' = [phys EXCEPT ![b] = Torn] /\ bad' = bad \cup {b}
        /\ st' = Marked(Seen(wr.ba, b), {b})
        /\ pc \in {"erase", "clean"} /\ pc' = pc /\ wr' = [wr EXCEPT !.ba = b + 1]
        /\ UNCHANGED <<map, wc, cache, layout, fixed, ret, cur, history>>
    BY <1>6 DEF MgmtEraseFails, CleanFails, Spoil, Fail, b
  <2>3. Tables' \subseteq Tables /\ b \notin Tables' /\ \A c \in Tables' : phys'[c] = phys[c]
    BY <1>1, <2>1, <2>2, OneChanged, NoTable
  <2>4. \A a \in PB : st'[a] = st[a] \/ (st'[a] = "bad" /\ a \in bad')
    BY <2>2 DEF Seen, Marked
  <2>5. b + 1 \in Nat /\ b \in bad' /\ bad \subseteq bad'
    BY <1>2, <2>1, <2>2
  <2> QED
    BY <2>1, <2>2, <2>3, <2>4, <2>5
<1>7. CASE CleanStep
  <2>1. /\ b \in PB /\ wr.ba <= b /\ b < wr.limit /\ b \notin bad /\ st[b] = "good"
        /\ \A c \in Tables : c < wr.from \/ b <= c
        /\ Writing => Full(cache.st, bad, wr.from, b)
    BY <1>4, <1>7 DEF CleanStep
  <2>2. /\ phys' = [phys EXCEPT ![b] = Blank] /\ bad' = bad /\ st' = Seen(wr.ba, b)
        /\ pc = "clean" /\ pc' = pc /\ wr' = [wr EXCEPT !.ba = b + 1]
        /\ UNCHANGED <<map, wc, cache, layout, fixed, ret, cur, history>>
    BY <1>7 DEF CleanStep, b
  <2>3. Tables' \subseteq Tables /\ b \notin Tables' /\ \A c \in Tables' : phys'[c] = phys[c]
    BY <1>1, <2>1, <2>2, OneChanged, NoTable
  <2>4. \A a \in PB : st'[a] = st[a] \/ (st'[a] = "bad" /\ a \in bad')
    BY <2>2 DEF Seen, Marked
  <2>5. b + 1 \in Nat
    BY <1>2, <2>1
  <2> QED
    BY <2>1, <2>2, <2>3, <2>4, <2>5
<1>8. CASE MgmtProgramFails
  <2>1. /\ pc = "prog" /\ phys' = phys /\ bad' = bad \cup {wr.ba} /\ st' = Marked(st, {wr.ba})
        /\ pc' = "erase" /\ wr' = [wr EXCEPT !.ba = wr.ba + 1]
        /\ UNCHANGED <<map, wc, cache, layout, fixed, ret, cur, history>>
    BY <1>8 DEF MgmtProgramFails, Fail
  <2>2. wr.ba \in PB /\ wr.ba < wr.limit /\ st[wr.ba] = "good" /\ Writing
        /\ Full(cache.st, bad, wr.from, wr.ba)
    BY <1>2, <1>3, <2>1, BlockNumbers DEF TInv, Control, Passed, Writing
  <2>3. \A c \in Tables : c < wr.from \/ wr.ba <= c
    BY <1>1, <1>2, <1>3, <2>1, Numeric DEF Passed
  <2>4. Tables' \subseteq Tables /\ wr.ba \notin Tables' /\ \A c \in Tables' : phys'[c] = phys[c]
    BY <2>1 DEF Tables
  <2>5. \A a \in PB : st'[a] = st[a] \/ (st'[a] = "bad" /\ a \in bad')
    BY <2>1 DEF Marked
  <2>6. wr.ba + 1 \in Nat /\ wr.ba <= wr.ba /\ wr.ba \in bad' /\ bad \subseteq bad'
    BY <1>2, <2>1
  <2> QED
    BY <2>1, <2>2, <2>3, <2>4, <2>5, <2>6
<1> QED
  BY <1>5, <1>6, <1>7, <1>8 DEF LoopStep

(* So the loops keep the invariant.                                        *)
LEMMA LoopKeeps ==
  ASSUME TInv, SInv, Here, Attached, LoopStep, Signed' = Signed
  PROVE  Here'
<1>1. TypeOK /\ sigBa # 0
  BY Attach
<1>2. PICK b \in PB, n \in Nat :
           /\ wr.ba <= b /\ b < wr.limit /\ st[b] = "good"
           /\ \A c \in Tables : c < wr.from \/ b <= c
           /\ Writing => Full(cache.st, bad, wr.from, b)
           /\ Tables' \subseteq Tables /\ b \notin Tables'
           /\ \A c \in Tables' : phys'[c] = phys[c]
           /\ bad \subseteq bad'
           /\ \A a \in PB : st'[a] = st[a] \/ (st'[a] = "bad" /\ a \in bad')
           /\ UNCHANGED <<map, wc, cache, layout, fixed, ret, cur, history>>
           /\ wr' = [wr EXCEPT !.ba = n]
           /\ \/ n = b /\ pc' = "prog" /\ pc = "erase" /\ st'[b] = "good" /\ b \notin bad'
              \/ n = b + 1 /\ pc' = "erase" /\ pc \in {"erase", "prog"} /\ b \in bad'
              \/ n = b + 1 /\ pc' = "clean" /\ pc = "clean"
  BY LoopEffect
<1>3. /\ wr.ba \in Nat /\ wr.limit \in Nat /\ wr.from \in Nat /\ b \in Nat
      /\ wr'.k = wr.k /\ wr'.ba = n /\ wr'.limit = wr.limit /\ wr'.from = wr.from
      /\ UNCHANGED <<mainBa, backupBa, mapBa, topBa, sigBa>>
      /\ \A c \in Tables : c \in Nat
  BY <1>1, <1>2, Numeric DEF layout, fixed
<1>4. /\ Writing' = Writing /\ (pc' = "clean") = (pc = "clean")
      /\ pc # "rebuild" /\ pc' # "rebuild"
      /\ pc \in {"erase", "prog", "clean"}
  BY <1>2 DEF Writing
<1>5. /\ \A k : Writes(k)' = Writes(k) /\ Cleans(k)' = Cleans(k)
      /\ MainLimit' = MainLimit
  BY <1>3, <1>4 DEF Writes, Cleans, MainLimit
<1>6. Memory /\ Known /\ (\A c \in Tables : Place(c)) /\ Regions /\ Underway /\ Passed
  BY <1>4 DEF Here, Layout
<1>7. NoMore(st', st) /\ \A a \in PB : st[a] = "good" => st'[a] = "good" \/ a \in bad'
  BY <1>2 DEF NoMore
<1>8. \A c \in Tables' : Older(c) => Older(c)'
  BY <1>3, <1>5 DEF Older
<1>9. mapBa' <= topBa
  BY <1>3, <1>6 DEF Memory
<1>10. Chip' /\ Memory' /\ Known'
  BY <1>1, <1>2, <1>3, <1>6, <1>7, <1>8, <1>9, MemoryKept DEF Here
<1>11. \A c \in Tables' : Place(c)'
  BY <1>2, <1>3, <1>4, <1>5, <1>6 DEF Place
<1>12. \A d, e : Full(cache.st, bad, d, e) => Full(cache'.st, bad', d, e)
  BY <1>2 DEF Full
<1>13. Regions'
  BY <1>3, <1>6, <1>12 DEF Regions
<1>14. Underway'
  BY <1>3, <1>5, <1>6, <1>12 DEF Underway, From, Front
<1>15. Passed'
  <2>1. MgmtStart <= wr'.from /\ wr'.from <= wr'.ba /\ wr'.limit <= topBa'
    BY <1>2, <1>3, <1>4, <1>6 DEF Passed, Writing
  <2>2. \A c \in Tables' : c < wr'.from \/ b < c
    BY <1>2, <1>3
  <2>3. pc' = "erase" \/ pc' = "clean" => \A c \in Tables' : c < wr'.from \/ wr'.ba <= c
    BY <1>2, <1>3, <2>2
  <2>4. pc' = "prog" => /\ \A c \in Tables' : c < wr'.from \/ wr'.ba < c
                        /\ st'[wr'.ba] = "good" /\ wr'.ba \notin bad'
    BY <1>2, <1>3, <2>2
  <2>5. ASSUME Writing', NEW c \in wr'.from .. wr'.ba - 1 PROVE c \in bad' \/ cache'.st[c] # "good"
    <3>1. CASE c \in wr.from .. b - 1
      BY <1>2, <1>4, <2>5, <3>1 DEF Full
    <3>2. CASE c = b
      BY <1>2, <1>3, <1>4, <2>5, <3>2 DEF Writing
    <3> QED
      BY <1>2, <1>3, <2>5, <3>1, <3>2
  <2> QED
    BY <2>1, <2>3, <2>4, <2>5 DEF Passed, Full
<1>16. InjectiveMap(map)'
  BY <1>2 DEF Here
<1> QED
  BY <1>4, <1>10, <1>11, <1>13, <1>14, <1>15, <1>16 DEF Here, Layout

-----------------------------------------------------------------------------
(* A table is written to block wr.ba while at most one other is on the     *)
(* chip, and no block below the lower of the two can take a table.         *)
LEMMA TableWritten ==
  ASSUME TInv, SInv, Here, Attached, Signed' = Signed, pc = "prog",
         phys' = [phys EXCEPT ![wr.ba] = Table(cache)], bad' = bad,
         UNCHANGED <<st, map, wc, cache, topBa, sigBa>>, mapBa' <= topBa,
         \A c, d \in Tables : c = d,
         \A c \in Tables : c < wr.ba => Full(cache.st, bad, MgmtStart, c),
         \A c \in Tables : wr.ba < c => Full(cache.st, bad, MgmtStart, wr.ba)
  PROVE  /\ Tables' \subseteq Tables \cup {wr.ba}
         /\ \A c \in Tables : c < wr.from \/ wr.ba < c
         /\ wr.ba < wr.limit /\ wr.limit <= topBa /\ MgmtStart <= wr.from /\ wr.from <= wr.ba
         /\ InjectiveMap(map)' /\ Chip' /\ Memory' /\ Known'
<1> DEFINE b == wr.ba
<1>1. TypeOK /\ sigBa # 0 /\ Signed = {sigBa}
  BY Attach
<1>2. Memory /\ Known /\ Passed /\ Chip /\ InjectiveMap(map)
  BY DEF Here, Layout
<1>3. /\ b \in Nat /\ wr.from \in Nat /\ wr.limit \in PB /\ topBa \in Nat /\ sigBa \in Nat
      /\ MgmtStart \in Nat /\ PB \subseteq Nat /\ b < wr.limit
      /\ \A c \in Tables : c \in PB
  BY <1>1, Numeric DEF TInv, Control
<1>4. /\ b \in PB /\ MgmtStart <= wr.from /\ wr.from <= b /\ MgmtStart <= b
      /\ wr.limit <= topBa /\ b < topBa /\ topBa < sigBa /\ st[b] = "good"
      /\ \A c \in Tables : c < wr.from \/ b < c
  <2>1. /\ MgmtStart <= wr.from /\ wr.from <= b /\ wr.limit <= topBa /\ topBa < sigBa
        /\ st[b] = "good" /\ \A c \in Tables : c < wr.from \/ b < c
    BY <1>2 DEF Passed, Memory, Writing
  <2> QED
    BY <1>3, <2>1, BlockNumbers
<1>5. \A c \in PB : phys'[c] = IF c = b THEN Table(cache) ELSE phys[c]
  BY <1>1, <1>4 DEF TypeOK
<1>6. \A c \in Tables' : \/ c = b /\ Img(c)' = cache
                         \/ c \in Tables /\ c # b /\ Img(c)' = Img(c)
  BY <1>5 DEF Tables, Img, Table
<1>7. \A c \in Tables : MgmtStart <= c /\ ~ Older(c)
  BY <1>2, <1>3, <1>4 DEF Chip, TablesPlaced, Older
<1>8. \A c \in Tables : /\ st[c] = "good" /\ c < topBa /\ Img(c).wc <= wc
                        /\ Img(c).wc = wc => Img(c) = cache
                        /\ NoMore(cache.st, Img(c).st)
                        /\ Sound(Img(c).map, topBa, sigBa)
  BY <1>2, <1>7 DEF Known
<1>9. cache.wc = wc /\ NoMore(cache.st, cache.st) /\ Sound(cache.map, topBa, sigBa) /\ wc \in Nat
      /\ NoMore(st, cache.st)
  BY <1>1, <1>2 DEF Memory, NoMore, TypeOK
<1>10. \A c \in Tables : Img(c) \in Image /\ Img(c).wc \in Nat
  BY <1>1, ImagesTyped
<1>11. \A c \in Tables' : /\ st[c] = "good" /\ c \in PB /\ MgmtStart <= c /\ c < topBa
                          /\ Img(c)'.wc <= wc
                          /\ Img(c)'.wc = wc => Img(c)' = cache
                          /\ NoMore(cache.st, Img(c)'.st)
                          /\ Sound(Img(c)'.map, topBa, sigBa)
                          /\ Img(c)' \in Image /\ Img(c)'.wc \in Nat
  BY <1>1, <1>3, <1>4, <1>6, <1>7, <1>8, <1>9, <1>10, ImagesTyped
<1> HIDE DEF b
<1>12. TablesPlaced'
  <2>1. ASSUME NEW c \in Tables' PROVE MgmtStart <= c /\ c + 1 < sigBa
    <3>1. c \in PB /\ MgmtStart <= c /\ c < topBa
      BY <1>11
    <3>2. c \in Nat
      BY <1>3, <3>1
    <3> QED
      BY <1>3, <1>4, <3>1, <3>2
  <2> QED
    BY <1>1, <2>1 DEF TablesPlaced
<1>13. TablesSound'
  <2>1. ASSUME NEW c \in Tables', NEW d \in Tables' PROVE Sound(Img(c)'.map, d + 1, sigBa)
    <3>1. d \in PB /\ d < topBa /\ Img(c)' \in Image /\ Sound(Img(c)'.map, topBa, sigBa)
      BY <1>11
    <3>2. d \in Nat
      BY <1>3, <3>1
    <3>3. d + 1 <= topBa /\ d + 1 \in Int
      BY <1>3, <3>1, <3>2
    <3>4. Img(c)'.map \in Mappings
      BY <1>1, <3>1, ImagesTyped
    <3> QED
      BY <1>3, <3>1, <3>3, <3>4, SoundBelow
  <2> QED
    BY <1>1, <2>1 DEF TablesSound
<1>14. TablesGood'
  BY <1>9, <1>11 DEF TablesGood, NoMore
<1>15. TablesOrdered'
  <2>1. ASSUME NEW c \in Tables', NEW d \in Tables'
        PROVE  /\ Img(c)'.wc = Img(d)'.wc => Img(c)' = Img(d)'
               /\ Img(c)'.wc <= Img(d)'.wc => NoMore(Img(d)'.st, Img(c)'.st)
    <3>1. CASE c # b /\ d # b
      BY <1>2, <1>6, <3>1 DEF Chip, TablesOrdered
    <3>2. CASE c = b
      BY <1>6, <1>9, <1>11, <3>2
    <3>3. CASE d = b
      BY <1>6, <1>9, <1>11, <3>3
    <3> QED
      BY <3>1, <3>2, <3>3
  <2> QED
    BY <2>1 DEF TablesOrdered
<1>16. TablesLow'
  <2>1. ASSUME NEW c \in Tables', NEW d \in Tables', c < d, NEW a \in MgmtStart .. c - 1
        PROVE  a \in bad \/ Img(c)'.st[a] # "good" \/ Img(d)'.st[a] # "good"
    <3>1. CASE c # b /\ d # b
      BY <1>2, <1>6, <2>1, <3>1 DEF Chip, TablesLow
    <3>2. CASE c = b /\ d # b
      <4>1. d \in Tables /\ b < d /\ Img(c)' = cache
        BY <1>4, <1>6, <2>1, <3>2
      <4>2. Full(cache.st, bad, MgmtStart, b)
        BY <4>1 DEF b
      <4> QED
        BY <2>1, <3>2, <4>1, <4>2 DEF Full
    <3>3. CASE c # b /\ d = b
      <4>1. c \in Tables /\ c < b /\ Img(d)' = cache
        BY <1>4, <1>6, <2>1, <3>3
      <4>2. Full(cache.st, bad, MgmtStart, c)
        BY <4>1 DEF b
      <4> QED
        BY <2>1, <3>3, <4>1, <4>2 DEF Full
    <3>4. CASE c = b /\ d = b
      BY <1>3, <1>4, <2>1, <3>4
    <3> QED
      BY <3>1, <3>2, <3>3, <3>4
  <2> QED
    BY <2>1 DEF TablesLow
<1>17. TablesTwo'
  BY <1>6 DEF TablesTwo
<1>18. Chip'
  BY <1>12, <1>13, <1>14, <1>15, <1>16, <1>17 DEF Chip
<1>19. Memory'
  BY <1>2 DEF Memory
<1>20. Known'
  BY <1>11 DEF Known
<1>21. InjectiveMap(map)' /\ Tables' \subseteq Tables \cup {b}
  BY <1>2, <1>6
<1> QED
  BY <1>3, <1>4, <1>18, <1>19, <1>20, <1>21 DEF b

(* Between table writes and range erases little is to be shown;            *)
LEMMA Rests ==
  ASSUME pc' \notin {"erase", "prog", "clean", "rebuild"},
         \A c \in Tables' : c \in {mainBa', backupBa'}
  PROVE  (\A c \in Tables' : Place(c)') /\ Underway' /\ Passed'
  BY DEF Place, Underway, Passed, Writes, Cleans, Writing

(* and one that begins has passed nothing.                                 *)
LEMMA Begins ==
  ASSUME pc' \in {"erase", "clean"}, wr'.from = wr'.ba, wr'.ba \in Nat,
         MgmtStart <= wr'.from, wr'.limit <= topBa', \A c \in Tables' : c \in Nat
  PROVE  Passed'
  BY BlockNumbers DEF Passed, Full, Writing

(* A range that cannot take a table, and one behind it.                    *)
LEMMA FullJoin ==
  ASSUME NEW s, NEW B, NEW a \in Nat, NEW b \in Nat, NEW c \in Nat,
         Full(s, B, a, b), Full(s, B, b, c)
  PROVE  Full(s, B, a, c)
<1>1. ASSUME NEW d \in a .. c - 1 PROVE d \in B \/ s[d] # "good"
  <2>1. d \in a .. b - 1 \/ d \in b .. c - 1
    OBVIOUS
  <2> QED
    BY <2>1 DEF Full
<1> QED
  BY <1>1 DEF Full

(* Where the invariant is used, for a driver that writes a table.          *)
LEMMA WritingFacts ==
  ASSUME TInv, SInv, Here, pc = "prog"
  PROVE  /\ TypeOK /\ Attached /\ Writing /\ sigBa # 0
         /\ mainBa \in Nat /\ backupBa \in Nat /\ mapBa \in Nat /\ topBa \in Nat
         /\ wr.ba \in Nat /\ wr.limit \in Nat /\ wr.from \in Nat
         /\ MgmtStart \in Nat /\ 0 < MgmtStart
         /\ MgmtStart <= wr.from /\ wr.from <= wr.ba /\ wr.ba < wr.limit /\ wr.limit <= topBa
         /\ \A c \in Tables : c \in Nat /\ MgmtStart <= c /\ (c < wr.from \/ wr.ba < c)
         /\ \A c \in Tables : Place(c)
         /\ Underway /\ Regions /\ mapBa <= topBa
         /\ Full(cache.st, bad, wr.from, wr.ba)
<1>1. TypeOK /\ Attached /\ Writing /\ sigBa # 0
  BY DEF TInv, Attached, Writing, SInv, WritesBelow
<1>2. Passed /\ Memory /\ Chip /\ (\A c \in Tables : Place(c)) /\ Underway /\ Regions
  BY DEF Here, Layout
<1> QED
  BY <1>1, <1>2, Numeric DEF Passed, Memory, Chip, TablesPlaced, TInv, Control

(* The first table of a chip, or of a rebuild.                             *)
LEMMA RebuildWrittenKeeps ==
  ASSUME TInv, SInv, Here, RebuildWritten, Signed' = Signed
  PROVE  Here'
<1> DEFINE next == TryReserve(st, wr.ba + 1, topBa - 1)
<1>1. /\ pc = "prog" /\ wr.k = "rebuild" /\ phys' = [phys EXCEPT ![wr.ba] = Table(cache)]
      /\ mainBa' = wr.ba /\ mapBa' = wr.ba + 1
      /\ bad' = bad /\ UNCHANGED <<st, map, wc, cache, backupBa, topBa, sigBa>>
      /\ \/ pc' \in {"create", "update"}
         \/ next # None /\ pc' = "erase" /\ wr' = Job("second", next, topBa)
  BY DEF RebuildWritten, Written, Go, Start, Returned, fixed
<1>2. next # None => next \in wr.ba + 1 .. topBa - 2
  <2>1. wr.ba + 1 \in Nat /\ topBa \in Nat /\ topBa - 1 \in Int
    BY <1>1, WritingFacts
  <2>2. next # None => next \in wr.ba + 1 .. (topBa - 1) - 1
    BY <2>1, TryReserveIn
  <2> QED
    BY <2>1, <2>2
<1> HIDE DEF next
<1>3. Tables = {} /\ mainBa = 0 /\ backupBa = 0 /\ wr.from = MgmtStart /\ wr.limit = topBa
  BY <1>1, WritingFacts DEF Place, Underway, Writes, From
<1>4. mapBa' <= topBa
  BY <1>1, <1>3, WritingFacts
<1>5. Tables' \subseteq {wr.ba} /\ InjectiveMap(map)' /\ Chip' /\ Memory' /\ Known'
  BY <1>1, <1>3, <1>4, WritingFacts, TableWritten
<1>6. Regions'
  BY <1>1, <1>3, WritingFacts DEF Regions
<1>7. CASE pc' \in {"create", "update"}
  BY <1>1, <1>5, <1>6, <1>7, Rests DEF Here, Layout
<1>8. CASE next # None /\ pc' = "erase" /\ wr' = Job("second", next, topBa)
  <2>1. /\ wr'.k = "second" /\ wr'.ba = next /\ wr'.from = next /\ wr'.limit = topBa
        /\ next \in Nat /\ wr.ba < next
    BY <1>1, <1>2, <1>8, WritingFacts DEF Job
  <2>2. Passed'
    BY <1>1, <1>5, <1>8, <2>1, WritingFacts, Begins
  <2>3. \A c \in Tables' : Place(c)'
    BY <1>1, <1>5, <1>8, <2>1 DEF Place, Writes, Cleans, Writing
  <2>4. Full(cache.st, bad, MgmtStart, wr.ba)
    BY <1>1, <1>3, WritingFacts
  <2>5. Underway'
    BY <1>1, <1>3, <1>8, <2>1, <2>4, WritingFacts
    DEF Underway, Front, From, Writes, Cleans, Writing
  <2> QED
    BY <1>5, <1>6, <2>2, <2>3, <2>5 DEF Here, Layout
<1> QED
  BY <1>1, <1>7, <1>8

(* Its copy.                                                               *)
LEMMA SecondWrittenKeeps ==
  ASSUME TInv, SInv, Here, SecondWritten, Signed' = Signed
  PROVE  Here'
<1>1. /\ pc = "prog" /\ wr.k = "second" /\ phys' = [phys EXCEPT ![wr.ba] = Table(cache)]
      /\ backupBa' = wr.ba /\ mapBa' = wr.ba + 1
      /\ bad' = bad /\ UNCHANGED <<st, map, wc, cache, mainBa, topBa, sigBa>>
      /\ pc' = "clean" /\ wr' = Job("second", mainBa + 1, wr.ba)
  BY DEF SecondWritten, Written, Clean, fixed, tables
<1>2. /\ mainBa # 0 /\ mapBa <= wr.from /\ Full(cache.st, bad, MgmtStart, mainBa)
      /\ MgmtStart <= mainBa /\ mainBa < mapBa /\ mapBa' <= topBa
      /\ \A c \in Tables : c = mainBa
  BY <1>1, WritingFacts DEF Place, Underway, Writes, Front, Regions
<1>3. \A c \in Tables : c < wr.ba
  BY <1>2, WritingFacts, <1>1
<1>4. Tables' \subseteq Tables \cup {wr.ba} /\ InjectiveMap(map)' /\ Chip' /\ Memory' /\ Known'
  BY <1>1, <1>2, <1>3, WritingFacts, TableWritten
<1>5. Regions'
  BY <1>1, <1>2, WritingFacts DEF Regions
<1>6. wr'.k = "second" /\ wr'.ba = mainBa + 1 /\ wr'.from = mainBa + 1 /\ wr'.limit = wr.ba
  BY <1>1 DEF Job
<1>7. Passed'
  BY <1>1, <1>2, <1>4, <1>6, WritingFacts, Begins
<1>8. \A c \in Tables' : Place(c)'
  BY <1>1, <1>2, <1>4, <1>6 DEF Place, Writes, Cleans, Writing
<1>9. Underway'
  BY <1>1, <1>2, <1>6, WritingFacts DEF Underway, From, Writes, Cleans, Writing
<1> QED
  BY <1>4, <1>5, <1>7, <1>8, <1>9 DEF Here, Layout

(* The backup table, written in an update or as the older of two.          *)
LEMMA BackupWrittenKeeps ==
  ASSUME TInv, SInv, Here, BackupWritten \/ SyncBackupWritten, Signed' = Signed
  PROVE  Here'
<1>1. /\ pc = "prog" /\ wr.k \in {"backup", "syncbackup"}
      /\ phys' = [phys EXCEPT ![wr.ba] = Table(cache)]
      /\ backupBa' = wr.ba /\ mapBa' = wr.ba + 1
      /\ bad' = bad /\ UNCHANGED <<st, map, wc, cache, mainBa, topBa, sigBa>>
      /\ pc' \in {"main", "idle"}
  BY DEF BackupWritten, SyncBackupWritten, Written, Go, LoadDone, Rest, fixed
<1>2. /\ backupBa # 0 /\ wr.from = backupBa /\ mainBa # 0 /\ mainBa < backupBa
      /\ MgmtStart <= mainBa /\ Full(cache.st, bad, MgmtStart, mainBa)
      /\ \A c \in Tables : c \in {mainBa, backupBa}
  BY <1>1, WritingFacts DEF Place, Underway, Writes, Cleans, From, Regions
<1>3. mapBa' <= topBa /\ mainBa < wr.ba /\ \A c \in Tables : c = mainBa
  BY <1>1, <1>2, WritingFacts
<1>4. Tables' \subseteq Tables \cup {wr.ba} /\ InjectiveMap(map)' /\ Chip' /\ Memory' /\ Known'
  BY <1>1, <1>2, <1>3, WritingFacts, TableWritten
<1>5. Regions'
  BY <1>1, <1>2, <1>3, WritingFacts DEF Regions
<1> QED
  BY <1>1, <1>3, <1>4, <1>5, Rests DEF Here, Layout

(* The main table, in front of the backup table if there is one.           *)
LEMMA MainWrittenKeeps ==
  ASSUME TInv, SInv, Here, MainWritten \/ SyncMainWritten, Signed' = Signed
  PROVE  Here'
<1>1. /\ pc = "prog" /\ wr.k \in {"main", "syncmain"}
      /\ phys' = [phys EXCEPT ![wr.ba] = Table(cache)]
      /\ mainBa' = wr.ba
      /\ mapBa' = IF backupBa = 0 THEN wr.ba + 1 ELSE mapBa
      /\ bad' = bad /\ UNCHANGED <<st, map, wc, cache, backupBa, topBa, sigBa>>
      /\ pc' \in {"update", "idle"}
  <2>1. CASE MainWritten
    BY <2>1 DEF MainWritten, Written, Go, fixed
  <2>2. CASE SyncMainWritten
    <3>1. wr.k = "syncmain" /\ pc = "prog" /\ mapBa' = mapBa
      BY <2>2 DEF SyncMainWritten, Written
    <3>2. backupBa # 0
      BY <3>1, WritingFacts DEF Underway, Writes
    <3> QED
      BY <2>2, <3>1, <3>2 DEF SyncMainWritten, Written, LoadDone, Rest, fixed
  <2> QED
    BY <2>1, <2>2
<1>2. /\ wr.from = mainBa /\ wr.limit = MainLimit
      /\ \A c \in Tables : c \in {mainBa, backupBa}
  BY <1>1, WritingFacts DEF Place, Underway, Writes, Cleans, From, MainLimit
<1>3. \A c \in Tables : backupBa # 0 /\ c = backupBa
  BY <1>1, <1>2, WritingFacts
<1>4. /\ wr.ba < MainLimit /\ MainLimit <= topBa /\ mainBa <= wr.ba /\ MgmtStart <= mainBa
      /\ backupBa # 0 => wr.ba < backupBa /\ backupBa < mapBa
  BY <1>1, <1>2, WritingFacts DEF MainLimit, Regions
<1>5. backupBa # 0 => Full(cache.st, bad, MgmtStart, wr.ba)
  <2> SUFFICES ASSUME backupBa # 0 PROVE Full(cache.st, bad, MgmtStart, wr.ba)
    OBVIOUS
  <2>1. Full(cache.st, bad, MgmtStart, mainBa)
    BY <1>1, WritingFacts DEF Regions
  <2>2. Full(cache.st, bad, mainBa, wr.ba)
    BY <1>1, <1>2, WritingFacts
  <2> QED
    BY <1>1, <2>1, <2>2, WritingFacts, FullJoin
<1>6. mapBa' <= topBa
  BY <1>1, <1>4, WritingFacts DEF MainLimit
<1>7. \A c \in Tables : wr.ba < c
  BY <1>3, <1>4
<1>8. \A c \in Tables : ~ (c < wr.ba)
  BY <1>1, <1>7, WritingFacts
<1>9. Tables' \subseteq Tables \cup {wr.ba} /\ InjectiveMap(map)' /\ Chip' /\ Memory' /\ Known'
  BY <1>1, <1>3, <1>5, <1>6, <1>8, WritingFacts, TableWritten
<1>10. Regions'
  BY <1>1, <1>4, <1>5, WritingFacts DEF Regions
<1> QED
  BY <1>1, <1>3, <1>9, <1>10, Rests DEF Here, Layout

(* The temporary copy, which leaves the spare pool at once.                *)
LEMMA TmpWrittenKeeps ==
  ASSUME TInv, SInv, Here, TmpWritten, Signed' = Signed
  PROVE  Here'
<1>1. /\ pc = "prog" /\ wr.k = "tmp" /\ phys' = [phys EXCEPT ![wr.ba] = Table(cache)]
      /\ mapBa' = wr.ba + 1
      /\ bad' = bad /\ UNCHANGED <<st, map, wc, cache, mainBa, backupBa, topBa, sigBa>>
      /\ pc' = "erase" /\ wr' = Job("rescue", MgmtStart, wr.ba)
  BY DEF TmpWritten, Written, Start, fixed, tables
<1>2. /\ backupBa # 0 /\ mapBa <= wr.from /\ Full(cache.st, bad, MgmtStart, backupBa)
      /\ mainBa # 0 /\ MgmtStart <= mainBa /\ mainBa < backupBa /\ backupBa < mapBa
      /\ Full(cache.st, bad, MgmtStart, mainBa)
      /\ \A c \in Tables : c = backupBa
  BY <1>1, WritingFacts DEF Place, Underway, Writes, Front, Regions
<1>3. mapBa' <= topBa /\ backupBa < wr.ba /\ mainBa < wr.ba /\ \A c \in Tables : c < wr.ba
  BY <1>1, <1>2, WritingFacts
<1>4. \A c \in Tables : ~ (wr.ba < c)
  BY <1>1, <1>3, WritingFacts
<1>5. Tables' \subseteq Tables \cup {wr.ba} /\ InjectiveMap(map)' /\ Chip' /\ Memory' /\ Known'
  BY <1>1, <1>2, <1>3, <1>4, WritingFacts, TableWritten
<1>6. Regions'
  BY <1>1, <1>2, <1>3, WritingFacts DEF Regions
<1>7. wr'.k = "rescue" /\ wr'.ba = MgmtStart /\ wr'.from = MgmtStart /\ wr'.limit = wr.ba
  BY <1>1 DEF Job
<1>8. Passed'
  BY <1>1, <1>3, <1>5, <1>7, WritingFacts, Begins
<1>9. \A c \in Tables' : Place(c)'
  BY <1>1, <1>2, <1>5, <1>7 DEF Place, Writes, Cleans, Writing
<1>10. wr.ba = mapBa' - 1
  BY <1>1, WritingFacts
<1>11. Underway'
  BY <1>1, <1>2, <1>3, <1>7, <1>10 DEF Underway, From, Front, Writes, Cleans, Writing
<1> QED
  BY <1>5, <1>6, <1>8, <1>9, <1>11 DEF Here, Layout

(* The main table, in a block below the temporary copy.                    *)
LEMMA RescueWrittenKeeps ==
  ASSUME TInv, SInv, Here, RescueWritten, Signed' = Signed
  PROVE  Here'
<1>1. /\ pc = "prog" /\ wr.k = "rescue" /\ phys' = [phys EXCEPT ![wr.ba] = Table(cache)]
      /\ mainBa' = wr.ba /\ backupBa' = wr.limit
      /\ bad' = bad /\ UNCHANGED <<st, map, wc, cache, mapBa, topBa, sigBa>>
      /\ pc' = "update"
  BY DEF RescueWritten, Written, Go, fixed
<1>2. /\ backupBa # 0 /\ wr.from = MgmtStart /\ wr.limit = mapBa - 1
      /\ Full(cache.st, bad, MgmtStart, backupBa)
      /\ \A c \in Tables : c \in {backupBa, wr.limit}
  BY <1>1, WritingFacts DEF Place, Underway, Writes, From, Front
<1>3. backupBa <= wr.ba
  <2>1. st[wr.ba] = "good" /\ wr.ba \notin bad /\ NoMore(st, cache.st) /\ wr.ba \in PB
    BY <1>1, WritingFacts, Numeric, BlockNumbers DEF Here, Layout, Passed, Memory
  <2>2. wr.ba \notin MgmtStart .. backupBa - 1
    BY <1>2, <2>1 DEF NoMore, Full
  <2> QED
    BY <1>1, <2>2, WritingFacts
<1>4. /\ \A c \in Tables : c = wr.limit /\ ~ (c < wr.ba)
      /\ Full(cache.st, bad, MgmtStart, wr.ba)
      /\ wr.ba < wr.limit /\ wr.limit < mapBa /\ wr.limit # 0 /\ wr.ba # 0 /\ mapBa <= topBa
  BY <1>1, <1>2, <1>3, WritingFacts
<1>5. Tables' \subseteq Tables \cup {wr.ba} /\ InjectiveMap(map)' /\ Chip' /\ Memory' /\ Known'
  BY <1>1, <1>4, WritingFacts, TableWritten
<1>6. Regions'
  BY <1>1, <1>4, WritingFacts DEF Regions
<1> QED
  BY <1>1, <1>4, <1>5, <1>6, Rests DEF Here, Layout

(* The copy in front of the only table.                                    *)
LEMMA FrontWrittenKeeps ==
  ASSUME TInv, SInv, Here, FrontWritten, Signed' = Signed
  PROVE  Here'
<1>1. /\ pc = "prog" /\ wr.k = "front" /\ phys' = [phys EXCEPT ![wr.ba] = Table(cache)]
      /\ mainBa' = wr.ba /\ backupBa' = mainBa
      /\ bad' = bad /\ UNCHANGED <<st, map, wc, cache, mapBa, topBa, sigBa>>
      /\ pc' = "clean" /\ wr' = Job("front", wr.ba + 1, mainBa)
  BY DEF FrontWritten, Written, Clean, fixed
<1>2. /\ mainBa # 0 /\ wr.from = MgmtStart /\ wr.limit = mainBa /\ mainBa < mapBa
      /\ \A c \in Tables : c = mainBa
  BY <1>1, WritingFacts DEF Place, Underway, Writes, From, Regions
<1>3. /\ \A c \in Tables : ~ (c < wr.ba)
      /\ Full(cache.st, bad, MgmtStart, wr.ba)
      /\ wr.ba < mainBa /\ wr.ba # 0 /\ mainBa < topBa /\ mapBa <= topBa
  BY <1>1, <1>2, WritingFacts
<1>4. Tables' \subseteq Tables \cup {wr.ba} /\ InjectiveMap(map)' /\ Chip' /\ Memory' /\ Known'
  BY <1>1, <1>2, <1>3, WritingFacts, TableWritten
<1>5. Regions'
  BY <1>1, <1>2, <1>3, WritingFacts DEF Regions
<1>6. wr'.k = "front" /\ wr'.ba = wr.ba + 1 /\ wr'.from = wr.ba + 1 /\ wr'.limit = mainBa
  BY <1>1 DEF Job
<1>7. Passed'
  BY <1>1, <1>3, <1>4, <1>6, WritingFacts, Begins
<1>8. \A c \in Tables' : Place(c)'
  BY <1>1, <1>2, <1>4, <1>6 DEF Place, Writes, Cleans, Writing
<1>9. Underway'
  BY <1>1, <1>2, <1>6 DEF Underway, From, Writes, Cleans, Writing
<1> QED
  BY <1>4, <1>5, <1>7, <1>8, <1>9 DEF Here, Layout

(* The copy behind the only table.                                         *)
LEMMA BehindWrittenKeeps ==
  ASSUME TInv, SInv, Here, BehindWritten, Signed' = Signed
  PROVE  Here'
<1>1. /\ pc = "prog" /\ wr.k = "behind" /\ phys' = [phys EXCEPT ![wr.ba] = Table(cache)]
      /\ bad' = bad /\ UNCHANGED <<st, map, wc, cache, mainBa, backupBa, mapBa, topBa, sigBa>>
      /\ pc' = "clean" /\ wr' = Job("behind", mapBa, wr.ba)
  BY DEF BehindWritten, Written, Clean, fixed, tables, layout
<1>2. /\ mainBa # 0 /\ backupBa = 0 /\ mapBa <= wr.from /\ wr.limit = topBa
      /\ Full(cache.st, bad, MgmtStart, mainBa)
      /\ MgmtStart <= mainBa /\ mainBa < mapBa /\ mapBa <= topBa
      /\ \A c \in Tables : c = mainBa
  BY <1>1, WritingFacts DEF Place, Underway, Writes, Front, Regions
<1>3. (\A c \in Tables : c < wr.ba) /\ mapBa <= wr.ba /\ wr.ba < topBa /\ MgmtStart <= mapBa
  BY <1>1, <1>2, WritingFacts
<1>4. Tables' \subseteq Tables \cup {wr.ba} /\ InjectiveMap(map)' /\ Chip' /\ Memory' /\ Known'
  BY <1>1, <1>2, <1>3, WritingFacts, TableWritten
<1>5. Regions'
  BY <1>1, <1>2, WritingFacts DEF Regions
<1>6. wr'.k = "behind" /\ wr'.ba = mapBa /\ wr'.from = mapBa /\ wr'.limit = wr.ba
  BY <1>1 DEF Job
<1>7. Passed'
  BY <1>1, <1>3, <1>4, <1>6, WritingFacts, Begins
<1>8. \A c \in Tables' : Place(c)'
  BY <1>1, <1>2, <1>4, <1>6 DEF Place, Writes, Cleans, Writing
<1>9. Underway'
  BY <1>1, <1>2, <1>3, <1>6 DEF Underway, From, Front, Writes, Cleans, Writing
<1> QED
  BY <1>4, <1>5, <1>7, <1>8, <1>9 DEF Here, Layout

-----------------------------------------------------------------------------
(* When a table write gives up, or a range erase is through, its range     *)
(* holds no table and cannot take one.                                     *)
LEMMA EndedFacts ==
  ASSUME TInv, SInv, Here, pc \in {"erase", "clean"}, Usable(wr.ba, wr.limit) = {},
         UNCHANGED flash
  PROVE  /\ TypeOK /\ Attached /\ sigBa # 0
         /\ mainBa \in Nat /\ backupBa \in Nat /\ mapBa \in Nat /\ topBa \in Nat
         /\ wr.ba \in Nat /\ wr.limit \in Nat /\ wr.from \in Nat
         /\ MgmtStart \in Nat /\ 0 < MgmtStart
         /\ MgmtStart <= wr.from /\ wr.limit <= topBa
         /\ Tables' = Tables /\ bad' = bad /\ (\A c \in Tables' : phys'[c] = phys[c])
         /\ \A c \in Tables : /\ c \in Nat /\ MgmtStart <= c /\ c < topBa
                              /\ c < wr.from \/ wr.limit <= c
         /\ \A c \in Tables : Place(c)
         /\ Underway /\ Regions /\ mapBa <= topBa
         /\ Writing => Full(cache.st, bad, wr.from, wr.limit)
<1>1. TypeOK /\ Attached /\ sigBa # 0
  BY DEF TInv, Attached, SInv, WritesBelow
<1>2. /\ Passed /\ Memory /\ Known /\ Chip /\ (\A c \in Tables : Place(c)) /\ Underway
      /\ Regions
  BY DEF Here, Layout
<1>3. /\ mainBa \in Nat /\ backupBa \in Nat /\ mapBa \in Nat /\ topBa \in Nat
      /\ wr.ba \in Nat /\ wr.limit \in Nat /\ wr.from \in Nat
      /\ MgmtStart \in Nat /\ 0 < MgmtStart /\ \A c \in Tables : c \in Nat
  BY <1>1, Numeric
<1>4. MgmtStart <= wr.from /\ wr.limit <= topBa /\ mapBa <= topBa
  BY <1>2 DEF Passed, Memory, Writing
<1>5. /\ \A c \in Tables : c < wr.from \/ wr.limit <= c
      /\ Writing => Full(cache.st, bad, wr.from, wr.limit)
  BY <1>1, <1>2, <1>3, PassedOver
<1>6. \A c \in Tables : MgmtStart <= c /\ c < topBa
  BY <1>2 DEF Chip, TablesPlaced, Known
<1>7. Tables' = Tables /\ bad' = bad /\ \A c \in Tables' : phys'[c] = phys[c]
  BY SameTables DEF flash
<1> QED
  BY <1>1, <1>2, <1>3, <1>4, <1>5, <1>6, <1>7

(* What is then in memory agrees with the chip as before.                  *)
LEMMA Ended ==
  ASSUME TInv, SInv, Here, pc \in {"erase", "clean"}, Usable(wr.ba, wr.limit) = {},
         UNCHANGED flash, Signed' = Signed, st' = Seen(wr.ba, wr.limit),
         UNCHANGED <<map, wc, cache, topBa, sigBa>>, mapBa' <= topBa
  PROVE  InjectiveMap(map)' /\ Chip' /\ Memory' /\ Known'
<1>1. /\ TypeOK /\ sigBa # 0 /\ Tables' = Tables /\ bad' = bad
      /\ \A c \in Tables' : phys'[c] = phys[c]
  BY EndedFacts
<1>2. \A c \in Tables : ~ Older(c)
  <2> SUFFICES ASSUME NEW c \in Tables, Writes("syncmain") \/ Writes("syncbackup"), c = wr.from
               PROVE  FALSE
    BY DEF Older
  <2>1. wr.limit <= c /\ c \in Nat /\ c < topBa
    BY EndedFacts
  <2>2. wr.from = mainBa /\ wr.limit = backupBa /\ mainBa < backupBa
    BY <2>1, EndedFacts DEF Underway, From, Regions
  <2> QED
    BY <2>1, <2>2, EndedFacts
<1>3. NoMore(st', st) /\ \A a \in PB : st[a] = "good" => st'[a] = "good" \/ a \in bad'
  BY <1>1 DEF NoMore, Seen, Marked
<1>4. Chip /\ Memory /\ Known /\ InjectiveMap(map)
  BY DEF Here, Layout
<1> QED
  BY <1>1, <1>2, <1>3, <1>4, MemoryKept

(* A rebuild that finds no block leaves the device without a table.        *)
LEMMA RebuildFailedKeeps ==
  ASSUME TInv, SInv, Here, RebuildFailed, Signed' = Signed
  PROVE  Here'
<1>1. /\ pc = "erase" /\ wr.k = "rebuild" /\ Usable(wr.ba, wr.limit) = {}
      /\ st' = Seen(wr.ba, wr.limit) /\ UNCHANGED flash
      /\ UNCHANGED <<map, wc, cache, mainBa, backupBa, mapBa, topBa, sigBa>>
      /\ pc' = IF ret \in {"create", "created"} THEN "gone" ELSE ret
  BY DEF RebuildFailed, GaveUp, Go, layout
<1>2. pc' \in {"gone", "idle", "nospare", "erase_lb", "unmap"}
  BY <1>1 DEF TInv, TypeOK, Rets
<1>3. Tables = {} /\ mainBa = 0 /\ backupBa = 0 /\ mapBa = topBa
  BY <1>1, EndedFacts DEF Place, Underway, Writes, Writing
<1>4. InjectiveMap(map)' /\ Chip' /\ Memory' /\ Known'
  BY <1>1, EndedFacts, Ended
<1>5. (\A c \in Tables' : Place(c)') /\ Underway' /\ Passed'
  BY <1>1, <1>2, <1>3, EndedFacts, Rests
<1>6. Regions'
  BY <1>1, <1>3 DEF Regions
<1> QED
  BY <1>4, <1>5, <1>6 DEF Here, Layout

(* The ends of a write or an erase that leave the layout alone.            *)
LEMMA LayoutStays ==
  ASSUME TInv, SInv, Here,
         SecondFailed \/ SecondCleaned \/ FrontCleaned, Signed' = Signed
  PROVE  Here'
<1>1. /\ \/ pc = "erase" /\ wr.k = "second"
         \/ pc = "clean" /\ wr.k \in {"second", "front"}
      /\ Usable(wr.ba, wr.limit) = {}
      /\ st' = Seen(wr.ba, wr.limit) /\ UNCHANGED flash
      /\ UNCHANGED <<map, wc, cache, mainBa, backupBa, mapBa, topBa, sigBa>>
      /\ pc' \in {"create", "update", "idle"}
  BY DEF SecondFailed, SecondCleaned, FrontCleaned, GaveUp, Cleaned, Go, LoadDone, Rest,
         Returned, layout, fixed
<1>2. \A c \in Tables : c \in {mainBa, backupBa}
  BY <1>1, EndedFacts DEF Place, Writes, Cleans, Writing
<1>3. InjectiveMap(map)' /\ Chip' /\ Memory' /\ Known'
  BY <1>1, EndedFacts, Ended
<1>4. (\A c \in Tables' : Place(c)') /\ Underway' /\ Passed'
  BY <1>1, <1>2, EndedFacts, Rests
<1>5. Regions'
  BY <1>1, EndedFacts DEF Regions
<1> QED
  BY <1>3, <1>4, <1>5 DEF Here, Layout

(* Without a block behind it, the backup table is given up.                *)
LEMMA BackupFailedKeeps ==
  ASSUME TInv, SInv, Here, BackupFailed \/ SyncBackupFailed, Signed' = Signed
  PROVE  Here'
<1>1. /\ pc = "erase" /\ wr.k \in {"backup", "syncbackup"} /\ Usable(wr.ba, wr.limit) = {}
      /\ st' = Seen(wr.ba, wr.limit) /\ UNCHANGED flash
      /\ mapBa' = backupBa /\ backupBa' = 0
      /\ UNCHANGED <<map, wc, cache, mainBa, topBa, sigBa>>
      /\ pc' \in {"main", "idle"}
  BY DEF BackupFailed, SyncBackupFailed, GaveUp, Go, LoadDone, Rest, fixed
<1>2. /\ backupBa # 0 /\ wr.from = backupBa /\ wr.limit = topBa
      /\ mainBa # 0 /\ MgmtStart <= mainBa /\ mainBa < backupBa /\ backupBa < mapBa
      /\ \A c \in Tables : c \in {mainBa, backupBa}
  BY <1>1, EndedFacts DEF Place, Underway, Writes, Cleans, Writing, From, Regions
<1>3. \A c \in Tables : c = mainBa
  BY <1>1, <1>2, EndedFacts
<1>4. mapBa' <= topBa
  BY <1>1, <1>2, EndedFacts
<1>5. InjectiveMap(map)' /\ Chip' /\ Memory' /\ Known'
  BY <1>1, <1>4, EndedFacts, Ended
<1>6. (\A c \in Tables' : Place(c)') /\ Underway' /\ Passed'
  BY <1>1, <1>3, EndedFacts, Rests
<1>7. Regions'
  BY <1>1, <1>2 DEF Regions
<1> QED
  BY <1>5, <1>6, <1>7 DEF Here, Layout

(* The temporary copy becomes the only table when the main table cannot be *)
(* written again.                                                          *)
LEMMA RescueFailedKeeps ==
  ASSUME TInv, SInv, Here, RescueFailed, Signed' = Signed
  PROVE  Here'
<1>1. /\ pc = "erase" /\ wr.k = "rescue" /\ Usable(wr.ba, wr.limit) = {}
      /\ st' = Seen(wr.ba, wr.limit) /\ UNCHANGED flash
      /\ mainBa' = wr.limit /\ backupBa' = 0
      /\ UNCHANGED <<map, wc, cache, mapBa, topBa, sigBa>>
      /\ pc' = "update"
  BY DEF RescueFailed, GaveUp, Go, fixed
<1>2. /\ backupBa # 0 /\ wr.from = MgmtStart /\ wr.limit = mapBa - 1 /\ backupBa < wr.limit
      /\ MgmtStart <= mainBa /\ mainBa < backupBa
      /\ \A c \in Tables : c \in {backupBa, wr.limit}
  BY <1>1, EndedFacts DEF Place, Underway, Writes, Writing, From, Regions
<1>3. \A c \in Tables : c = wr.limit
  BY <1>1, <1>2, EndedFacts
<1>4. InjectiveMap(map)' /\ Chip' /\ Memory' /\ Known'
  BY <1>1, EndedFacts, Ended
<1>5. (\A c \in Tables' : Place(c)') /\ Underway' /\ Passed'
  BY <1>1, <1>3, EndedFacts, Rests
<1>6. Regions'
  BY <1>1, <1>2, EndedFacts DEF Regions
<1> QED
  BY <1>4, <1>5, <1>6 DEF Here, Layout

(* The copy behind the only table is the backup table once the blocks      *)
(* between them are erased.                                                *)
LEMMA BehindCleanedKeeps ==
  ASSUME TInv, SInv, Here, BehindCleaned, Signed' = Signed
  PROVE  Here'
<1>1. /\ pc = "clean" /\ wr.k = "behind" /\ Usable(wr.ba, wr.limit) = {}
      /\ st' = Seen(wr.ba, wr.limit) /\ UNCHANGED flash
      /\ backupBa' = wr.limit /\ mapBa' = wr.limit + 1
      /\ UNCHANGED <<map, wc, cache, mainBa, topBa, sigBa>>
      /\ pc' = "idle"
  BY DEF BehindCleaned, Cleaned, LoadDone, Rest
<1>2. /\ mainBa # 0 /\ mapBa <= wr.limit /\ wr.limit < topBa
      /\ Full(cache.st, bad, MgmtStart, mainBa) /\ MgmtStart <= mainBa /\ mainBa < mapBa
      /\ \A c \in Tables : c \in {mainBa, wr.limit}
  BY <1>1, EndedFacts DEF Place, Underway, Cleans, Front, Regions
<1>3. mapBa' <= topBa
  BY <1>1, <1>2, EndedFacts
<1>4. InjectiveMap(map)' /\ Chip' /\ Memory' /\ Known'
  BY <1>1, <1>3, EndedFacts, Ended
<1>5. (\A c \in Tables' : Place(c)') /\ Underway' /\ Passed'
  BY <1>1, <1>2, EndedFacts, Rests
<1>6. Regions'
  BY <1>1, <1>2, EndedFacts DEF Regions
<1> QED
  BY <1>4, <1>5, <1>6 DEF Here, Layout

(* Giving up on the main table, or on the older table that is first.       *)
LEMMA MainGaveUp ==
  ASSUME TInv, SInv, Here, GaveUp("main") \/ GaveUp("syncmain")
  PROVE  /\ wr.from = mainBa /\ MgmtStart <= mainBa
         /\ \A c \in Tables : backupBa # 0 /\ c = backupBa
         /\ backupBa # 0 => /\ mainBa # 0 /\ mainBa < backupBa /\ backupBa < mapBa
                            /\ Full(cache.st, bad, MgmtStart, backupBa)
<1>1. /\ pc = "erase" /\ wr.k \in {"main", "syncmain"} /\ Usable(wr.ba, wr.limit) = {}
      /\ UNCHANGED flash
  BY DEF GaveUp
<1>2. /\ wr.from = mainBa /\ wr.limit = MainLimit
      /\ \A c \in Tables : c \in {mainBa, backupBa}
  BY <1>1, EndedFacts DEF Place, Underway, Writes, Cleans, Writing, From, MainLimit
<1>3. backupBa # 0 => /\ mainBa # 0 /\ mainBa < backupBa /\ backupBa < mapBa
                      /\ Full(cache.st, bad, MgmtStart, mainBa)
  BY <1>1, EndedFacts DEF Regions
<1>4. \A c \in Tables : backupBa # 0 /\ c = backupBa
  BY <1>1, <1>2, <1>3, EndedFacts DEF MainLimit
<1>5. backupBa # 0 => Full(cache.st, bad, MgmtStart, backupBa)
  <2> SUFFICES ASSUME backupBa # 0 PROVE Full(cache.st, bad, MgmtStart, backupBa)
    OBVIOUS
  <2>1. Full(cache.st, bad, mainBa, backupBa)
    BY <1>1, <1>2, EndedFacts DEF MainLimit, Writing
  <2> QED
    BY <1>1, <1>3, <2>1, EndedFacts, FullJoin
<1> QED
  BY <1>1, <1>2, <1>3, <1>4, <1>5, EndedFacts

(* The main table cannot be written: all is built anew, or a temporary copy *)
(* is written behind the backup table, or that one is all that is left.    *)
LEMMA MainFailedKeeps ==
  ASSUME TInv, SInv, Here, MainFailed, Signed' = Signed
  PROVE  Here'
<1> DEFINE spare == TryReserve(st', mapBa, topBa - 1)
<1>1. /\ pc = "erase" /\ wr.k = "main" /\ Usable(wr.ba, wr.limit) = {}
      /\ st' = Seen(wr.ba, wr.limit) /\ UNCHANGED flash /\ GaveUp("main")
      /\ UNCHANGED <<map, wc, cache, mapBa, topBa, sigBa>>
      /\ \/ backupBa = 0 /\ pc' = "rebuild" /\ UNCHANGED <<mainBa, backupBa>>
         \/ backupBa # 0 /\ pc' = "update" /\ mainBa' = backupBa /\ backupBa' = 0
         \/ /\ backupBa # 0 /\ pc' = "erase" /\ wr' = Job("tmp", spare, topBa)
            /\ spare # None /\ UNCHANGED <<mainBa, backupBa>>
  BY DEF MainFailed, GaveUp, Go, Start, KeepBackupOnly, layout, fixed
<1>2. spare # None => spare \in mapBa .. topBa - 2
  <2>1. mapBa \in Nat /\ topBa \in Nat /\ topBa - 1 \in Int
    BY <1>1, EndedFacts
  <2>2. spare # None => spare \in mapBa .. (topBa - 1) - 1
    BY <2>1, TryReserveIn
  <2> QED
    BY <2>1, <2>2
<1> HIDE DEF spare
<1>3. /\ MgmtStart <= mainBa
      /\ \A c \in Tables : backupBa # 0 /\ c = backupBa
      /\ backupBa # 0 => /\ mainBa # 0 /\ mainBa < backupBa /\ backupBa < mapBa
                         /\ Full(cache.st, bad, MgmtStart, backupBa)
  BY <1>1, MainGaveUp
<1>4. InjectiveMap(map)' /\ Chip' /\ Memory' /\ Known'
  BY <1>1, EndedFacts, Ended
<1>5. CASE backupBa = 0 /\ pc' = "rebuild" /\ UNCHANGED <<mainBa, backupBa>>
  <2>1. Tables' = {}
    BY <1>1, <1>3, <1>5, EndedFacts
  <2>2. Underway' /\ Passed'
    BY <1>5 DEF Underway, Passed, Writes, Cleans, Writing
  <2> QED
    BY <1>4, <1>5, <2>1, <2>2 DEF Here, Layout
<1>6. CASE backupBa # 0 /\ pc' = "update" /\ mainBa' = backupBa /\ backupBa' = 0
  <2>1. (\A c \in Tables' : Place(c)') /\ Underway' /\ Passed'
    BY <1>1, <1>3, <1>6, EndedFacts, Rests
  <2>2. Regions'
    BY <1>1, <1>3, <1>6, EndedFacts DEF Regions
  <2> QED
    BY <1>4, <2>1, <2>2 DEF Here, Layout
<1>7. CASE /\ backupBa # 0 /\ pc' = "erase" /\ wr' = Job("tmp", spare, topBa)
           /\ spare # None /\ UNCHANGED <<mainBa, backupBa>>
  <2>1. /\ wr'.k = "tmp" /\ wr'.ba = spare /\ wr'.from = spare /\ wr'.limit = topBa
        /\ spare \in Nat /\ mapBa <= spare /\ MgmtStart <= spare
    BY <1>1, <1>2, <1>3, <1>7, EndedFacts DEF Job
  <2>2. Passed'
    BY <1>1, <1>7, <2>1, EndedFacts, Begins
  <2>3. \A c \in Tables' : Place(c)'
    BY <1>1, <1>3, <1>7, <2>1, EndedFacts DEF Place, Writes, Cleans, Writing
  <2>4. bad' = bad
    BY <1>1, EndedFacts
  <2>5. Underway'
    BY <1>1, <1>3, <1>7, <2>1, <2>4 DEF Underway, Front, From, Writes, Cleans, Writing
  <2>6. Regions'
    BY <1>1, <1>7, <2>4, EndedFacts DEF Regions
  <2> QED
    BY <1>4, <2>2, <2>3, <2>5, <2>6 DEF Here, Layout
<1> QED
  BY <1>1, <1>5, <1>6, <1>7

(* The older table is first and cannot be written: the other is left, and  *)
(* copied in front.                                                        *)
LEMMA SyncMainFailedKeeps ==
  ASSUME TInv, SInv, Here, SyncMainFailed, Signed' = Signed
  PROVE  Here'
<1>1. /\ pc = "erase" /\ wr.k = "syncmain" /\ Usable(wr.ba, wr.limit) = {}
      /\ st' = Seen(wr.ba, wr.limit) /\ UNCHANGED flash /\ GaveUp("syncmain")
      /\ UNCHANGED <<map, wc, cache, mapBa, topBa, sigBa>>
      /\ pc' = "erase" /\ wr' = Job("front", MgmtStart, backupBa)
      /\ mainBa' = backupBa /\ backupBa' = 0
  BY DEF SyncMainFailed, GaveUp, Start, KeepBackupOnly, fixed
<1>2. backupBa # 0
  BY <1>1, EndedFacts DEF Underway, Writes, Writing
<1>3. /\ MgmtStart <= mainBa /\ mainBa < backupBa /\ backupBa < mapBa
      /\ \A c \in Tables : c = backupBa
  BY <1>1, <1>2, MainGaveUp
<1>4. InjectiveMap(map)' /\ Chip' /\ Memory' /\ Known'
  BY <1>1, EndedFacts, Ended
<1>5. wr'.k = "front" /\ wr'.ba = MgmtStart /\ wr'.from = MgmtStart /\ wr'.limit = backupBa
  BY <1>1 DEF Job
<1>6. Passed'
  BY <1>1, <1>3, <1>5, EndedFacts, Begins
<1>7. \A c \in Tables' : Place(c)'
  BY <1>1, <1>3, <1>5, EndedFacts DEF Place, Writes, Cleans, Writing
<1>8. Underway'
  BY <1>1, <1>2, <1>5 DEF Underway, From, Writes, Cleans, Writing
<1>9. Regions'
  BY <1>1, <1>3, EndedFacts DEF Regions
<1> QED
  BY <1>4, <1>6, <1>7, <1>8, <1>9 DEF Here, Layout

(* The temporary copy fails and is tried one block lower, or given up.     *)
LEMMA TmpFailedKeeps ==
  ASSUME TInv, SInv, Here, TmpFailed, Signed' = Signed
  PROVE  Here'
<1>1. /\ pc = "erase" /\ wr.k = "tmp" /\ Usable(wr.ba, wr.limit) = {}
      /\ st' = Seen(wr.ba, wr.limit) /\ UNCHANGED flash
      /\ UNCHANGED <<map, wc, cache, mapBa, topBa, sigBa>>
      /\ \/ /\ mapBa <= wr.from - 1 /\ pc' = "erase" /\ wr' = Job("tmp", wr.from - 1, topBa)
            /\ UNCHANGED <<mainBa, backupBa>>
         \/ pc' = "update" /\ mainBa' = backupBa /\ backupBa' = 0
  <2>1. mapBa \in Nat /\ wr.from \in Nat
    BY EndedFacts DEF TmpFailed, GaveUp
  <2> QED
    BY <2>1 DEF TmpFailed, GaveUp, Go, Start, KeepBackupOnly, OneLower, layout, fixed
<1>2. /\ backupBa # 0 /\ Full(cache.st, bad, MgmtStart, backupBa)
      /\ MgmtStart <= mainBa /\ mainBa < backupBa /\ backupBa < mapBa
      /\ \A c \in Tables : c = backupBa
  BY <1>1, EndedFacts DEF Place, Underway, Writes, Writing, Front, Regions
<1>3. InjectiveMap(map)' /\ Chip' /\ Memory' /\ Known'
  BY <1>1, EndedFacts, Ended
<1>4. CASE pc' = "update" /\ mainBa' = backupBa /\ backupBa' = 0
  <2>1. (\A c \in Tables' : Place(c)') /\ Underway' /\ Passed'
    BY <1>1, <1>2, <1>4, EndedFacts, Rests
  <2>2. Regions'
    BY <1>1, <1>2, <1>4, EndedFacts DEF Regions
  <2> QED
    BY <1>3, <2>1, <2>2 DEF Here, Layout
<1>5. CASE /\ mapBa <= wr.from - 1 /\ pc' = "erase" /\ wr' = Job("tmp", wr.from - 1, topBa)
           /\ UNCHANGED <<mainBa, backupBa>>
  <2>1. /\ wr'.k = "tmp" /\ wr'.ba = wr.from - 1 /\ wr'.from = wr.from - 1
        /\ wr'.limit = topBa
        /\ wr.from - 1 \in Nat /\ mapBa <= wr'.from /\ MgmtStart <= wr'.from
    BY <1>1, <1>2, <1>5, EndedFacts DEF Job
  <2>2. Passed'
    BY <1>1, <1>5, <2>1, EndedFacts, Begins
  <2>3. \A c \in Tables' : Place(c)'
    BY <1>1, <1>2, <1>5, <2>1, EndedFacts DEF Place, Writes, Cleans, Writing
  <2>4. bad' = bad
    BY <1>1, EndedFacts
  <2>5. Underway'
    BY <1>1, <1>2, <1>5, <2>1, <2>4 DEF Underway, Front, From, Writes, Cleans, Writing
  <2>6. Regions'
    BY <1>1, <1>5, <2>4, EndedFacts DEF Regions
  <2> QED
    BY <1>3, <2>2, <2>3, <2>5, <2>6 DEF Here, Layout
<1> QED
  BY <1>1, <1>4, <1>5

(* The second copy fails in front of the only table or behind it, and is   *)
(* tried behind it, or tried one block lower, or given up.                 *)
LEMMA CopyFailedKeeps ==
  ASSUME TInv, SInv, Here, FrontFailed \/ BehindFailed, Signed' = Signed
  PROVE  Here'
<1>1. /\ pc = "erase" /\ wr.k \in {"front", "behind"} /\ Usable(wr.ba, wr.limit) = {}
      /\ st' = Seen(wr.ba, wr.limit) /\ UNCHANGED flash
      /\ UNCHANGED <<map, wc, cache, mainBa, backupBa, mapBa, topBa, sigBa>>
  BY DEF FrontFailed, BehindFailed, GaveUp, layout
<1>2. \/ pc' = "idle"
      \/ \E n \in Nat : mapBa <= n /\ pc' = "erase" /\ wr' = Job("behind", n, topBa)
  <2> DEFINE spare == TryReserve(st', mapBa, topBa - 1)
  <2>1. mapBa \in Nat /\ wr.from \in Nat /\ topBa \in Nat /\ topBa - 1 \in Int
    BY <1>1, EndedFacts
  <2>2. spare # None => spare \in mapBa .. (topBa - 1) - 1
    BY <2>1, TryReserveIn
  <2> HIDE DEF spare
  <2>3. spare # None => spare \in Nat /\ mapBa <= spare
    BY <2>1, <2>2
  <2>4. CASE FrontFailed
    <3>1. \/ pc' = "idle"
          \/ spare # None /\ pc' = "erase" /\ wr' = Job("behind", spare, topBa)
      BY <2>4 DEF FrontFailed, LoadDone, Rest, Start, spare
    <3> QED
      BY <2>3, <3>1
  <2>5. CASE BehindFailed
    <3>1. \/ pc' = "idle"
          \/ mapBa <= wr.from - 1 /\ pc' = "erase" /\ wr' = Job("behind", wr.from - 1, topBa)
      BY <2>1, <2>5 DEF BehindFailed, LoadDone, Rest, Start, OneLower
    <3>2. mapBa <= wr.from - 1 => wr.from - 1 \in Nat
      BY <2>1
    <3> QED
      BY <3>1, <3>2
  <2> QED
    BY <2>4, <2>5
<1>3. /\ mainBa # 0 /\ backupBa = 0 /\ MgmtStart <= mainBa /\ mainBa < mapBa
      /\ \A c \in Tables : c = mainBa
  BY <1>1, EndedFacts DEF Place, Underway, Writes, Writing, Regions
<1>4. Full(cache.st, bad, MgmtStart, mainBa)
  BY <1>1, EndedFacts DEF Underway, Writes, Writing, From, Front
<1>5. InjectiveMap(map)' /\ Chip' /\ Memory' /\ Known'
  BY <1>1, EndedFacts, Ended
<1>6. Regions'
  BY <1>1, EndedFacts DEF Regions
<1>7. CASE pc' = "idle"
  <2>1. (\A c \in Tables' : Place(c)') /\ Underway' /\ Passed'
    BY <1>1, <1>3, <1>7, EndedFacts, Rests
  <2> QED
    BY <1>5, <1>6, <2>1 DEF Here, Layout
<1>8. ASSUME NEW n \in Nat, mapBa <= n, pc' = "erase", wr' = Job("behind", n, topBa)
      PROVE  Here'
  <2>1. wr'.k = "behind" /\ wr'.ba = n /\ wr'.from = n /\ wr'.limit = topBa /\ MgmtStart <= n
    BY <1>1, <1>3, <1>8, EndedFacts DEF Job
  <2>2. Passed'
    BY <1>1, <1>8, <2>1, EndedFacts, Begins
  <2>3. \A c \in Tables' : Place(c)'
    BY <1>1, <1>3, <1>8, <2>1, EndedFacts DEF Place, Writes, Cleans, Writing
  <2>4. bad' = bad
    BY <1>1, EndedFacts
  <2>5. Underway'
    BY <1>1, <1>3, <1>4, <1>8, <2>1, <2>4 DEF Underway, Front, From, Writes, Cleans, Writing
  <2> QED
    BY <1>5, <1>6, <2>2, <2>3, <2>5 DEF Here, Layout
<1> QED
  BY <1>2, <1>7, <1>8

-----------------------------------------------------------------------------
(* Where the invariant is used, for a driver between flash operations.     *)
LEMMA RestingFacts ==
  ASSUME TInv, SInv, Here,
         pc \in {"idle", "create", "nospare", "update", "main", "erase_lb", "unmap"}
  PROVE  /\ TypeOK /\ Attached /\ sigBa # 0
         /\ mainBa \in Nat /\ backupBa \in Nat /\ mapBa \in Nat /\ topBa \in Nat
         /\ sigBa \in Nat /\ MgmtStart \in Nat /\ 0 < MgmtStart
         /\ \A c \in Tables : /\ c \in Nat /\ c \in PB /\ MgmtStart <= c
                              /\ c \in {mainBa, backupBa} /\ c < mapBa /\ ~ Older(c)
         /\ Chip /\ Memory /\ Known /\ Regions /\ mapBa <= topBa /\ topBa < sigBa
<1>1. TypeOK /\ Attached /\ sigBa # 0
  BY DEF TInv, Attached, SInv, WritesBelow
<1>2. Memory /\ Known /\ Chip /\ (\A c \in Tables : Place(c)) /\ Regions
  BY DEF Here, Layout
<1>3. /\ mainBa \in Nat /\ backupBa \in Nat /\ mapBa \in Nat /\ topBa \in Nat
      /\ sigBa \in Nat /\ MgmtStart \in Nat /\ 0 < MgmtStart
      /\ \A c \in Tables : c \in Nat /\ c \in PB
  BY <1>1, Numeric
<1>4. \A c \in Tables : MgmtStart <= c
  BY <1>2 DEF Chip, TablesPlaced
<1>5. \A c \in Tables : c \in {mainBa, backupBa} /\ ~ Older(c)
  BY <1>2 DEF Place, Writes, Cleans, Writing, Older
<1>6. \A c \in Tables : c < mapBa
  BY <1>2, <1>3, <1>4, <1>5 DEF Regions
<1> QED
  BY <1>1, <1>2, <1>3, <1>4, <1>5, <1>6 DEF Memory

(* A step that touches neither the chip nor the states nor the tables.     *)
LEMMA Quiet ==
  ASSUME TInv, SInv, Here, Attached, ~ Writes("syncmain"), ~ Writes("syncbackup"),
         UNCHANGED flash, UNCHANGED <<st, map, wc, cache, topBa, sigBa>>, mapBa' <= topBa
  PROVE  /\ Tables' = Tables
         /\ InjectiveMap(map)' /\ Chip' /\ Memory' /\ Known'
<1>1. TypeOK /\ sigBa # 0
  BY Attach
<1>2. Tables' = Tables /\ bad' = bad /\ \A c \in Tables' : phys'[c] = phys[c]
  BY SameTables DEF flash
<1>3. Signed' = Signed
  BY SameFlash
<1>4. Chip /\ Memory /\ Known /\ InjectiveMap(map) /\ \A c \in Tables' : ~ Older(c)
  BY DEF Here, Layout, Older
<1>5. NoMore(st', st) /\ \A a \in PB : st[a] = "good" => st'[a] = "good" \/ a \in bad'
  BY DEF NoMore
<1> QED
  BY <1>1, <1>2, <1>3, <1>4, <1>5, MemoryKept

(* The start of nmbm_rebuild_info_table(): there is no table left.         *)
LEMMA RebuildStartKeeps ==
  ASSUME TInv, SInv, Here, RebuildStart
  PROVE  Here'
<1>1. /\ pc = "rebuild" /\ mainBa' = 0 /\ backupBa' = 0 /\ mapBa' = topBa
      /\ pc' = "erase" /\ wr' = Job("rebuild", MgmtStart, topBa)
      /\ UNCHANGED flash /\ UNCHANGED <<st, map, wc, cache, topBa, sigBa>>
  BY DEF RebuildStart, Start, tables, fixed
<1>2. TypeOK /\ Attached
  BY <1>1 DEF TInv, Attached
<1>3. topBa \in Nat /\ MgmtStart \in Nat
  BY <1>2, Numeric
<1>4. Tables = {}
  BY <1>1 DEF Here, Layout, Place
<1>5. Tables' = Tables /\ InjectiveMap(map)' /\ Chip' /\ Memory' /\ Known'
  BY <1>1, <1>2, <1>3, Quiet DEF Writes, Writing
<1>6. wr'.k = "rebuild" /\ wr'.ba = MgmtStart /\ wr'.from = MgmtStart /\ wr'.limit = topBa
  BY <1>1 DEF Job
<1>7. Passed'
  BY <1>1, <1>3, <1>4, <1>5, <1>6, Begins
<1>8. Regions' /\ Underway' /\ \A c \in Tables' : Place(c)'
  BY <1>1, <1>4, <1>5, <1>6, BlockNumbers DEF Regions, Underway, Writes, Cleans, Writing, From
<1> QED
  BY <1>5, <1>7, <1>8 DEF Here, Layout

(* A new table is prepared: it calls no more blocks good than any before,  *)
(* and has a higher write count.                                           *)
LEMMA UpdateBeginKeeps ==
  ASSUME TInv, SInv, Here, UpdateBegin
  PROVE  Here'
<1>1. /\ pc = "update" /\ wc' = wc + 1 /\ cache' = [wc |-> wc + 1, st |-> st, map |-> map]
      /\ \/ backupBa = 0 /\ pc' = "main"
         \/ backupBa # 0 /\ pc' = "erase" /\ wr' = Job("backup", backupBa, topBa)
      /\ UNCHANGED flash /\ UNCHANGED <<st, map, mainBa, backupBa, mapBa, topBa, sigBa>>
  BY DEF UpdateBegin, Go, Start, fixed, layout
<1>2. /\ TypeOK /\ Attached /\ sigBa # 0
      /\ mainBa \in Nat /\ backupBa \in Nat /\ mapBa \in Nat /\ topBa \in Nat
      /\ MgmtStart \in Nat /\ 0 < MgmtStart
      /\ \A c \in Tables : /\ c \in Nat /\ c \in PB /\ MgmtStart <= c
                           /\ c \in {mainBa, backupBa} /\ c < mapBa /\ ~ Older(c)
      /\ Chip /\ Memory /\ Known /\ Regions /\ mapBa <= topBa
  BY <1>1, RestingFacts
<1>3. Tables' = Tables /\ bad' = bad /\ \A c \in Tables' : phys'[c] = phys[c]
  BY <1>1, SameTables DEF flash
<1>4. Signed' = Signed
  BY <1>1, SameFlash
<1>5. InjectiveMap(map)' /\ Chip'
  BY <1>1, <1>2, <1>3, <1>4, ChipKept DEF Here, InjectiveMap
<1>6. wc' = wc + 1 /\ cache'.wc = wc + 1 /\ cache'.st = st /\ cache'.map = map
  BY <1>1
<1>7. Memory'
  BY <1>1, <1>2, <1>6, BlockNumbers DEF Memory, NoMore, Sound, InjectiveMap
<1>8. ASSUME NEW b \in Tables'
      PROVE  /\ b \in Tables /\ Img(b)' = Img(b) /\ st'[b] = "good" /\ b < topBa'
             /\ Img(b).wc <= wc /\ Img(b).wc \in Nat /\ wc \in Nat
             /\ NoMore(st, Img(b).st) /\ Sound(Img(b).map, topBa, sigBa)
  <2>1. b \in Tables /\ Img(b)' = Img(b)
    BY <1>3 DEF Img
  <2>2. st[b] = "good" /\ b < topBa /\ Img(b).wc <= wc /\ NoMore(cache.st, Img(b).st)
        /\ Sound(Img(b).map, topBa, sigBa)
    BY <1>2, <2>1 DEF Known
  <2>3. Img(b).wc \in Nat /\ wc \in Nat
    BY <1>2, <2>1, ImagesTyped DEF TypeOK
  <2>4. NoMore(st, Img(b).st)
    BY <1>2, <2>2, NoMoreThen DEF Memory
  <2> QED
    BY <1>1, <2>1, <2>2, <2>3, <2>4
<1>9. Known'
  <2> SUFFICES ASSUME NEW b \in Tables'
               PROVE  /\ st'[b] = "good" /\ b < topBa'
                      /\ Img(b)'.wc <= wc' /\ Img(b)'.wc # wc'
                      /\ NoMore(cache'.st, Img(b)'.st)
                      /\ Sound(Img(b)'.map, topBa', sigBa')
    BY BlockNumbers DEF Known, Sound, NoMore, InjectiveMap
  <2> QED
    BY <1>1, <1>6, <1>8
<1>10. Regions'
  <2>1. backupBa # 0 => Full(cache'.st, bad', MgmtStart, mainBa)
    <3> SUFFICES ASSUME backupBa # 0, NEW c \in MgmtStart .. mainBa - 1
                 PROVE  c \in bad \/ st[c] # "good"
      BY <1>3, <1>6 DEF Full
    <3>1. c \in bad \/ cache.st[c] # "good"
      BY <1>2 DEF Regions, Full
    <3>2. c \in PB
      <4>1. mainBa \in PB
        BY <1>2 DEF TypeOK
      <4> QED
        BY <1>2, <4>1, BlockNumbers
    <3> QED
      BY <1>2, <3>1, <3>2 DEF Memory, NoMore
  <2>2. MgmtStart' = MgmtStart
    BY BlockNumbers
  <2> QED
    BY <1>1, <1>2, <2>1, <2>2 DEF Regions
<1>11. CASE pc' = "main"
  <2>1. (\A c \in Tables' : Place(c)') /\ Underway' /\ Passed'
    BY <1>1, <1>2, <1>3, <1>11, Rests
  <2> QED
    BY <1>5, <1>7, <1>9, <1>10, <2>1 DEF Here, Layout
<1>12. CASE pc' = "erase" /\ backupBa # 0 /\ wr' = Job("backup", backupBa, topBa)
  <2>1. wr'.k = "backup" /\ wr'.ba = backupBa /\ wr'.from = backupBa /\ wr'.limit = topBa
    BY <1>12 DEF Job
  <2>2. MgmtStart <= backupBa
    BY <1>2, <1>12 DEF Regions
  <2>3. Passed'
    BY <1>1, <1>2, <1>3, <1>12, <2>1, <2>2, Begins
  <2>4. Underway' /\ \A c \in Tables' : Place(c)'
    BY <1>1, <1>2, <1>3, <1>12, <2>1 DEF Underway, Place, Writes, Cleans, Writing, From
  <2> QED
    BY <1>5, <1>7, <1>9, <1>10, <2>3, <2>4 DEF Here, Layout
<1> QED
  BY <1>1, <1>11, <1>12

(* The loop of updates is over, or a call has returned.                    *)
LEMMA UpdateDoneKeeps ==
  ASSUME TInv, SInv, Here, UpdateDone \/ CreateEnd \/ Detach
  PROVE  Here'
<1>1. /\ pc \in {"idle", "create", "update"}
      /\ pc' \in Rets \cup {"update"}
      /\ UNCHANGED flash /\ UNCHANGED <<st, map, wc, cache, mainBa, backupBa, mapBa, topBa, sigBa>>
  BY DEF UpdateDone, CreateEnd, Detach, Go, Rest, Update, tables, fixed, layout, TInv, TypeOK, Rets
<1>2. pc' \notin {"erase", "prog", "clean", "rebuild"}
  BY <1>1 DEF Rets
<1>3. /\ Attached /\ mapBa <= topBa /\ Regions
      /\ \A c \in Tables : c \in {mainBa, backupBa}
  BY <1>1, RestingFacts
<1>4. Tables' = Tables /\ InjectiveMap(map)' /\ Chip' /\ Memory' /\ Known'
  BY <1>1, <1>3, Quiet DEF Writes, Writing
<1>5. (\A c \in Tables' : Place(c)') /\ Underway' /\ Passed'
  BY <1>1, <1>2, <1>3, <1>4, Rests
<1>6. Regions'
  BY <1>1, <1>3, BlockNumbers DEF Regions, flash
<1> QED
  BY <1>4, <1>5, <1>6 DEF Here, Layout

(* The second half of an update: with no main table there is none at all.  *)
LEMMA MainBeginKeeps ==
  ASSUME TInv, SInv, Here, MainBegin
  PROVE  Here'
<1>1. /\ pc = "main"
      /\ \/ mainBa = 0 /\ pc' = "rebuild"
         \/ mainBa # 0 /\ pc' = "erase" /\ wr' = Job("main", mainBa, MainLimit)
      /\ UNCHANGED flash /\ UNCHANGED <<st, map, wc, cache, mainBa, backupBa, mapBa, topBa, sigBa>>
  BY DEF MainBegin, Go, Start, tables, fixed, layout
<1>2. /\ Attached /\ mapBa <= topBa /\ Regions
      /\ mainBa \in Nat /\ backupBa \in Nat /\ mapBa \in Nat /\ topBa \in Nat
      /\ MgmtStart \in Nat /\ 0 < MgmtStart
      /\ \A c \in Tables : c \in Nat /\ c \in {mainBa, backupBa} /\ MgmtStart <= c
  BY <1>1, RestingFacts
<1>3. Tables' = Tables /\ InjectiveMap(map)' /\ Chip' /\ Memory' /\ Known'
  BY <1>1, <1>2, Quiet DEF Writes, Writing
<1>4. CASE mainBa = 0 /\ pc' = "rebuild"
  <2>1. backupBa = 0
    BY <1>2, <1>4 DEF Regions
  <2>2. Tables' = {}
    BY <1>2, <1>3, <1>4, <2>1
  <2> QED
    BY <1>3, <1>4, <2>2 DEF Here, Layout, Underway, Passed, Writes, Cleans, Writing
<1>5. CASE mainBa # 0 /\ pc' = "erase" /\ wr' = Job("main", mainBa, MainLimit)
  <2>1. wr'.k = "main" /\ wr'.ba = mainBa /\ wr'.from = mainBa /\ wr'.limit = MainLimit
    BY <1>5 DEF Job
  <2>2. MgmtStart <= mainBa /\ MainLimit <= topBa /\ MainLimit' = MainLimit
    BY <1>1, <1>2, <1>5 DEF Regions, MainLimit
  <2>3. Passed'
    BY <1>1, <1>2, <1>3, <1>5, <2>1, <2>2, Begins
  <2>4. Underway' /\ \A c \in Tables' : Place(c)'
    BY <1>1, <1>2, <1>3, <1>5, <2>1, <2>2 DEF Underway, Place, Writes, Cleans, Writing, From
  <2>5. Regions'
    BY <1>1, <1>2, BlockNumbers DEF Regions, flash
  <2> QED
    BY <1>3, <2>3, <2>4, <2>5 DEF Here, Layout
<1> QED
  BY <1>1, <1>4, <1>5

-----------------------------------------------------------------------------
(* A step that moves logical blocks to the top of the spare pool, or off   *)
(* the chip, and changes nothing between MgmtStart and the pool's top.     *)
LEMMA Moved ==
  ASSUME TInv, SInv, Here, Signed' = Signed,
         pc \in {"idle", "create", "nospare", "erase_lb", "unmap"},
         pc' \notin {"erase", "prog", "clean", "rebuild"},
         UNCHANGED <<wc, cache, mainBa, backupBa, mapBa, sigBa>>,
         topBa' \in Nat, mapBa <= topBa', topBa' <= topBa,
         Tables' \subseteq Tables, \A c \in Tables' : phys'[c] = phys[c], bad \subseteq bad',
         NoMore(st', st),
         \A a \in PB : MgmtStart <= a /\ a <= topBa => st'[a] = st[a],
         Sound(map', topBa', sigBa)
  PROVE  Here'
<1>1. /\ TypeOK /\ Attached /\ sigBa # 0
      /\ mainBa \in Nat /\ backupBa \in Nat /\ mapBa \in Nat /\ topBa \in Nat
      /\ sigBa \in Nat /\ MgmtStart \in Nat /\ 0 < MgmtStart
      /\ \A c \in Tables : /\ c \in Nat /\ c \in PB /\ MgmtStart <= c
                           /\ c \in {mainBa, backupBa} /\ c < mapBa /\ ~ Older(c)
      /\ Chip /\ Memory /\ Known /\ Regions /\ mapBa <= topBa /\ topBa < sigBa
  BY RestingFacts
<1>2. Chip'
  BY <1>1, ChipKept
<1>3. InjectiveMap(map)'
  BY DEF Sound, InjectiveMap
<1>4. cache \in Image /\ cache.map \in Mappings /\ topBa \in Int /\ topBa' \in Int /\ sigBa \in Int
  BY <1>1, ImagesTyped
<1>5. Memory'
  <2>1. Sound(cache.map, topBa', sigBa)
    BY <1>1, <1>4, SoundBelow DEF Memory
  <2>2. NoMore(st', cache.st)
    BY <1>1, NoMoreThen DEF Memory
  <2>3. ASSUME NEW a \in MgmtStart' .. topBa', cache.st[a] = "good"
        PROVE  st'[a] = "good" \/ a \in bad'
    <3>1. a \in PB /\ a \in MgmtStart .. topBa /\ MgmtStart <= a /\ a <= topBa
      BY <1>1, <2>3, BlockNumbers DEF TypeOK
    <3>2. st[a] = "good" \/ a \in bad
      BY <1>1, <2>3, <3>1 DEF Memory
    <3> QED
      BY <3>1, <3>2
  <2>4. Sound(map, topBa, sigBa)' /\ Sound(cache.map, topBa, sigBa)'
    BY <2>1, BlockNumbers DEF Sound, InjectiveMap
  <2>5. wc' = cache'.wc /\ topBa' < sigBa'
    BY <1>1, <1>4 DEF Memory
  <2> QED
    BY <2>2, <2>3, <2>4, <2>5 DEF Memory, NoMore
<1>6. Known'
  <2> SUFFICES ASSUME NEW b \in Tables'
               PROVE  /\ st'[b] = "good" /\ b < topBa'
                      /\ Img(b)'.wc <= wc
                      /\ Img(b)'.wc = wc => Img(b)' = cache
                      /\ NoMore(cache.st, Img(b)'.st)
                      /\ Sound(Img(b)'.map, topBa', sigBa)
    BY BlockNumbers DEF Known, Sound, NoMore, InjectiveMap
  <2>1. b \in Tables /\ Img(b)' = Img(b)
    BY DEF Img
  <2>2. /\ st[b] = "good" /\ Img(b).wc <= wc /\ (Img(b).wc = wc => Img(b) = cache)
        /\ NoMore(cache.st, Img(b).st) /\ Sound(Img(b).map, topBa, sigBa)
    BY <1>1, <2>1 DEF Known
  <2>3. b \in PB /\ MgmtStart <= b /\ b < topBa' /\ b <= topBa
    BY <1>1, <2>1
  <2>4. st'[b] = "good"
    BY <2>2, <2>3
  <2>5. Sound(Img(b).map, topBa', sigBa)
    <3>1. Img(b).map \in Mappings
      BY <1>1, <2>1, ImagesTyped
    <3> QED
      BY <1>4, <2>2, <3>1, SoundBelow
  <2> QED
    BY <2>1, <2>2, <2>3, <2>4, <2>5
<1>7. Regions'
  <2>1. backupBa # 0 => Full(cache.st, bad', MgmtStart, mainBa)
    BY <1>1, StillFull DEF Regions
  <2> QED
    BY <1>1, <2>1, BlockNumbers DEF Regions, Full
<1>8. (\A c \in Tables' : Place(c)') /\ Underway' /\ Passed'
  BY <1>1, Rests
<1> QED
  BY <1>2, <1>3, <1>5, <1>6, <1>7, <1>8 DEF Here, Layout

(* A logical block that loses its block shares none.                       *)
LEMMA UnmapSound ==
  ASSUME NEW m \in Mappings, NEW b \in Int, NEW sig \in Int, Sound(m, b, sig), NEW lb \in LB
  PROVE  Sound([m EXCEPT ![lb] = None], b, sig)
<1> DEFINE n == [m EXCEPT ![lb] = None]
<1>1. \A l \in LB : n[l] = IF l = lb THEN None ELSE m[l]
  BY DEF Mappings
<1> HIDE DEF n
<1>2. None < MgmtStart
  BY BlockNumbers DEF None
<1>3. \A k, l \in LB : k # l /\ m[k] # None => m[k] # m[l]
  BY DEF Sound, InjectiveMap
<1>4. InjectiveMap(n)
  BY <1>1, <1>3 DEF InjectiveMap
<1> QED
  BY <1>1, <1>2, <1>4 DEF Sound, n

(* A logical block that takes the top of the pool shares it with none.     *)
LEMMA MapSound ==
  ASSUME NEW m \in Mappings, NEW b \in Nat, NEW sig \in Int, b < sig, Sound(m, b, sig),
         MgmtStart < b, NEW lb \in LB
  PROVE  Sound([m EXCEPT ![lb] = b], b - 1, sig)
<1> DEFINE n == [m EXCEPT ![lb] = b]
<1>1. \A l \in LB : n[l] = IF l = lb THEN b ELSE m[l]
  BY DEF Mappings
<1>2. \A l \in LB : m[l] \in Int
  BY BlockNumbers DEF Mappings, None
<1> HIDE DEF n
<1>3. \A l \in LB : m[l] < MgmtStart \/ (b < m[l] /\ m[l] < sig)
  BY DEF Sound
<1>4. \A l \in LB : m[l] # b
  BY <1>2, <1>3, BlockNumbers
<1>5. \A k, l \in LB : k # l /\ m[k] # None => m[k] # m[l]
  BY DEF Sound, InjectiveMap
<1>6. InjectiveMap(n)
  BY <1>1, <1>4, <1>5 DEF InjectiveMap
<1>7. \A l \in LB : n[l] < MgmtStart \/ (b - 1 < n[l] /\ n[l] < sig)
  BY <1>1, <1>2, <1>3
<1> QED
  BY <1>6, <1>7 DEF Sound, n

(* The block of a logical block is not in the management area.             *)
LEMMA BlockOutside ==
  ASSUME TInv, SInv, Here,
         pc \in {"idle", "create", "nospare", "erase_lb", "unmap"},
         NEW lb \in LB, map[lb] # None
  PROVE  /\ map[lb] \in PB /\ map[lb] \notin Tables
         /\ ~ (MgmtStart <= map[lb] /\ map[lb] <= topBa)
<1>1. /\ TypeOK /\ mapBa \in Nat /\ topBa \in Nat /\ MgmtStart \in Nat
      /\ \A c \in Tables : c \in Nat /\ MgmtStart <= c /\ c < mapBa
      /\ Memory /\ mapBa <= topBa
  BY RestingFacts
<1>2. map[lb] \in PB /\ map[lb] \in Nat
  BY <1>1, BlockNumbers DEF TypeOK, Mappings
<1>3. map[lb] < MgmtStart \/ topBa < map[lb]
  BY <1>1 DEF Memory, Sound
<1> QED
  BY <1>1, <1>2, <1>3

(* Changing it in the chip or in memory changes no table.                  *)
LEMMA OutsideChanged ==
  ASSUME TypeOK, NEW b \in PB, b \notin Tables,
         \/ phys' = phys
         \/ \E x : x.kind # "table" /\ phys' = [phys EXCEPT ![b] = x],
         bad \subseteq bad', bad' \subseteq bad \cup {b}
  PROVE  Tables' = Tables /\ \A c \in Tables' : phys'[c] = phys[c]
<1>1. CASE phys' = phys
  BY <1>1 DEF Tables
<1>2. ASSUME NEW x, x.kind # "table", phys' = [phys EXCEPT ![b] = x]
      PROVE  Tables' = Tables /\ \A c \in Tables' : phys'[c] = phys[c]
  <2>1. \A c \in PB : phys'[c] = IF c = b THEN x ELSE phys[c]
    BY <1>2 DEF TypeOK
  <2> QED
    BY <1>2, <2>1 DEF Tables
<1> QED
  BY <1>1, <1>2

(* The steps of an operation on a logical block that move none.            *)
LEMMA UnmovedKeeps ==
  ASSUME TInv, SInv, Here, Signed' = Signed, NEW lb \in LB,
         WriteOk(lb) \/ WriteFails(lb) \/ EraseBegin(lb) \/ ErasedBlock
  PROVE  Here'
<1> DEFINE b == IF pc = "idle" THEN map[lb] ELSE map[cur]
<1>1. /\ pc \in {"idle", "erase_lb"} /\ b # None
      /\ b = IF pc = "idle" THEN map[lb] ELSE map[cur]
      /\ \/ phys' = phys
         \/ \E x : x.kind # "table" /\ phys' = [phys EXCEPT ![b] = x]
      /\ bad' = bad /\ UNCHANGED <<map, wc, cache, mainBa, backupBa, mapBa, topBa, sigBa>>
      /\ st' = st \/ st' = [st EXCEPT ![b] = "remap"]
      /\ pc' \in {"idle", "update", "erase_lb"}
  <2>1. CASE WriteOk(lb)
    BY <2>1, NoTable DEF WriteOk, Writable, Accepts, tables, layout, fixed, control
  <2>2. CASE WriteFails(lb)
    BY <2>2, NoTable DEF WriteFails, Writable, Accepts, Spoil, SetState, Update, layout, fixed
  <2>3. CASE EraseBegin(lb)
    BY <2>3 DEF EraseBegin, Accepts, flash, tables, layout, fixed
  <2>4. CASE ErasedBlock
    BY <2>4, NoTable DEF ErasedBlock, Rest, tables, layout, fixed, TInv, Control
  <2> QED
    BY <2>1, <2>2, <2>3, <2>4
<1> HIDE DEF b
<1>2. /\ TypeOK /\ topBa \in Nat /\ mapBa <= topBa /\ Memory
  BY <1>1, RestingFacts
<1>3. b \in PB /\ b \notin Tables /\ ~ (MgmtStart <= b /\ b <= topBa)
  <2>1. cur \in LB
    BY <1>2 DEF TypeOK
  <2> QED
    BY <1>1, <2>1, BlockOutside
<1>4. Tables' = Tables /\ \A c \in Tables' : phys'[c] = phys[c]
  BY <1>1, <1>2, <1>3, OutsideChanged
<1>5. \A a \in PB : st'[a] = IF st' # st /\ a = b THEN "remap" ELSE st[a]
  BY <1>1, <1>2 DEF TypeOK
<1>6. NoMore(st', st) /\ \A a \in PB : MgmtStart <= a /\ a <= topBa => st'[a] = st[a]
  BY <1>3, <1>5 DEF NoMore
<1>7. Sound(map', topBa', sigBa)
  BY <1>1, <1>2 DEF Memory
<1> QED
  BY <1>1, <1>2, <1>4, <1>6, <1>7, Moved

(* The steps that leave a logical block without a block.                   *)
LEMMA UnmappedKeeps ==
  ASSUME TInv, SInv, Here, Signed' = Signed, NEW lb \in LB, MarkBad(lb) \/ EraseUnmaps
  PROVE  Here'
<1> DEFINE l == IF pc = "idle" THEN lb ELSE cur
           b == map[l]
<1>1. /\ pc \in {"idle", "unmap"} /\ l = (IF pc = "idle" THEN lb ELSE cur)
      /\ phys' = phys /\ map' = [map EXCEPT ![l] = None]
      /\ UNCHANGED <<wc, cache, mainBa, backupBa, mapBa, sigBa>>
      /\ pc' = "update"
  <2>1. CASE MarkBad(lb)
    BY <2>1 DEF MarkBad, Accepts, Update, layout, fixed
  <2>2. CASE EraseUnmaps
    BY <2>2 DEF EraseUnmaps, Update, flash, fixed
  <2> QED
    BY <2>1, <2>2
<1>2. /\ TypeOK /\ mapBa \in Nat /\ topBa \in Nat /\ sigBa \in Nat /\ mapBa <= topBa /\ Memory
  BY <1>1, RestingFacts
<1>3. l \in LB /\ st \in [PB -> BlockStates] /\ map \in Mappings
  BY <1>1, <1>2 DEF TypeOK
<1>4. /\ st' = [st EXCEPT ![b] = "bad"] \/ st' = st
      /\ bad \subseteq bad' /\ (st' = st \/ b # None)
      /\ bad' \subseteq bad \cup {b}
  <2>1. CASE MarkBad(lb)
    BY <2>1 DEF MarkBad, Accepts, SetState, Fail
  <2>2. CASE EraseUnmaps
    <3>1. st' = st \/ st' = [st EXCEPT ![b] = "bad"]
      BY <2>2 DEF EraseUnmaps, Left
    <3>2. bad' = bad
      BY <2>2 DEF EraseUnmaps, flash
    <3>3. b = None => st' = st
      <4>1. CASE b # None
        BY <4>1
      <4>2. CASE b = None
        <5>1. None \notin PB
          BY BlockNumbers DEF None
        <5>2. [st EXCEPT ![None] = "bad"] = st
          BY <1>3, <5>1
        <5> QED
          BY <3>1, <4>2, <5>2
      <4> QED
        BY <4>1, <4>2
    <3> QED
      BY <3>1, <3>2, <3>3
  <2> QED
    BY <2>1, <2>2
<1>5. topBa' \in {topBa, mapBa}
  BY DEF MarkBad, EraseUnmaps, layout
<1> HIDE DEF l
<1>6. b # None => b \in PB /\ b \notin Tables /\ ~ (MgmtStart <= b /\ b <= topBa)
  BY <1>1, <1>3, BlockOutside
<1> HIDE DEF b
<1>7. Tables' \subseteq Tables /\ \A c \in Tables' : phys'[c] = phys[c]
  BY <1>1, <1>4 DEF Tables
<1>8. \A a \in PB : st'[a] = IF st' # st /\ a = b THEN "bad" ELSE st[a]
  BY <1>3, <1>4
<1>9. NoMore(st', st) /\ \A a \in PB : MgmtStart <= a /\ a <= topBa => st'[a] = st[a]
  BY <1>4, <1>6, <1>8 DEF NoMore
<1>10. Sound(map', topBa', sigBa)
  <2>1. Sound(map', topBa, sigBa)
    <3>1. Sound([map EXCEPT ![l] = None], topBa, sigBa)
      BY <1>2, <1>3, UnmapSound DEF Memory
    <3> QED
      BY <1>1, <3>1
  <2>2. map' \in Mappings
    BY <1>1, <1>3 DEF Mappings
  <2> QED
    BY <1>2, <1>5, <2>1, <2>2, SoundBelow
<1> QED
  BY <1>1, <1>2, <1>4, <1>5, <1>7, <1>9, <1>10, Moved

(* The end of nmbm_map_block() when it finds no block.                     *)
LEMMA CreateNoSpareKeeps ==
  ASSUME TInv, SInv, Here, Signed' = Signed, CreateNoSpare
  PROVE  Here'
<1>1. /\ pc = "nospare" /\ topBa' = mapBa /\ pc' = "update" /\ phys' = phys /\ bad' = bad
      /\ UNCHANGED <<st, map, wc, cache, mainBa, backupBa, mapBa, sigBa>>
  BY DEF CreateNoSpare, Update, flash, tables, fixed
<1>2. /\ TypeOK /\ mapBa \in Nat /\ topBa \in Nat /\ sigBa \in Nat /\ mapBa <= topBa /\ Memory
  BY <1>1, RestingFacts
<1>3. Sound(map', topBa', sigBa)
  BY <1>1, <1>2, SoundBelow DEF Memory, TypeOK
<1>4. Tables' \subseteq Tables /\ \A c \in Tables' : phys'[c] = phys[c]
  BY <1>1 DEF Tables
<1>5. NoMore(st', st) /\ \A a \in PB : MgmtStart <= a /\ a <= topBa => st'[a] = st[a]
  BY <1>1 DEF NoMore
<1> QED
  BY <1>1, <1>2, <1>3, <1>4, <1>5, Moved

(* nmbm_map_block() takes the top of the pool, as long as it passes over   *)
(* no bad block.                                                           *)
LEMMA MappedTop ==
  ASSUME TInv, SInv, Here,
         pc \in {"idle", "create", "nospare", "erase_lb", "unmap"},
         NEW s, NextSpare(s) # None, mapBa # topBa, UNCHANGED sigBa,
         NEW lb \in LB, Mapped(lb, NextSpare(s)), ~ skipped'
  PROVE  /\ topBa' \in Nat /\ mapBa <= topBa' /\ topBa' <= topBa
         /\ Sound(map', topBa', sigBa)
<1>1. NextSpare(s) = topBa /\ map' = [map EXCEPT ![lb] = topBa] /\ topBa' = topBa - 1
  BY DEF Mapped
<1>2. /\ TypeOK /\ mainBa \in Nat /\ mapBa \in Nat /\ topBa \in Nat /\ sigBa \in Nat
      /\ mapBa <= topBa /\ topBa < sigBa /\ Memory /\ Regions
  BY RestingFacts
<1>3. MgmtStart < topBa
  <2>1. mapBa < topBa
    BY <1>2
  <2>2. mainBa # 0
    BY <1>2, <2>1 DEF Regions
  <2>3. MgmtStart <= mainBa /\ mainBa < mapBa
    BY <1>2, <2>2 DEF Regions
  <2> QED
    BY <1>2, <2>1, <2>3, BlockNumbers
<1>4. Sound([map EXCEPT ![lb] = topBa], topBa - 1, sigBa)
  BY <1>2, <1>3, MapSound DEF Memory, TypeOK
<1> QED
  BY <1>1, <1>2, <1>4

(* The loop of nmbm_create_info_table().                                   *)
LEMMA CreateRemapKeeps ==
  ASSUME TInv, SInv, Here, Signed' = Signed, CreateRemap, ~ skipped'
  PROVE  Here'
<1>1. /\ pc = "create" /\ dataCount < MgmtStart /\ mapBa # topBa /\ NextSpare(st) # None
      /\ Mapped(dataCount, NextSpare(st)) /\ phys' = phys /\ bad' = bad
      /\ UNCHANGED <<st, wc, cache, mainBa, backupBa, mapBa, sigBa>> /\ pc' = pc
  BY DEF CreateRemap, flash, control
<1>2. dataCount \in LB
  BY <1>1, BlockNumbers DEF TInv, TypeOK
<1>3. /\ topBa' \in Nat /\ mapBa <= topBa' /\ topBa' <= topBa
      /\ Sound(map', topBa', sigBa)
  BY <1>1, <1>2, MappedTop
<1>4. Tables' \subseteq Tables /\ \A c \in Tables' : phys'[c] = phys[c]
  BY <1>1 DEF Tables
<1>5. NoMore(st', st) /\ \A a \in PB : MgmtStart <= a /\ a <= topBa => st'[a] = st[a]
  BY <1>1 DEF NoMore
<1> QED
  BY <1>1, <1>3, <1>4, <1>5, Moved

(* A logical block whose erase fails, or that is on a bad block, moves to  *)
(* another block, or off the chip.                                         *)
LEMMA RemapKeeps ==
  ASSUME TInv, SInv, Here, Signed' = Signed, EraseFails \/ EraseLeavesBlock, ~ skipped'
  PROVE  Here'
<1> DEFINE b == map[cur]
<1>1. /\ pc = "erase_lb"
      /\ phys' = phys \/ phys' = [phys EXCEPT ![b] = Torn]
      /\ bad \subseteq bad' /\ bad' \subseteq bad \cup {b}
  BY DEF EraseFails, EraseLeavesBlock, Fail, Spoil, flash
<1>2. PICK s : /\ RemapBlock(s)
               /\ s = st \/ s = Marked(st, {b})
  BY DEF EraseFails, EraseLeavesBlock
<1>3. /\ TypeOK /\ mapBa \in Nat /\ topBa \in Nat /\ sigBa \in Nat /\ mapBa <= topBa /\ Memory
  BY <1>1, RestingFacts
<1>4. cur \in LB /\ map \in Mappings /\ st \in [PB -> BlockStates] /\ b # None
  BY <1>1, <1>3 DEF TInv, TypeOK, Control
<1>5. b \in PB /\ b \notin Tables /\ ~ (MgmtStart <= b /\ b <= topBa)
  BY <1>1, <1>4, BlockOutside
<1>6. /\ UNCHANGED <<wc, cache, mainBa, backupBa, mapBa, sigBa>>
      /\ st' = s \/ st' = Left(s, b)
      /\ pc' = "update"
  BY <1>2 DEF RemapBlock, UpdateFirst, Update, fixed
<1>7. /\ topBa' \in Nat /\ mapBa <= topBa' /\ topBa' <= topBa
      /\ Sound(map', topBa', sigBa)
  <2>1. CASE map' = map /\ topBa' = topBa
    BY <1>3, <2>1 DEF Memory
  <2>2. CASE map' = [map EXCEPT ![cur] = None] /\ topBa' = topBa
    <3>1. Sound([map EXCEPT ![cur] = None], topBa, sigBa)
      BY <1>3, <1>4, UnmapSound DEF Memory
    <3> QED
      BY <1>3, <2>2, <3>1
  <2>3. CASE mapBa # topBa /\ NextSpare(s) # None /\ Mapped(cur, NextSpare(s))
    BY <1>1, <1>4, <1>6, <2>3, MappedTop
  <2> QED
    BY <1>2, <2>1, <2>2, <2>3 DEF RemapBlock
<1> HIDE DEF b
<1>8. Tables' = Tables /\ \A c \in Tables' : phys'[c] = phys[c]
  BY <1>1, <1>3, <1>5, NoTable, OutsideChanged
<1>9. \A a \in PB : st'[a] = st[a] \/ (a = b /\ st'[a] # "good")
  <2>1. s \in [PB -> BlockStates] /\ \A a \in PB : s[a] = st[a] \/ (a = b /\ s[a] = "bad")
    BY <1>2, <1>4, MarkedType DEF Marked
  <2>2. CASE st' = s
    BY <2>1, <2>2
  <2>3. CASE st' = Left(s, b)
    BY <2>1, <2>3 DEF Left
  <2> QED
    BY <1>6, <2>2, <2>3
<1>10. NoMore(st', st) /\ \A a \in PB : MgmtStart <= a /\ a <= topBa => st'[a] = st[a]
  BY <1>5, <1>9 DEF NoMore
<1> QED
  BY <1>1, <1>6, <1>7, <1>8, <1>10, Moved

(* A call that is refused, and any other step that changes nothing.        *)
LEMMA NothingKeeps ==
  ASSUME Here, UNCHANGED vars
  PROVE  Here'
<1>1. UNCHANGED <<phys, bad, st, map, wc, cache, mainBa, backupBa, mapBa, topBa, sigBa, pc, wr>>
  BY DEF vars, flash, tables, layout, fixed, control
<1> QED
  BY <1>1 DEF Here, InjectiveMap, Chip, TablesPlaced, TablesSound, TablesGood, TablesOrdered,
       TablesLow, TablesTwo, Tables, Img, Signed, Layout, Memory, Known, Older, Regions, Place,
       Underway, Passed, Writes, Cleans, Writing, From, Front, Full, Sound, NoMore, MainLimit

-----------------------------------------------------------------------------
(* Every table on the chip passes nmbm_check_info_table().                 *)
LEMMA TablesPass ==
  ASSUME TypeOK, Chip, NEW sig \in Nat, Signed = {sig}, NEW b \in Tables, NEW s
  PROVE  CheckInfoTable(phys[b].img, s, b, sig)
<1>1. b \in Nat /\ Img(b) \in Image /\ Img(b) = phys[b].img
  BY Numeric, ImagesTyped DEF Img
<1>2. \A lb \in LB : Img(b).map[lb] \in Int
  BY <1>1, ImagesTyped
<1>3. \A lb \in LB : Img(b).map[lb] < MgmtStart \/ (b + 1 < Img(b).map[lb] /\ Img(b).map[lb] < sig)
  BY DEF Chip, TablesSound, Sound
<1>4. Img(b).st[b] = "good"
  BY DEF Chip, TablesGood
<1>5. MgmtStart \in Nat /\ MgmtStart < sig
  BY <1>1, BlockNumbers DEF Chip, TablesPlaced
<1> QED
  BY <1>1, <1>2, <1>3, <1>4, <1>5 DEF CheckInfoTable

(* nmbm_load_info_table() finds the tables there are.                      *)
LEMMA FoundTables ==
  ASSUME TInv, SInv, Chip, NEW ecc \in UnreadableSets, NEW f, f = Found(ecc), f.sig # None
  PROVE  /\ f.sig \in Nat /\ Signed = {f.sig}
         /\ f.first = None => Tables = {}
         /\ f.first # None /\ f.second = None => Tables = {f.first}
         /\ f.second # None => /\ f.first # None /\ f.first < f.second
                               /\ Tables = {f.first, f.second}
         /\ \A b \in Tables : b \notin f.lost1 /\ b \notin f.lost2
<1> DEFINE sig == FindSignature(phys, bad)
           unread == bad \cup ecc
           first == TableAt(phys, unread, AllGood, MgmtStart, sig)
           st1 == IF first = None THEN AllGood ELSE phys[first].img.st
           second == IF first = None THEN None
                     ELSE TableAt(phys, unread, st1, first + 1, sig)
<1>1. f.sig = sig /\ f.first = first /\ f.second = second
  BY DEF Found
<1>2. /\ f.lost1 \subseteq unread
      /\ f.lost2 \subseteq unread
  BY DEF Found
<1>3. TypeOK /\ OneSignature /\ MgmtStart \in Nat
  BY BlockNumbers DEF TInv, SInv
<1>4. sig \in Signed /\ sig \in Nat
  BY <1>1, <1>3, FoundSigned, BlockNumbers
<1>5. Signed = {sig}
  BY <1>3, <1>4 DEF OneSignature
<1>6. \A b \in Tables : b \notin unread
  BY DEF Tables, UnreadableSets, Torn
<1>7. \A b \in Tables : b \in Nat /\ b \in PB /\ b \in MgmtStart .. sig - 2
  BY <1>3, <1>4, <1>5, Numeric DEF Chip, TablesPlaced
<1>8. \A b \in Tables : phys[b].kind = "table" /\ AllGood[b] = "good"
  BY <1>7 DEF Tables, AllGood
<1> HIDE DEF sig, unread
<1>9. first = None => Tables = {}
  <2> SUFFICES ASSUME NEW b \in Tables PROVE first # None
    OBVIOUS
  <2>1. CheckInfoTable(phys[b].img, AllGood, b, sig)
    BY <1>3, <1>4, <1>5, TablesPass
  <2> QED
    BY <1>3, <1>4, <1>6, <1>7, <1>8, <2>1, TableAtFirst
<1>10. first # None => first \in Tables
  <2> SUFFICES ASSUME first # None PROVE first \in Tables
    OBVIOUS
  <2>1. first \in MgmtStart .. sig - 2 /\ first \notin unread /\ phys[first].kind = "table"
    BY <1>3, <1>4, TableAtIn
  <2> HIDE DEF first
  <2>2. first \in PB
    BY <1>4, <2>1, BlockNumbers DEF Signed
  <2> QED
    BY <2>1, <2>2 DEF Tables, unread
<1>11. st1 = IF first = None THEN AllGood ELSE Img(first).st
  BY DEF Img
<1>12. second = IF first = None THEN None ELSE TableAt(phys, unread, st1, first + 1, sig)
  OBVIOUS
<1>13. first # None => \A b \in Tables : first <= b
  <2> SUFFICES ASSUME first # None, NEW b \in Tables PROVE first <= b
    OBVIOUS
  <2> DEFINE found == {c \in MgmtStart .. sig - 2 :
                        /\ AllGood[c] = "good" /\ c \notin unread
                        /\ phys[c].kind = "table"
                        /\ CheckInfoTable(phys[c].img, AllGood, c, sig)}
  <2>1. b \in found /\ found \in SUBSET Nat
    BY <1>3, <1>4, <1>5, <1>6, <1>7, <1>8, TablesPass
  <2>2. first = Lowest(found)
    BY <2>1 DEF TableAt
  <2> HIDE DEF found, first
  <2> QED
    BY <2>1, <2>2, LowestIn
<1> HIDE DEF first, st1, second
<1>14. first # None /\ second = None => Tables = {first}
  <2> SUFFICES ASSUME first # None, NEW b \in Tables, b # first PROVE second # None
    BY <1>10
  <2>1. first \in Nat /\ b \in Nat /\ first < b /\ first + 1 \in Nat
    BY <1>7, <1>10, <1>13
  <2>2. b \in first + 1 .. sig - 2
    BY <1>4, <1>7, <2>1
  <2>3. st1[b] = "good"
    BY <1>10, <1>11 DEF Chip, TablesGood
  <2>4. CheckInfoTable(phys[b].img, st1, b, sig)
    BY <1>3, <1>4, <1>5, TablesPass
  <2>5. TableAt(phys, unread, st1, first + 1, sig) # None
    BY <1>4, <1>6, <1>8, <2>1, <2>2, <2>3, <2>4, TableAtFirst
  <2> QED
    BY <1>12, <2>5
<1>15. second # None => first # None /\ first < second /\ second \in Tables
  <2> SUFFICES ASSUME second # None PROVE first # None /\ first < second /\ second \in Tables
    OBVIOUS
  <2>1. first # None /\ second = TableAt(phys, unread, st1, first + 1, sig)
    BY <1>12
  <2>2. first \in Nat /\ first + 1 \in Nat /\ MgmtStart <= first
    BY <1>7, <1>10, <2>1
  <2>3. second \in first + 1 .. sig - 2 /\ second \notin unread /\ phys[second].kind = "table"
    BY <1>4, <2>1, <2>2, TableAtIn
  <2>4. second \in PB /\ first < second
    BY <1>4, <2>2, <2>3, BlockNumbers DEF Signed
  <2> QED
    BY <2>1, <2>3, <2>4 DEF Tables, unread
<1>16. second # None => Tables = {first, second}
  <2> SUFFICES ASSUME second # None, NEW b \in Tables PROVE b \in {first, second}
    BY <1>10, <1>15
  <2>1. first # second
    BY <1>7, <1>10, <1>15
  <2> QED
    BY <1>10, <1>15, <2>1 DEF Chip, TablesTwo
<1> QED
  BY <1>1, <1>2, <1>4, <1>5, <1>6, <1>9, <1>14, <1>15, <1>16

(* What memory takes from the newer of the tables found: it is no older    *)
(* than the other, and the pool's top is where its mapping allows.         *)
LEMMA LoadedImage ==
  ASSUME TInv, SInv, Chip, NEW ecc \in UnreadableSets, NEW f, f = Found(ecc), Load(f),
         NEW at, at = IF Newer(f) THEN f.second ELSE f.first,
         NEW last, last = IF f.second = None THEN f.first ELSE f.second
  PROVE  /\ f.sig \in Nat /\ Signed = {f.sig} /\ f.sig # 0
         /\ f.first \in Tables /\ last \in Tables /\ Tables = {f.first, last}
         /\ f.first <= last /\ (f.second # None => f.second = last /\ f.first < last)
         /\ (f.second = None => f.first = last)
         /\ at \in Tables /\ \A b \in Tables : Img(b).wc <= Img(at).wc
         /\ Img(at) \in Image
         /\ map' = Img(at).map /\ st' \in [PB -> BlockStates]
         /\ NoMore(st', Img(at).st)
         /\ \A b \in Tables : st'[b] = "good"
         /\ wc' = Img(at).wc + 1 \/ (wc' = Img(at).wc /\ st' = Img(at).st)
         /\ cache' = [wc |-> wc', st |-> st', map |-> map'] /\ sigBa' = f.sig
         /\ mainBa' = f.first /\ backupBa' = (IF f.second = None THEN 0 ELSE last)
         /\ mapBa' = last + 1
         /\ topBa' \in Nat /\ last + 1 <= topBa' /\ topBa' < f.sig
         /\ Sound(Img(at).map, topBa', f.sig)
         /\ UNCHANGED flash
<1>1. /\ f.sig # None /\ f.first # None
      /\ st' = (IF Newer(f) THEN phys[at].img.st ELSE Marked(phys[at].img.st, f.lost2))
      /\ map' = phys[at].img.map
      /\ wc' = phys[at].img.wc + (IF f.lost1 \cup f.lost2 = {} THEN 0 ELSE 1)
      /\ cache' = [wc |-> wc', st |-> st', map |-> map'] /\ sigBa' = f.sig
      /\ mainBa' = f.first /\ backupBa' = (IF f.second = None THEN 0 ELSE f.second)
      /\ mapBa' = last + 1
      /\ topBa' = MappingTop(phys[at].img, at, f.sig)
      /\ UNCHANGED flash
  BY DEF Load
<1>2. /\ f.sig \in Nat /\ Signed = {f.sig}
      /\ f.second = None => Tables = {f.first}
      /\ f.second # None => f.first < f.second /\ Tables = {f.first, f.second}
      /\ \A b \in Tables : b \notin f.lost1 /\ b \notin f.lost2
  BY <1>1, FoundTables
<1>3. TypeOK /\ f.sig # 0 /\ MgmtStart \in Nat
  BY <1>2, BlockNumbers DEF TInv, SInv, OneSignature
<1>4. \A b \in Tables : /\ b \in Nat /\ b \in PB /\ MgmtStart <= b /\ b + 1 < f.sig
                        /\ Img(b) \in Image /\ Img(b) = phys[b].img
  BY <1>2, <1>3, Numeric, ImagesTyped DEF Chip, TablesPlaced, Img
<1>5. /\ f.first \in Tables /\ last \in Tables /\ Tables = {f.first, last}
      /\ f.first <= last /\ (f.second # None => f.second = last /\ f.first < last)
      /\ (f.second = None => f.first = last)
  <2>1. CASE f.second = None
    <3>1. last = f.first /\ Tables = {f.first}
      BY <1>2, <2>1
    <3>2. last \in Nat
      BY <1>4, <3>1
    <3> QED
      BY <2>1, <3>1, <3>2
  <2>2. CASE f.second # None
    <3>1. last = f.second /\ Tables = {f.first, f.second} /\ f.first < f.second
      BY <1>2, <2>2
    <3>2. last \in Nat /\ f.first \in Nat
      BY <1>4, <3>1
    <3> QED
      BY <2>2, <3>1, <3>2
  <2> QED
    BY <2>1, <2>2
<1>6. at \in Tables /\ \A b \in Tables : Img(b).wc <= Img(at).wc
  <2>1. \A b \in Tables : Img(b).wc \in Nat
    BY <1>4, <1>3, ImagesTyped
  <2>2. CASE f.second = None
    BY <1>5, <2>1, <2>2 DEF Newer
  <2>3. CASE f.second # None
    <3>1. f.second = last /\ phys[last].img = Img(last) /\ phys[f.first].img = Img(f.first)
      BY <1>4, <1>5, <2>3
    <3>2. Newer(f) <=> Img(last).wc > Img(f.first).wc
      BY <2>3, <3>1 DEF Newer
    <3> QED
      BY <1>5, <2>1, <3>1, <3>2
  <2> QED
    BY <2>2, <2>3
<1>7. /\ Img(at) = phys[at].img /\ Img(at) \in Image /\ Img(at).st \in [PB -> BlockStates]
      /\ Img(at).map \in Mappings /\ Img(at).wc \in Nat /\ at \in Nat /\ at < f.sig /\ at <= last
      /\ last \in Nat /\ last + 1 \in Nat
  <2>1. at \in Nat /\ last \in Nat /\ at + 1 < f.sig /\ f.first \in Nat
    BY <1>4, <1>5, <1>6
  <2>2. at \in {f.first, last} /\ f.first <= last
    BY <1>5, <1>6
  <2>3. at < f.sig /\ at <= last /\ last + 1 \in Nat
    BY <1>2, <2>1, <2>2
  <2>4. Img(at) = phys[at].img /\ Img(at) \in Image
    BY <1>4, <1>6
  <2> QED
    BY <1>3, <2>1, <2>3, <2>4, ImagesTyped
<1>8. st' = Img(at).st \/ st' = Marked(Img(at).st, f.lost2)
  BY <1>1, <1>7
<1>9. /\ st' \in [PB -> BlockStates] /\ NoMore(st', Img(at).st)
      /\ \A b \in Tables : st'[b] = "good"
  <2>1. \A b \in Tables : Img(at).st[b] = "good" /\ b \in PB /\ b \notin f.lost2
    BY <1>2, <1>4, <1>6 DEF Chip, TablesGood
  <2> QED
    BY <1>7, <1>8, <2>1, MarkedType DEF Marked, NoMore
<1>10. wc' = Img(at).wc + 1 \/ (wc' = Img(at).wc /\ st' = Img(at).st)
  <2>1. CASE f.lost1 \cup f.lost2 # {}
    BY <1>1, <1>7, <2>1
  <2>2. CASE f.lost1 \cup f.lost2 = {}
    <3>1. f.lost2 = {} /\ wc' = Img(at).wc
      BY <1>1, <1>7, <2>2
    <3>2. Marked(Img(at).st, f.lost2) = Img(at).st
      BY <1>7, <3>1 DEF Marked
    <3> QED
      BY <1>8, <3>1, <3>2
  <2> QED
    BY <2>1, <2>2
<1> DEFINE m == Img(at).map
           above == MappedAbove(Img(at), at, f.sig) \cup {f.sig}
<1>11. topBa' = Lowest(above) - 1
  BY <1>1, <1>7 DEF MappingTop
<1>12. Sound(m, last + 1, f.sig) /\ \A lb \in LB : m[lb] \in Int
  BY <1>2, <1>3, <1>5, <1>6, <1>7, ImagesTyped DEF Chip, TablesSound
<1>13. /\ above \in SUBSET Nat /\ above # {}
       /\ \A p \in above : last + 1 < p /\ p <= f.sig
       /\ \A lb \in LB : m[lb] < MgmtStart \/ m[lb] \in above
  <2>1. above \in SUBSET Nat /\ above # {} /\ f.sig \in above
    BY <1>2, <1>7 DEF MappedAbove
  <2>2. ASSUME NEW p \in above PROVE last + 1 < p /\ p <= f.sig
    <3>1. CASE p = f.sig
      BY <1>4, <1>5, <1>2, <3>1
    <3>2. CASE p \in MappedAbove(Img(at), at, f.sig)
      <4>1. PICK lb \in LB : m[lb] = p
        BY <3>2 DEF MappedAbove
      <4>2. p \in Nat /\ at < p /\ p < f.sig
        BY <1>2, <1>7, <3>2 DEF MappedAbove
      <4>3. MgmtStart <= at
        BY <1>4, <1>6
      <4>4. p < MgmtStart \/ last + 1 < p
        BY <1>12, <4>1 DEF Sound
      <4>5. last + 1 < p
        BY <1>3, <1>7, <4>2, <4>3, <4>4
      <4> QED
        BY <1>2, <4>2, <4>5
    <3> QED
      BY <3>1, <3>2
  <2>3. ASSUME NEW lb \in LB, ~ (m[lb] < MgmtStart) PROVE m[lb] \in above
    <3>1. m[lb] \in Int /\ last + 1 < m[lb] /\ m[lb] < f.sig
      BY <1>12, <2>3 DEF Sound
    <3>2. m[lb] \in at + 1 .. f.sig - 1
      BY <1>2, <1>4, <1>5, <1>7, <3>1
    <3> QED
      BY <3>2 DEF MappedAbove
  <2> QED
    BY <2>1, <2>2, <2>3
<1> HIDE DEF above
<1>14. /\ Lowest(above) \in Nat /\ Lowest(above) \in above
       /\ \A p \in above : Lowest(above) <= p
  BY <1>13, LowestIn
<1>15. topBa' \in Nat /\ last + 1 <= topBa' /\ topBa' < f.sig
  BY <1>2, <1>7, <1>11, <1>13, <1>14
<1>16. Sound(m, topBa', f.sig)
  <2>1. ASSUME NEW lb \in LB
        PROVE  m[lb] < MgmtStart \/ (topBa' < m[lb] /\ m[lb] < f.sig)
    <3> SUFFICES ASSUME ~ (m[lb] < MgmtStart) PROVE topBa' < m[lb] /\ m[lb] < f.sig
      OBVIOUS
    <3>1. m[lb] \in Int /\ m[lb] < f.sig /\ Lowest(above) <= m[lb]
      BY <1>12, <1>13, <1>14 DEF Sound
    <3> QED
      BY <1>11, <1>14, <3>1
  <2> QED
    BY <1>12, <2>1 DEF Sound
<1> QED
  BY <1>1, <1>2, <1>3, <1>5, <1>6, <1>7, <1>9, <1>10, <1>15, <1>16

(* Loading the tables: the driver then knows every table there is.         *)
LEMMA LoadKeeps ==
  ASSUME TInv, SInv, InjectiveMap(map), Chip, NEW ecc \in UnreadableSets,
         AttachOne(ecc) \/ AttachUnequal(ecc) \/ AttachEqual(ecc)
  PROVE  Here'
<1> DEFINE f == Found(ecc)
           at == IF Newer(f) THEN f.second ELSE f.first
           last == IF f.second = None THEN f.first ELSE f.second
           first == f.first
           sig == f.sig
<1>1. /\ Load(f)
      /\ \/ f.second = None /\ pc' = "erase" /\ wr' = Job("front", MgmtStart, f.first)
         \/ /\ f.second # None /\ phys[f.first].img.wc # phys[f.second].img.wc /\ pc' = "erase"
            /\ wr' = IF phys[f.first].img.wc < phys[f.second].img.wc
                     THEN Job("syncmain", f.first, f.second)
                     ELSE Job("syncbackup", f.second, topBa')
         \/ /\ f.second # None /\ phys[f.first].img.wc = phys[f.second].img.wc /\ pc' = "idle"
  BY DEF AttachOne, AttachUnequal, AttachEqual, Start, LoadDone, Rest, SyncMainLimit
<1>2. /\ sig \in Nat /\ Signed = {sig} /\ sig # 0
      /\ first \in Tables /\ last \in Tables /\ Tables = {first, last}
      /\ first <= last /\ (f.second # None => f.second = last /\ first < last)
      /\ (f.second = None => first = last)
      /\ at \in Tables /\ \A b \in Tables : Img(b).wc <= Img(at).wc
      /\ Img(at) \in Image
      /\ map' = Img(at).map /\ st' \in [PB -> BlockStates]
      /\ NoMore(st', Img(at).st)
      /\ \A b \in Tables : st'[b] = "good"
      /\ wc' = Img(at).wc + 1 \/ (wc' = Img(at).wc /\ st' = Img(at).st)
      /\ cache' = [wc |-> wc', st |-> st', map |-> map'] /\ sigBa' = sig
      /\ mainBa' = first /\ backupBa' = (IF f.second = None THEN 0 ELSE last)
      /\ mapBa' = last + 1
      /\ topBa' \in Nat /\ last + 1 <= topBa' /\ topBa' < sig
      /\ Sound(Img(at).map, topBa', sig)
      /\ UNCHANGED flash
  BY <1>1, LoadedImage
<1>3. TypeOK /\ MgmtStart \in Nat /\ 0 < MgmtStart /\ MgmtStart' = MgmtStart
  BY BlockNumbers DEF TInv
<1>4. \A b \in Tables : /\ b \in Nat /\ b \in PB /\ MgmtStart <= b
                        /\ Img(b).wc \in Nat /\ Img(b) \in Image /\ Img(b) = phys[b].img
  BY <1>3, Numeric, ImagesTyped DEF Chip, TablesPlaced, Img
<1>5. /\ Tables' = Tables /\ bad' = bad /\ \A b \in Tables' : phys'[b] = phys[b]
      /\ \A b \in Tables : Img(b)' = Img(b)
  BY <1>2, SameTables DEF flash, Img
<1>6. Signed' = Signed
  BY <1>2, SameFlash
<1>7. Chip'
  BY <1>5, <1>6, ChipKept
<1>8. \A b \in Tables : NoMore(Img(at).st, Img(b).st)
  BY <1>2 DEF Chip, TablesOrdered
<1>9. \A b \in Tables : NoMore(st', Img(b).st)
  BY <1>2, <1>8, NoMoreThen
<1>10. cache'.wc = wc' /\ cache'.st = st' /\ cache'.map = map' /\ Img(at).map = map'
  BY <1>2
<1>11. \A b \in Tables : Img(b).wc = Img(at).wc => Img(b) = Img(at)
  BY <1>2 DEF Chip, TablesOrdered
<1>12. \/ f.second = None /\ wr' = Job("front", MgmtStart, first) /\ pc' = "erase" /\ at = first
       \/ /\ f.second # None /\ wr' = Job("syncmain", first, last) /\ pc' = "erase" /\ at = last
       \/ /\ f.second # None /\ wr' = Job("syncbackup", last, topBa') /\ pc' = "erase"
          /\ at = first
       \/ f.second # None /\ pc' = "idle" /\ \A b \in Tables : Img(b) = Img(at)
  <2>1. CASE f.second = None
    BY <1>1, <1>2, <2>1 DEF Newer
  <2>2. CASE f.second # None
    <3>1. f.second = last /\ phys[last].img = Img(last) /\ phys[first].img = Img(first)
          /\ Img(last).wc \in Nat /\ Img(first).wc \in Nat
      BY <1>2, <1>4, <2>2
    <3>2. Newer(f) <=> Img(last).wc > Img(first).wc
      BY <2>2, <3>1 DEF Newer
    <3>3. at = IF Img(last).wc > Img(first).wc THEN last ELSE first
      BY <3>1, <3>2
    <3>4. \/ pc' = "erase" /\ Img(first).wc < Img(last).wc /\ wr' = Job("syncmain", first, last)
          \/ pc' = "erase" /\ Img(first).wc > Img(last).wc /\ wr' = Job("syncbackup", last, topBa')
          \/ pc' = "idle" /\ Img(first).wc = Img(last).wc
      BY <1>1, <2>2, <3>1
    <3> HIDE DEF at, first, last
    <3>5. Img(first).wc = Img(last).wc => \A b \in Tables : Img(b) = Img(at)
      BY <1>2, <1>11
    <3> QED
      BY <2>2, <3>1, <3>3, <3>4, <3>5
  <2> QED
    BY <2>1, <2>2
<1> HIDE DEF f, at, last, first, sig
<1>13. InjectiveMap(map)'
  BY <1>2 DEF Sound, InjectiveMap
<1>14. Memory'
  <2>1. Sound(map, topBa, sigBa)' /\ Sound(cache.map, topBa, sigBa)'
    BY <1>2, <1>3, <1>10 DEF Sound, InjectiveMap
  <2>2. mapBa' <= topBa' /\ topBa' < sigBa' /\ wc' = cache'.wc
    BY <1>2, <1>10
  <2>3. NoMore(st', cache'.st) /\ \A a \in MgmtStart' .. topBa' :
            cache'.st[a] = "good" => st'[a] = "good" \/ a \in bad'
    BY <1>10 DEF NoMore
  <2> QED
    BY <2>1, <2>2, <2>3 DEF Memory, NoMore
<1>15. ASSUME NEW b \in Tables PROVE b = at \/ Img(b) = Img(at) \/ Older(b)'
  <2>1. CASE f.second = None
    BY <1>2, <2>1
  <2>2. CASE wr' = Job("syncmain", first, last) /\ pc' = "erase" /\ at = last
    BY <1>2, <2>2 DEF Older, Writes, Writing, Job
  <2>3. CASE wr' = Job("syncbackup", last, topBa') /\ pc' = "erase" /\ at = first
    BY <1>2, <2>3 DEF Older, Writes, Writing, Job
  <2>4. CASE \A c \in Tables : Img(c) = Img(at)
    BY <2>4
  <2> QED
    BY <1>12, <2>1, <2>2, <2>3, <2>4
<1>16. Known'
  <2> SUFFICES ASSUME NEW b \in Tables
               PROVE  /\ st'[b] = "good" /\ b < topBa'
                      /\ Img(b).wc <= wc'
                      /\ Img(b).wc = wc' => Img(b) = cache'
                      /\ NoMore(st', Img(b).st)
                      /\ ~ Older(b)' => Sound(Img(b).map, topBa', sig)
    BY <1>2, <1>3, <1>5, <1>10 DEF Known, Sound, NoMore, InjectiveMap
  <2>1. b < topBa'
    BY <1>2, <1>4
  <2>2. Img(b).wc <= Img(at).wc /\ Img(b).wc \in Nat /\ Img(at).wc \in Nat
    BY <1>2, <1>4
  <2>3. Img(b).wc <= wc'
    BY <1>2, <2>2
  <2>4. Img(b).wc = wc' => Img(b) = cache'
    <3> SUFFICES ASSUME Img(b).wc = wc' PROVE Img(b) = cache'
      OBVIOUS
    <3>1. wc' = Img(at).wc /\ st' = Img(at).st
      BY <1>2, <2>2
    <3>2. Img(b) = Img(at)
      BY <1>11, <3>1
    <3>3. Img(at) = [wc |-> Img(at).wc, st |-> Img(at).st, map |-> Img(at).map]
      BY <1>2 DEF Image
    <3> QED
      BY <1>2, <3>1, <3>2, <3>3
  <2>5. ~ Older(b)' => Sound(Img(b).map, topBa', sig)
    BY <1>2, <1>15
  <2> QED
    BY <1>2, <1>9, <2>1, <2>3, <2>4, <2>5
<1>17. Regions'
  <2>1. ASSUME f.second # None, NEW a \in MgmtStart .. first - 1
        PROVE  a \in bad \/ st'[a] # "good"
    <3>1. first < last /\ a \in PB
      <4>1. first \in PB /\ first \in Nat
        BY <1>2, <1>4
      <4> QED
        BY <1>2, <1>3, <2>1, <4>1, BlockNumbers
    <3>2. a \in bad \/ Img(first).st[a] # "good" \/ Img(last).st[a] # "good"
      BY <1>2, <3>1 DEF Chip, TablesLow
    <3> QED
      BY <1>2, <1>9, <3>1, <3>2 DEF NoMore
  <2>2. f.second # None => Full(cache'.st, bad', MgmtStart, first)
    BY <1>5, <1>10, <2>1 DEF Full
  <2>3. MgmtStart <= first /\ first \in Nat /\ last \in Nat
    BY <1>2, <1>4
  <2> QED
    BY <1>2, <1>3, <2>2, <2>3 DEF Regions, Full
<1>18. \A c \in Tables : c \in {mainBa', backupBa'}
  BY <1>2
<1>19. MgmtStart <= first /\ first \in Nat /\ last \in Nat /\ MgmtStart <= last
       /\ first # 0 /\ last # 0
  <2>1. MgmtStart <= first /\ first \in Nat /\ last \in Nat /\ MgmtStart <= last
    BY <1>2, <1>4
  <2> QED
    BY <1>3, <2>1
<1>20. (\A c \in Tables' : Place(c)') /\ Underway' /\ Passed'
  <2>1. CASE pc' = "idle"
    BY <1>5, <1>18, <2>1, Rests
  <2>2. CASE f.second = None /\ wr' = Job("front", MgmtStart, first) /\ pc' = "erase"
    <3>1. wr'.k = "front" /\ wr'.ba = MgmtStart /\ wr'.from = MgmtStart /\ wr'.limit = first
      BY <2>2 DEF Job
    <3>2. Passed'
      BY <1>2, <1>3, <1>4, <1>5, <1>19, <2>2, <3>1, Begins
    <3> QED
      BY <1>2, <1>3, <1>5, <1>18, <1>19, <2>2, <3>1, <3>2
      DEF Place, Underway, Writes, Cleans, Writing, From
  <2>3. CASE f.second # None /\ wr' = Job("syncmain", first, last) /\ pc' = "erase"
    <3>1. wr'.k = "syncmain" /\ wr'.ba = first /\ wr'.from = first /\ wr'.limit = last
      BY <2>3 DEF Job
    <3>2. Passed'
      BY <1>2, <1>3, <1>4, <1>5, <1>19, <2>3, <3>1, Begins
    <3> QED
      BY <1>2, <1>3, <1>5, <1>18, <1>19, <2>3, <3>1, <3>2
      DEF Place, Underway, Writes, Cleans, Writing, From
  <2>4. CASE f.second # None /\ wr' = Job("syncbackup", last, topBa') /\ pc' = "erase"
    <3>1. wr'.k = "syncbackup" /\ wr'.ba = last /\ wr'.from = last /\ wr'.limit = topBa'
      BY <2>4 DEF Job
    <3>2. Passed'
      BY <1>2, <1>3, <1>4, <1>5, <1>19, <2>4, <3>1, Begins
    <3> QED
      BY <1>2, <1>3, <1>5, <1>18, <1>19, <2>4, <3>1, <3>2
      DEF Place, Underway, Writes, Cleans, Writing, From
  <2> QED
    BY <1>12, <2>1, <2>2, <2>3, <2>4
<1> QED
  BY <1>7, <1>13, <1>14, <1>16, <1>17, <1>20 DEF Here, Layout

-----------------------------------------------------------------------------
(* nmbm_build_mapping_table() gives no block to two logical blocks.        *)
LEMMA BuildMappingInjective ==
  ASSUME NEW s
  PROVE  /\ InjectiveMap(BuildMapping(s))
         /\ \A lb \in LB : BuildMapping(s)[lb] < MgmtStart
<1> DEFINE usable == {b \in LB : s[b] # "bad"}
           nth(lb) == {b \in usable : Cardinality({c \in usable : c < b}) = lb}
           m == BuildMapping(s)
<1>1. \A lb \in LB : m[lb] = IF nth(lb) = {} THEN None ELSE Lowest(nth(lb))
  BY DEF BuildMapping
<1>2. ASSUME NEW lb \in LB, m[lb] # None
      PROVE  Cardinality({c \in usable : c < m[lb]}) = lb
  <2>1. nth(lb) # {} /\ m[lb] = Lowest(nth(lb))
    BY <1>1, <1>2
  <2>2. nth(lb) \in SUBSET Nat
    BY DEF LB
  <2>3. m[lb] \in nth(lb)
    BY <2>1, <2>2, LowestIn
  <2> QED
    BY <2>3
<1>3. m \in [LB -> LB \cup {None}]
  BY BuildMappingIn
<1> HIDE DEF m, usable
<1>4. InjectiveMap(m)
  BY <1>2 DEF InjectiveMap
<1>5. \A lb \in LB : m[lb] < MgmtStart
  BY <1>3, BlockNumbers DEF None
<1> QED
  BY <1>4, <1>5 DEF m

(* The driver when it begins to create the tables: there are none.         *)
LEMMA CreateTablesKeeps ==
  ASSUME TypeOK', SInv', NEW s, NEW m, NEW sig, NEW d, CreateTables(s, m, sig, d),
         st' = s, map' = m, mapBa' = 0, Tables' = {}, InjectiveMap(m),
         \A lb \in LB : m[lb] < MgmtStart
  PROVE  LInv'
<1>1. InjectiveMap(map)'
  BY DEF InjectiveMap
<1>2. Chip'
  BY DEF Chip, TablesPlaced, TablesSound, TablesGood, TablesOrdered, TablesLow, TablesTwo
<1>3. CASE pc' = "gone"
  BY <1>1, <1>2, <1>3 DEF LInv, Attached
<1>4. CASE pc' # "gone"
  <2>1. /\ pc' = "rebuild" /\ cache' = [wc |-> wc', st |-> s, map |-> m]
    BY <1>4 DEF CreateTables, Go
  <2>2. topBa' < sigBa' /\ topBa' \in PB
    BY <2>1 DEF SInv, Below, WritesBelow, TypeOK
  <2>3. cache'.wc = wc' /\ cache'.st = s /\ cache'.map = m
    BY <2>1
  <2>4. Memory'
    <3>1. Sound(map, topBa, sigBa)' /\ Sound(cache.map, topBa, sigBa)'
      BY <2>3, BlockNumbers DEF Sound, InjectiveMap
    <3>2. mapBa' <= topBa'
      BY <2>2, BlockNumbers
    <3> QED
      BY <2>2, <2>3, <3>1, <3>2 DEF Memory, NoMore
  <2>5. Known' /\ \A b \in Tables' : Place(b)'
    BY DEF Known
  <2>6. Underway' /\ Passed'
    BY <2>1 DEF Underway, Passed, Writes, Cleans, Writing
  <2> QED
    BY <1>1, <1>2, <2>1, <2>4, <2>5, <2>6 DEF LInv, Layout
<1> QED
  BY <1>3, <1>4

(* A step of nmbm_create_new(), or of nmbm_load_existing() when it finds   *)
(* no table.                                                               *)
LEMMA CreateKeeps ==
  ASSUME TInv, SInv, LInv, TInv', SInv', ~ skipped,
         \/ AttachNew \/ SignatureWritten \/ SignatureFails \/ NoSignatureBlock
         \/ \E ecc \in UnreadableSets : AttachNoTable(ecc)
  PROVE  LInv'
<1>1. InjectiveMap(map) /\ Chip /\ TypeOK /\ TypeOK'
  BY DEF LInv, TInv
<1>2. Signed = {} => Tables = {}
  BY <1>1 DEF Chip, TablesPlaced
<1>3. ASSUME Tables' = {} PROVE Chip'
  BY <1>3 DEF Chip, TablesPlaced, TablesSound, TablesGood, TablesOrdered, TablesLow, TablesTwo
<1>4. CASE AttachNew
  <2>1. pc' = "sign" /\ map' = BuildMapping(st') /\ UNCHANGED flash
    BY <1>4 DEF AttachNew
  <2>2. Signed = {}
    BY <2>1, SameFlash DEF SInv, Unsigned
  <2>3. Tables' = {}
    BY <1>2, <2>1, <2>2, SameTables
  <2>4. InjectiveMap(map)'
    BY <2>1, BuildMappingInjective DEF InjectiveMap
  <2> QED
    BY <1>3, <2>1, <2>3, <2>4 DEF LInv, Attached
<1>5. CASE SignatureWritten
  <2> DEFINE b == Highest(SignatureBlocks)
  <2>1. /\ pc = "sign" /\ phys' = [phys EXCEPT ![b] = Signature] /\ sigBa' = b
        /\ CreateTables(st, map, b, dirty) /\ bad' = bad /\ UNCHANGED <<st, map, mapBa>>
        /\ SignatureBlocks # {}
    BY <1>5 DEF SignatureWritten
  <2>2. Signed = {} /\ mapBa = 0 /\ \A lb \in LB : map[lb] < MgmtStart
    BY <2>1 DEF SInv, Unsigned
  <2>3. b \in PB
    <3>1. wr.ba \in PB
      BY <2>1 DEF TInv, Control
    <3>2. b \in wr.limit + 1 .. wr.ba /\ wr.limit \in Nat
      BY <1>1, <2>1, <3>1, SignatureBlockIn, Numeric
    <3> QED
      BY <3>1, <3>2, BlockNumbers
  <2> HIDE DEF b
  <2>4. Tables' = {}
    BY <1>1, <1>2, <2>1, <2>2, <2>3, NoTable, OneChanged
  <2> QED
    BY <1>1, <2>1, <2>2, <2>4, CreateTablesKeeps
<1>6. CASE SignatureFails
  <2> DEFINE b == Highest(SignatureBlocks)
  <2>1. /\ pc = "sign" /\ pc' = pc /\ phys' = [phys EXCEPT ![b] = Torn]
        /\ bad' = bad \cup {b} /\ map' = map /\ SignatureBlocks # {}
    BY <1>6 DEF SignatureFails, Fail, Spoil
  <2>2. Signed = {}
    BY <2>1 DEF SInv, Unsigned
  <2>3. b \in PB
    <3>1. wr.ba \in PB
      BY <2>1 DEF TInv, Control
    <3>2. b \in wr.limit + 1 .. wr.ba /\ wr.limit \in Nat
      BY <1>1, <2>1, <3>1, SignatureBlockIn, Numeric
    <3> QED
      BY <3>1, <3>2, BlockNumbers
  <2> HIDE DEF b
  <2>4. Tables' = {}
    BY <1>1, <1>2, <2>1, <2>2, <2>3, NoTable, OneChanged
  <2> QED
    BY <1>1, <1>3, <2>1, <2>4 DEF LInv, Attached, InjectiveMap
<1>7. CASE NoSignatureBlock
  <2>1. pc' = "gone" /\ map' = map /\ UNCHANGED flash /\ pc = "sign"
    BY <1>7 DEF NoSignatureBlock, Go, tables
  <2>2. Tables' = {}
    BY <1>2, <2>1, SameTables DEF SInv, Unsigned
  <2> QED
    BY <1>1, <1>3, <2>1, <2>2 DEF LInv, Attached, InjectiveMap
<1>8. ASSUME NEW ecc \in UnreadableSets, AttachNoTable(ecc) PROVE LInv'
  <2> DEFINE f == Found(ecc)
  <2>1. /\ f.sig # None /\ f.first = None /\ map' = BuildMapping(st')
        /\ CreateTables(st', map', f.sig, dirty') /\ UNCHANGED flash /\ mapBa' = mapBa
        /\ pc = "off"
    BY <1>8 DEF AttachNoTable, Begin
  <2>2. Tables = {}
    BY <1>1, <2>1, FoundTables
  <2> HIDE DEF f
  <2>3. Tables' = {} /\ mapBa' = 0
    BY <2>1, <2>2, SameTables DEF SInv, Unsigned
  <2>4. InjectiveMap(map') /\ \A lb \in LB : map'[lb] < MgmtStart
    BY <2>1, BuildMappingInjective
  <2> QED
    BY <1>1, <2>1, <2>3, <2>4, CreateTablesKeeps
<1> QED
  BY <1>4, <1>5, <1>6, <1>7, <1>8

(* Detaching from a chip, or a power cut.                                  *)
LEMMA PowerOffKeeps ==
  ASSUME TInv, SInv, LInv, Signed' = Signed, Leave \/ Crash \/ CutShort
  PROVE  LInv'
<1>1. /\ pc' = "off" /\ map' = NoMap /\ skipped' = skipped /\ bad' = bad
  BY DEF Leave, Crash, CutShort, PowerOff, history, flash
<1>2. Tables' \subseteq Tables /\ \A b \in Tables' : phys'[b] = phys[b]
  <2>1. CASE Leave \/ Crash
    BY <2>1, SameTables DEF Leave, Crash
  <2>2. CASE CutShort
    <3>1. PICK b : phys' = [phys EXCEPT ![b] = Torn]
      BY <2>2 DEF CutShort, Spoil
    <3>2. \A c \in PB : phys'[c] = phys[c] \/ phys'[c] = Torn
      BY <3>1 DEF TInv, TypeOK
    <3> QED
      BY <1>1, <3>2, NoTable DEF Tables
  <2> QED
    BY <2>1, <2>2
<1>3. InjectiveMap(map)'
  BY <1>1 DEF InjectiveMap, NoMap
<1>4. ~ skipped => Chip'
  BY <1>1, <1>2, ChipKept DEF LInv
<1> QED
  BY <1>1, <1>3, <1>4 DEF LInv, Attached

(* The steps that keep the regions apart, the ones with the driver         *)
(* attached.                                                               *)
LEMMA AttachedKeeps ==
  ASSUME TInv, SInv, LInv, Signed' = Signed, ~ skipped, ~ skipped', Attached,
         \/ TableStep \/ RescueStep \/ CreateRemap \/ CreateEnd \/ CreateNoSpare
         \/ BlockStep \/ Detach
  PROVE  Here'
<1>1. Here
  BY DEF LInv, Here
<1>2. CASE TableStep
  <2>1. CASE LoopStep
    BY <1>1, <2>1, LoopKeeps
  <2>2. CASE RebuildStart \/ UpdateBegin \/ UpdateDone \/ MainBegin
    BY <1>1, <2>2, RebuildStartKeeps, UpdateBeginKeeps, UpdateDoneKeeps, MainBeginKeeps
  <2>3. CASE RebuildFailed \/ SecondFailed \/ SecondCleaned \/ BackupFailed
    BY <1>1, <2>3, RebuildFailedKeeps, LayoutStays, BackupFailedKeeps
  <2>4. CASE MainFailed \/ TmpFailed \/ RescueFailed
    BY <1>1, <2>4, MainFailedKeeps, TmpFailedKeeps, RescueFailedKeeps
  <2>5. CASE \/ RebuildWritten \/ SecondWritten \/ BackupWritten \/ MainWritten
             \/ TmpWritten \/ RescueWritten
    BY <1>1, <2>5, RebuildWrittenKeeps, SecondWrittenKeeps, BackupWrittenKeeps,
       MainWrittenKeeps, TmpWrittenKeeps, RescueWrittenKeeps
  <2> QED
    BY <1>2, <2>1, <2>2, <2>3, <2>4, <2>5 DEF TableStep, LoopStep
<1>3. CASE RescueStep
  <2>1. CASE FrontWritten \/ BehindWritten \/ SyncMainWritten \/ SyncBackupWritten
    BY <1>1, <2>1, FrontWrittenKeeps, BehindWrittenKeeps, MainWrittenKeeps, BackupWrittenKeeps
  <2>2. CASE FrontCleaned \/ BehindCleaned \/ SyncBackupFailed
    BY <1>1, <2>2, LayoutStays, BehindCleanedKeeps, BackupFailedKeeps
  <2>3. CASE FrontFailed \/ BehindFailed \/ SyncMainFailed
    BY <1>1, <2>3, CopyFailedKeeps, SyncMainFailedKeeps
  <2> QED
    BY <1>3, <2>1, <2>2, <2>3 DEF RescueStep
<1>4. CASE CreateRemap \/ CreateEnd \/ CreateNoSpare \/ Detach
  BY <1>1, <1>4, CreateRemapKeeps, UpdateDoneKeeps, CreateNoSpareKeeps
<1>5. CASE BlockStep
  <2>1. ASSUME NEW lb \in LB, WriteOk(lb) \/ WriteFails(lb) \/ EraseBegin(lb) \/ ErasedBlock
        PROVE  Here'
    BY <1>1, <2>1, UnmovedKeeps
  <2>2. ASSUME NEW lb \in LB, MarkBad(lb) \/ EraseUnmaps PROVE Here'
    BY <1>1, <2>2, UnmappedKeeps
  <2>3. ASSUME NEW lb \in LB, Refused(lb) PROVE Here'
    BY <1>1, <2>3, NothingKeeps DEF Refused
  <2>4. CASE EraseFails \/ EraseLeavesBlock
    BY <1>1, <2>4, RemapKeeps
  <2>5. 0 \in LB
    BY BlockNumbers
  <2> QED
    BY <1>5, <2>1, <2>2, <2>3, <2>4, <2>5 DEF BlockStep
<1> QED
  BY <1>2, <1>3, <1>4, <1>5

(* No step takes skipped back.                                             *)
LEMMA SkippedStays ==
  ASSUME [Next]_vars, skipped
  PROVE  skipped'
<1> USE DEF history
<1>1. CASE TableStep
  BY <1>1 DEF TableStep, MgmtErased, MgmtEraseFails, MgmtProgramFails, CleanStep, CleanFails,
       RebuildStart, RebuildFailed, RebuildWritten, SecondFailed, SecondWritten, SecondCleaned,
       UpdateBegin, UpdateDone, BackupWritten, BackupFailed, MainBegin, MainWritten, MainFailed,
       TmpFailed, TmpWritten, RescueWritten, RescueFailed
<1>2. CASE AttachStep
  BY <1>2 DEF AttachStep, AttachNew, SignatureWritten, SignatureFails, NoSignatureBlock,
       CreateRemap, Mapped, CreateEnd, CreateNoSpare, AttachNoTable, AttachOne, AttachUnequal,
       AttachEqual, Load, FrontWritten, FrontCleaned, FrontFailed, BehindFailed, BehindWritten,
       BehindCleaned, SyncMainWritten, SyncMainFailed, SyncBackupWritten, SyncBackupFailed
<1>3. CASE BlockStep
  BY <1>3 DEF BlockStep, WriteOk, WriteFails, EraseBegin, MarkBad, Refused, ErasedBlock,
       EraseFails, EraseLeavesBlock, EraseUnmaps, RemapBlock, Mapped, Promise, vars
<1>4. CASE Detach \/ Leave \/ Crash \/ CutShort \/ StaysOff \/ UNCHANGED vars
  BY <1>4 DEF Detach, Leave, Crash, CutShort, StaysOff, vars
<1> QED
  BY <1>1, <1>2, <1>3, <1>4 DEF Next

(* Every step keeps the regions apart.                                     *)
LEMMA NextLaidOut ==
  ASSUME TInv, SInv, LInv, [Next]_vars
  PROVE  LInv'
<1> SUFFICES ASSUME ~ skipped' PROVE LInv'
  BY DEF LInv
<1>1. ~ skipped
  BY SkippedStays
<1>2. TInv' /\ SInv' /\ (Signed' = Signed \/ Signed = {})
  BY NextTypeOK, NextSigned
<1>3. InjectiveMap(map) /\ Chip
  BY <1>1 DEF LInv
<1>4. Here' => LInv'
  BY DEF Here, LInv
<1>5. ASSUME \/ TableStep \/ RescueStep \/ CreateRemap \/ CreateEnd \/ CreateNoSpare
             \/ BlockStep \/ Detach
      PROVE  Signed' = Signed /\ Attached
  <2>1. Signed' = Signed
    BY <1>5, TableFlash, RescueFlash, CreateMapSigned, BlockSigned, OtherSigned
  <2>2. CASE TableStep \/ RescueStep
    BY <2>1, <2>2, TableFlash, RescueFlash DEF Attached
  <2>3. CASE CreateRemap \/ CreateEnd \/ CreateNoSpare \/ Detach
    BY <2>1, <2>3 DEF CreateRemap, CreateEnd, CreateNoSpare, Detach, Attached
  <2>4. CASE BlockStep
    BY <2>1, <2>4 DEF BlockStep, WriteOk, WriteFails, EraseBegin, MarkBad, Refused, ErasedBlock,
         EraseFails, EraseLeavesBlock, EraseUnmaps, Writable, Accepts, Attached
  <2> QED
    BY <1>5, <2>1, <2>2, <2>3, <2>4
<1>6. CASE \/ TableStep \/ RescueStep \/ CreateRemap \/ CreateEnd \/ CreateNoSpare
           \/ BlockStep \/ Detach
  BY <1>1, <1>4, <1>5, <1>6, AttachedKeeps
<1>7. CASE \/ AttachNew \/ SignatureWritten \/ SignatureFails \/ NoSignatureBlock
           \/ \E ecc \in UnreadableSets : AttachNoTable(ecc)
  BY <1>1, <1>2, <1>7, CreateKeeps
<1>8. ASSUME NEW ecc \in UnreadableSets, AttachOne(ecc) \/ AttachUnequal(ecc) \/ AttachEqual(ecc)
      PROVE  LInv'
  BY <1>3, <1>4, <1>8, LoadKeeps
<1>9. CASE Leave \/ Crash \/ CutShort
  BY <1>9, OtherSigned, PowerOffKeeps
<1>10. CASE UNCHANGED vars
  <2>1. UNCHANGED <<phys, bad, map, skipped, pc>>
    BY <1>10 DEF vars, flash, tables, control, history
  <2>2. Tables' = Tables /\ \A b \in Tables' : phys'[b] = phys[b]
    BY <2>1 DEF Tables
  <2>3. InjectiveMap(map)' /\ Chip'
    BY <1>2, <1>3, <2>1, <2>2, ChipKept DEF InjectiveMap
  <2>4. CASE Attached
    BY <1>1, <1>4, <1>10, <2>4, NothingKeeps DEF LInv, Here
  <2>5. CASE ~ Attached
    BY <2>1, <2>3, <2>5 DEF LInv, Attached
  <2> QED
    BY <2>4, <2>5
<1> QED
  BY <1>6, <1>7, <1>8, <1>9, <1>10 DEF Next, AttachStep, RescueStep, StaysOff

(* Before the first attach there is nothing to lay out.                    *)
LEMMA InitLaidOut == Init => LInv
<1> SUFFICES ASSUME Init PROVE LInv
  OBVIOUS
<1>1. pc = "off" /\ map = NoMap /\ \A b \in PB : phys[b] = Blank
  BY DEF Init, Off
<1>2. Tables = {}
  BY <1>1, NoTable DEF Tables
<1>3. Chip
  BY <1>2 DEF Chip, TablesPlaced, TablesSound, TablesGood, TablesOrdered, TablesLow, TablesTwo
<1>4. InjectiveMap(map)
  BY <1>1 DEF InjectiveMap, NoMap
<1> QED
  BY <1>1, <1>3, <1>4 DEF LInv, Attached

(* The three invariants together.                                          *)
LEMMA SpecLaidOut == Spec => [](TInv /\ SInv /\ LInv)
<1>1. Init => TInv /\ SInv /\ LInv
  BY InitTypeOK, InitSigned, InitLaidOut
<1>2. TInv /\ SInv /\ LInv /\ [Next]_vars => (TInv /\ SInv /\ LInv)'
  BY NextTypeOK, NextSigned, NextLaidOut
<1> QED
  BY <1>1, <1>2, PTL DEF Spec

(* Whatever fails and wherever power is cut, main table, backup table,     *)
(* spare pool, mapped blocks and signature are apart, in that order, as    *)
(* nmbm_update_info_table_once(), the rescues and nmbm_erase_range() take  *)
(* for granted, until nmbm_map_block() passes over a bad block.            *)
THEOREM RegionsStayApart == Spec => []RegionsApart
<1>1. TInv /\ SInv /\ LInv => RegionsApart
  <2> SUFFICES ASSUME TInv, SInv, LInv, LaidOut PROVE RegionsApart
    BY DEF RegionsApart
  <2>1. Memory /\ Regions
    BY DEF LInv, LaidOut, Attached, Layout
  <2>2. \A lb \in LB : map[lb] < MgmtStart \/ map[lb] > topBa
    <3> SUFFICES ASSUME NEW lb \in LB PROVE map[lb] < MgmtStart \/ map[lb] > topBa
      OBVIOUS
    <3>1. map[lb] \in Int /\ topBa \in Int
      BY ImagesTyped, Numeric DEF TInv
    <3>2. map[lb] < MgmtStart \/ topBa < map[lb]
      BY <2>1 DEF Memory, Sound
    <3> QED
      BY <3>1, <3>2
  <2> QED
    BY <2>1, <2>2 DEF RegionsApart, Memory, Regions
<1> QED
  BY <1>1, SpecLaidOut, PTL

(* Nor do two logical blocks ever share a physical block until then,       *)
(* although nmbm_map_block() never looks whether a block is in use.        *)
THEOREM NoneShared == Spec => []Injective
<1>1. LInv => Injective
  BY DEF LInv, Injective
<1> QED
  BY <1>1, SpecLaidOut, PTL
=============================================================================
