--------------------------- MODULE NmbmWalkProofs ---------------------------
(***************************************************************************)
(* Proof that the loops of the block walks return what NmbmFlash says of   *)
(* them, for every chip, block state table, start, count and limit.        *)
(***************************************************************************)
EXTENDS NmbmWalk, FiniteSetTheorems, TLAPS

(* The blocks a walk may return, and those it has been past.               *)
Wanted == IF up THEN GoodIn(st, start, Clamped - 1) ELSE GoodIn(st, Clamped + 1, start)
Past(b) == IF up THEN {c \in Wanted : c < b} ELSE {c \in Wanted : c > b}

Arguments ==
    /\ start \in PB /\ count \in Nat /\ limit \in Nat /\ up \in BOOLEAN
    /\ spare \in Int /\ ba \in Int /\ nblock \in Int

(* Down: the walk has been past as many good blocks as are off the count.  *)
Down == result = Running /\ ~ up =>
    /\ 0 <= ba /\ ba <= start /\ nblock >= 0
    /\ Cardinality(Past(ba)) = count - nblock

(* Up: the same of the count that nmbm_try_reserve_blocks() has got to,    *)
(* and there are not more than that, or the walk before had found one.     *)
Up == result = Running /\ up =>
    /\ 0 <= spare /\ spare <= count /\ start <= ba /\ nblock >= 0
    /\ Cardinality(Past(ba)) = spare - nblock
    /\ spare < count => Cardinality(Wanted) <= spare + 1

WInv == Arguments /\ Down /\ Up /\ LoopsAgree

-----------------------------------------------------------------------------
LEMMA Clamping == ASSUME Arguments PROVE Clamped \in PB
  BY GeometryAssumption DEF Clamped, Least, Arguments, PB

LEMMA WantedIs ==
    ASSUME Arguments
    PROVE  /\ Wanted \subseteq PB /\ IsFiniteSet(Wanted) /\ Cardinality(Wanted) \in Nat
           /\ \A b : IsFiniteSet(Past(b)) /\ Past(b) \subseteq Wanted
                     /\ Cardinality(Past(b)) \in Nat /\ Cardinality(Past(b)) <= Cardinality(Wanted)
           /\ \A b \in PB : b \in Wanted <=>
                  /\ st[b] = "good"
                  /\ IF up THEN start <= b /\ b < Clamped ELSE Clamped < b /\ b <= start
<1>1. Clamped \in PB /\ start \in PB /\ PB \subseteq Nat
  BY Clamping, GeometryAssumption DEF Arguments, PB
<1>2. Wanted \subseteq PB
  <2>1. \A b \in Wanted : b \in Int /\ IF up THEN start <= b /\ b < Clamped
                                           ELSE Clamped < b /\ b <= start
    BY <1>1 DEF Wanted, GoodIn
  <2> QED
    BY <1>1, <2>1, GeometryAssumption DEF PB
<1>3. IsFiniteSet(PB)
  BY FS_Interval, GeometryAssumption DEF PB
<1>4. IsFiniteSet(Wanted) /\ Cardinality(Wanted) \in Nat
  BY <1>2, <1>3, FS_Subset, FS_CardinalityType
<1>5. \A b : Past(b) \subseteq Wanted
  BY DEF Past
<1>6. \A b : IsFiniteSet(Past(b)) /\ Cardinality(Past(b)) <= Cardinality(Wanted)
  BY <1>4, <1>5, FS_Subset
<1>7. \A b : Cardinality(Past(b)) \in Nat
  BY <1>6, FS_CardinalityType
<1>8. \A b \in PB : b \in Wanted <=>
                  /\ st[b] = "good"
                  /\ IF up THEN start <= b /\ b < Clamped ELSE Clamped < b /\ b <= start
  BY <1>1 DEF Wanted, GoodIn, PB
<1> QED
  BY <1>2, <1>4, <1>5, <1>6, <1>7, <1>8

LEMMA InPast ==
    \A b, c : c \in Past(b) <=> c \in Wanted /\ IF up THEN c < b ELSE c > b
  BY DEF Past

(* A turn of a loop goes past one block.                                   *)
LEMMA OnePast ==
    ASSUME Arguments, NEW b \in Int, NEW n \in Int, n = IF up THEN b + 1 ELSE b - 1
    PROVE  Cardinality(Past(n)) =
               IF b \in Wanted THEN Cardinality(Past(b)) + 1 ELSE Cardinality(Past(b))
<1>1. Wanted \subseteq Nat
  BY WantedIs, GeometryAssumption DEF PB
<1>2. Past(n) = IF b \in Wanted THEN Past(b) \cup {b} ELSE Past(b)
  <2>1. \A c \in Wanted : c \in Int
    BY <1>1
  <2>2. \A c : c \in Past(n) <=> c \in Past(b) \/ (c = b /\ b \in Wanted)
    BY <2>1, InPast
  <2> QED
    BY <2>2
<1>3. b \notin Past(b)
  BY DEF Past
<1>4. IsFiniteSet(Past(b))
  BY WantedIs
<1>5. Cardinality(Past(b) \cup {b}) = Cardinality(Past(b)) + 1
  BY <1>3, <1>4, FS_AddElement
<1> QED
  BY <1>2, <1>5

(* No two blocks have as many before them.                                 *)
LEMMA OnlyOne ==
    ASSUME Arguments, NEW b \in Wanted, NEW c \in Wanted,
           Cardinality(Past(b)) = Cardinality(Past(c))
    PROVE  b = c
<1>1. Wanted \subseteq Nat
  BY WantedIs, GeometryAssumption DEF PB
<1>2. ASSUME NEW x \in Wanted, NEW y \in Wanted, x \in Past(y)
      PROVE  Cardinality(Past(x)) < Cardinality(Past(y))
  <2>1. x \notin Past(x) /\ Past(x) \cup {x} \subseteq Past(y)
    <3>1. \A z \in Wanted : z \in Int
      BY <1>1
    <3>2. \A z : z \in Past(x) => z \in Past(y) /\ z # x
      BY <1>2, <3>1, InPast
    <3> QED
      BY <1>2, <3>2
  <2>2. Cardinality(Past(x) \cup {x}) = Cardinality(Past(x)) + 1
    BY <2>1, WantedIs, FS_AddElement
  <2>3. Cardinality(Past(x) \cup {x}) <= Cardinality(Past(y))
    BY <2>1, WantedIs, FS_Subset
  <2> QED
    BY <2>2, <2>3, WantedIs
<1>3. b = c \/ b \in Past(c) \/ c \in Past(b)
  BY <1>1 DEF Past
<1> QED
  BY <1>2, <1>3, WantedIs

(* What NmbmFlash says of the walks, in these terms.                       *)
Skip == IF up THEN Least(count, Cardinality(Wanted) - 1) ELSE count

LEMMA ReferenceIs ==
    ASSUME Arguments
    PROVE  /\ \A b \in Wanted : Cardinality(Past(b)) = Skip => Reference = b
           /\ (\A b \in Wanted : Cardinality(Past(b)) # Skip) => Reference = None
<1> DEFINE hits == {b \in Wanted : Cardinality(Past(b)) = Skip}
<1>1. Reference = IF hits = {} THEN None ELSE Lowest(hits)
  <2>1. CASE up
    BY <2>1 DEF Reference, Reserve, Wanted, Past, Skip
  <2>2. CASE ~ up
    BY <2>2 DEF Reference, WalkDesc, Wanted, Past, Skip
  <2> QED
    BY <2>1, <2>2
<1>2. hits \subseteq Nat
  BY WantedIs, GeometryAssumption DEF PB
<1>3. ASSUME NEW b \in Wanted, Cardinality(Past(b)) = Skip PROVE Reference = b
  <2>1. b \in hits
    BY <1>3
  <2>2. hits = {b}
    BY <1>3, <2>1, OnlyOne
  <2>3. Lowest(hits) = b
    BY <1>2, <2>1, <2>2 DEF Lowest
  <2> QED
    BY <1>1, <2>1, <2>3
<1>4. ASSUME \A b \in Wanted : Cardinality(Past(b)) # Skip PROVE Reference = None
  BY <1>1, <1>4
<1> QED
  BY <1>3, <1>4

-----------------------------------------------------------------------------
LEMMA WalkInit == Init => WInv
<1> SUFFICES ASSUME Init PROVE WInv
  OBVIOUS
<1>1. Arguments
  BY GeometryAssumption, MaxCountAssumption DEF Init, Arguments, PB
<1>2. Wanted \subseteq PB /\ start \in PB /\ PB \subseteq Nat
  BY <1>1, WantedIs, GeometryAssumption DEF Arguments, PB
<1>3. Past(start) = {}
  <2> SUFFICES ASSUME NEW c \in Past(start) PROVE FALSE
    OBVIOUS
  <2>1. c \in Wanted /\ c \in PB /\ c \in Nat /\ start \in Nat
    BY <1>2 DEF Past
  <2>2. IF up THEN start <= c ELSE c <= start
    BY <1>1, <2>1, WantedIs
  <2> QED
    BY <2>1, <2>2 DEF Past
<1>4. Cardinality(Past(ba)) = 0
  BY <1>3, FS_EmptySet DEF Init
<1> QED
  BY <1>1, <1>2, <1>4 DEF Init, WInv, Down, Up, LoopsAgree, Arguments

(* The arguments do not change, and nor does what depends on them alone.   *)
LEMMA Same ==
    ASSUME UNCHANGED input
    PROVE  /\ Wanted' = Wanted /\ Reference' = Reference /\ Clamped' = Clamped
           /\ \A b : Past(b)' = Past(b)
  BY DEF input, Wanted, Reference, Clamped, Past

LEMMA TurnDescKeeps == ASSUME WInv, TurnDesc PROVE WInv'
<1>1. /\ Arguments /\ UNCHANGED <<input, spare>> /\ result = Running /\ ~ up /\ Clamped \in PB
      /\ 0 <= ba /\ ba <= start /\ nblock >= 0 /\ Cardinality(Past(ba)) = count - nblock
      /\ Clamped < ba /\ nblock' = Left
  BY Clamping DEF WInv, Down, TurnDesc
<1>2. ba \in PB /\ ba - 1 \in Int /\ (ba \in Wanted <=> st[ba] = "good")
  <2>1. ba \in PB
    BY <1>1, GeometryAssumption DEF Arguments, PB
  <2> QED
    BY <1>1, <2>1, WantedIs, GeometryAssumption DEF Arguments, PB
<1>3. CASE Left < 0
  <2>1. st[ba] = "good" /\ nblock = 0 /\ result' = ba /\ UNCHANGED ba
    BY <1>1, <1>3 DEF Left, TurnDesc, Arguments
  <2>2. Reference = ba
    BY <1>1, <1>2, <2>1, ReferenceIs DEF Skip, Arguments
  <2> QED
    BY <1>1, <1>3, <2>1, <2>2, Same DEF WInv, Arguments, Down, Up, LoopsAgree, Running, input, Left
<1>4. CASE ~ (Left < 0)
  <2>1. ba' = ba - 1 /\ result' = result /\ Left \in Int /\ Left >= 0
    BY <1>1, <1>4 DEF TurnDesc, Left, Arguments
  <2>2. Cardinality(Past(ba - 1)) = count - Left
    BY <1>1, <1>2, OnePast DEF Left, Arguments
  <2>3. Past(ba)' = Past(ba - 1)
    BY <1>1, <2>1, Same DEF Past, input
  <2>4. Down'
    BY <1>1, <1>2, <2>1, <2>2, <2>3, GeometryAssumption DEF Down, input, Arguments, PB
  <2> QED
    BY <1>1, <2>1, <2>4 DEF WInv, Arguments, Up, LoopsAgree, input
<1> QED
  BY <1>3, <1>4

LEMMA EndDescKeeps == ASSUME WInv, EndDesc PROVE WInv'
<1>1. /\ Arguments /\ UNCHANGED <<input, spare, ba, nblock>> /\ ~ up /\ Clamped \in PB
      /\ ba <= start /\ nblock >= 0 /\ Cardinality(Past(ba)) = count - nblock
      /\ ba <= Clamped /\ result' = None
  BY Clamping DEF WInv, Down, EndDesc
<1>2. \A b \in Wanted : b \in Past(ba) /\ b \notin Past(b)
  BY <1>1, WantedIs, GeometryAssumption DEF Past, Arguments, PB
<1>3. \A b \in Wanted : Cardinality(Past(b)) # count
  <2> SUFFICES ASSUME NEW b \in Wanted PROVE Cardinality(Past(b)) < Cardinality(Past(ba))
    BY <1>1, WantedIs DEF Arguments
  <2>1. Past(b) \cup {b} \subseteq Past(ba) /\ b \notin Past(b)
    BY <1>1, <1>2, WantedIs
  <2>2. Cardinality(Past(b) \cup {b}) = Cardinality(Past(b)) + 1
    BY <1>1, <2>1, WantedIs, FS_AddElement
  <2>3. Cardinality(Past(b) \cup {b}) <= Cardinality(Past(ba))
    BY <1>1, <2>1, WantedIs, FS_Subset
  <2> QED
    BY <1>1, <2>2, <2>3, WantedIs
<1>4. Reference = None
  BY <1>1, <1>3, ReferenceIs DEF Skip
<1> QED
  BY <1>1, <1>4, Same DEF WInv, Arguments, Down, Up, LoopsAgree, Running, None, input

LEMMA TurnAscKeeps == ASSUME WInv, TurnAsc PROVE WInv'
<1>1. /\ Arguments /\ UNCHANGED <<input, spare>> /\ result = Running /\ up /\ Clamped \in PB
      /\ 0 <= spare /\ spare <= count /\ start <= ba /\ nblock >= 0
      /\ Cardinality(Past(ba)) = spare - nblock
      /\ spare < count => Cardinality(Wanted) <= spare + 1
      /\ ba < Clamped /\ nblock' = Left
  BY Clamping DEF WInv, Up, TurnAsc
<1>2. ba \in PB /\ ba + 1 \in Int /\ (ba \in Wanted <=> st[ba] = "good")
  <2>1. ba \in PB
    BY <1>1, GeometryAssumption DEF Arguments, PB
  <2> QED
    BY <1>1, <2>1, WantedIs, GeometryAssumption DEF Arguments, PB
<1>3. CASE Left < 0
  <2>1. st[ba] = "good" /\ nblock = 0 /\ result' = ba /\ UNCHANGED ba
    BY <1>1, <1>3 DEF Left, TurnAsc, Arguments
  <2>2. Cardinality(Wanted) >= spare + 1
    <3>1. Past(ba) \cup {ba} \subseteq Wanted /\ ba \notin Past(ba)
      BY <1>1, <1>2, <2>1, WantedIs DEF Past, Arguments
    <3>2. Cardinality(Past(ba) \cup {ba}) = Cardinality(Past(ba)) + 1
      BY <1>1, <3>1, WantedIs, FS_AddElement
    <3>3. Cardinality(Past(ba) \cup {ba}) <= Cardinality(Wanted)
      BY <1>1, <3>1, WantedIs, FS_Subset
    <3> QED
      BY <1>1, <2>1, <3>2, <3>3, WantedIs DEF Arguments
  <2>3. Skip = spare
    BY <1>1, <2>2, WantedIs DEF Skip, Least, Arguments
  <2>4. Reference = ba
    BY <1>1, <1>2, <2>1, <2>3, ReferenceIs DEF Arguments
  <2> QED
    BY <1>1, <1>2, <1>3, <2>1, <2>4, Same, GeometryAssumption
    DEF WInv, Arguments, Down, Up, LoopsAgree, Running, input, Left, PB
<1>4. CASE ~ (Left < 0)
  <2>1. ba' = ba + 1 /\ result' = result /\ Left \in Int /\ Left >= 0
    BY <1>1, <1>4 DEF TurnAsc, Left, Arguments
  <2>2. Cardinality(Past(ba + 1)) = spare - Left
    BY <1>1, <1>2, OnePast DEF Left, Arguments
  <2>3. Past(ba)' = Past(ba + 1)
    BY <1>1, <2>1, Same DEF Past, input
  <2>4. Up'
    BY <1>1, <1>2, <2>1, <2>2, <2>3, Same, GeometryAssumption DEF Up, input, Arguments, PB
  <2> QED
    BY <1>1, <2>1, <2>4 DEF WInv, Arguments, Down, LoopsAgree, input
<1> QED
  BY <1>3, <1>4

LEMMA ReserveLessKeeps == ASSUME WInv, ReserveLess PROVE WInv'
<1>1. /\ Arguments /\ UNCHANGED input /\ result = Running /\ up /\ Clamped \in PB
      /\ 0 <= spare /\ spare <= count /\ start <= ba /\ nblock >= 0
      /\ Cardinality(Past(ba)) = spare - nblock
      /\ Clamped <= ba /\ spare' = spare - 1
  BY Clamping DEF WInv, Up, ReserveLess
<1>2. Wanted = Past(ba)
  BY <1>1, WantedIs, GeometryAssumption DEF Past, Arguments, PB
<1>3. Cardinality(Wanted) <= spare /\ Cardinality(Wanted) \in Nat
  BY <1>1, <1>2, WantedIs DEF Arguments
<1>4. CASE spare > 0
  <2>1. ba' = start /\ nblock' = spare - 1 /\ result' = result
    BY <1>4 DEF ReserveLess
  <2>2. Past(start) = {}
    BY <1>1, WantedIs, GeometryAssumption DEF Past, Arguments, PB
  <2>3. Past(ba)' = Past(start)
    BY <1>1, <2>1, Same DEF Past, input
  <2>4. Cardinality(Past(ba)') = 0 /\ Wanted' = Wanted
    BY <1>1, <2>2, <2>3, Same, FS_EmptySet
  <2>5. Up'
    BY <1>1, <1>3, <1>4, <2>1, <2>4, GeometryAssumption DEF Up, input, Arguments, PB
  <2>6. Arguments'
    BY <1>1, <2>1, GeometryAssumption DEF Arguments, input, PB
  <2> QED
    BY <1>1, <2>1, <2>5, <2>6 DEF WInv, Down, LoopsAgree, input
<1>5. CASE ~ (spare > 0)
  <2>1. result' = None /\ UNCHANGED <<ba, nblock>>
    BY <1>5 DEF ReserveLess
  <2>2. Wanted = {}
    BY <1>1, <1>3, <1>5, WantedIs, FS_EmptySet DEF Arguments
  <2>3. Reference = None
    BY <1>1, <2>2, ReferenceIs
  <2> QED
    BY <1>1, <2>1, <2>3, Same DEF WInv, Arguments, Down, Up, LoopsAgree, Running, None, input
<1> QED
  BY <1>4, <1>5

LEMMA WalkNext == WInv /\ [Next]_vars => WInv'
<1> SUFFICES ASSUME WInv, [Next]_vars PROVE WInv'
  OBVIOUS
<1>1. CASE UNCHANGED vars
  BY <1>1 DEF WInv, Arguments, Down, Up, LoopsAgree, Reference, Wanted, Past, Clamped, vars, input
<1> QED
  BY <1>1, TurnDescKeeps, EndDescKeeps, TurnAscKeeps, ReserveLessKeeps DEF Next, Finished

(* nmbm_block_walk_desc() and nmbm_try_reserve_blocks(), which is walks up *)
(* with one block less to skip each time, return the block that WalkDesc   *)
(* and Reserve of NmbmFlash define, or fail when these have none.          *)
THEOREM WalksAgree == Spec => []LoopsAgree
<1>1. WInv => LoopsAgree
  BY DEF WInv
<1> QED
  BY <1>1, WalkInit, WalkNext, PTL DEF Spec
=============================================================================
