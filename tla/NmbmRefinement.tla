---------------------------- MODULE NmbmRefinement ----------------------------
(***************************************************************************)
(* The tables of Nmbm implement the register of NmbmStore.                 *)
(***************************************************************************)
EXTENDS Nmbm

(* The mapping that Load would take if power were cut now.  (Sets of one   *)
(* element stand for local definitions: TLC computes each only once.)      *)
Stored ==
    LET sigs == {FindSignature(phys, bad)} \ {None}
        firsts(sig) == {TableAt(phys, bad, AllGood, MgmtStart, sig)} \ {None}
        seconds(sig, b) == {TableAt(phys, bad, phys[b].img.st, b + 1, sig)}
        Taken(f) == phys[IF Newer(f) THEN f.second ELSE f.first].img.map
        maps == UNION {UNION {{Taken([first |-> b, second |-> c]) : c \in seconds(sig, b)}
                                : b \in firsts(sig)} : sig \in sigs}
    IN CHOOSE m \in maps \cup {NoMap} : maps = {} \/ m \in maps

Store == INSTANCE NmbmStore WITH
    Logical <- LB,
    phase <- IF pc = "off" THEN "off" ELSE IF pc = "idle" THEN "ready" ELSE "busy",
    memory <- map,
    disk <- Stored,
    safe <- sigBa # 0 /\ backupBa # 0,
    frozen <- protected

(* Whatever fails and wherever power is cut, the tables behave as one      *)
(* register: an attach never loads a mapping older than the last one       *)
(* saved, and an operation ends with the mapping in memory saved.  This    *)
(* holds until nmbm_map_block() passes over a bad block: the spare pool    *)
(* then still holds a mapped block, a table may be written over it, and    *)
(* nmbm_check_info_table() refuses that table.                             *)
ImplementsStore == Store!Init /\ [][~ skipped' => Store!Next]_(Store!vars)
=============================================================================
