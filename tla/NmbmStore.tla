------------------------------ MODULE NmbmStore ------------------------------
(***************************************************************************)
(* What the information tables of NMBM promise: one register that holds a  *)
(* mapping.  Saving the mapping in memory replaces the contents of the     *)
(* register in one step, a power cut leaves the old contents or the new,   *)
(* and what a later attach loads is what the register holds.  How that is  *)
(* done with two tables on a chip whose blocks fail is left to Nmbm.       *)
(***************************************************************************)
CONSTANTS
    Logical,    \* the logical blocks
    None        \* where a mapping has no block

VARIABLES
    phase,      \* "off", "busy" (attaching or in an operation) or "ready"
    memory,     \* the mapping the driver uses
    disk,       \* the contents of the register
    safe,       \* there are two copies of it
    frozen      \* the device is read-only

vars == <<phase, memory, disk, safe, frozen>>

Nothing == [lb \in Logical |-> None]

Init == /\ phase = "off" /\ memory = Nothing /\ disk = Nothing
        /\ safe = FALSE /\ frozen = FALSE

(* A register with one copy can be lost.                                   *)
Lost == ~ safe /\ disk' = Nothing

(* The register is read, or there is nothing in it and a mapping is made.  *)
Attach ==
    /\ phase = "off" /\ phase' # "off"
    /\ disk = Nothing \/ memory' = disk
    /\ UNCHANGED disk

(* A logical block is moved, in memory only.                               *)
Move ==
    /\ phase # "off" /\ phase' = "busy"
    /\ UNCHANGED <<safe, frozen>>
    /\ \E lb \in Logical : \A k \in Logical \ {lb} : memory'[k] = memory[k]
    /\ UNCHANGED disk

(* A step of an operation: the register keeps what it has, or takes what   *)
(* is in memory.  At its end that is saved wherever it names a block.      *)
Step ==
    /\ phase = "busy" /\ phase' # "off"
    /\ UNCHANGED memory
    /\ UNCHANGED disk \/ disk' = memory \/ Lost
    /\ phase' = "ready" /\ safe' /\ ~ frozen' =>
           \A lb \in Logical : memory[lb] \in {None, disk'[lb]}

(* A call is answered at once, or begins.                                  *)
Call == /\ phase = "ready" /\ phase' # "off"
        /\ UNCHANGED <<memory, safe, frozen>>
        /\ UNCHANGED disk

PowerCut ==
    /\ phase # "off" /\ phase' = "off"
    /\ memory' = Nothing /\ ~ safe' /\ ~ frozen'
    /\ UNCHANGED disk \/ Lost

Next == Attach \/ Move \/ Step \/ Call \/ PowerCut

Spec == Init /\ [][Next]_vars
=============================================================================
