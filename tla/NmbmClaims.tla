----------------------------- MODULE NmbmClaims -----------------------------
(***************************************************************************)
(* What a comment of nmbm-core.c says of it, and the code does not do: the *)
(* run that checks it finds a counterexample.                              *)
(***************************************************************************)
EXTENDS Nmbm

(* "nmbm_map_block - Map a bad block to a unused spare block": the block   *)
(* given to a logical block is in use by no other.                         *)
MapsUnusedBlock ==
    [][\A k, l \in LB : k # l /\ map'[k] # map[k] /\ map'[k] # None /\ pc # "off"
            => map'[k] # map[l]]_vars
=============================================================================
