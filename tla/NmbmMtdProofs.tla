--------------------------- MODULE NmbmMtdProofs ---------------------------
(***************************************************************************)
(* Proofs about NmbmMtd, for any set of tasks: one task at a time is in    *)
(* nmbm-core.c, none after shutdown, and no wake-up is lost.               *)
(***************************************************************************)
EXTENDS NmbmMtd, TLAPS

(* A task in the core owns the state it asked for, and one that has shut   *)
(* the device down has left it suspended.                                  *)
Owner ==
    /\ \A t \in Tasks : pc[t] = "core" => state = want[t] /\ want[t] \in Modes
    /\ \A t \in Tasks : pc[t] = "down" => state = Suspended
    /\ \A t, u \in Tasks : t # u /\ pc[t] = "core" => pc[u] # "core"

(* TypeOK says that a task about to schedule() is in the wait queue, where *)
(* Release() finds it.                                                     *)
IInv == TypeOK /\ Owner /\ NoLostWakeup

(* The invariant gives the exclusion: "core" and "down" disagree about the *)
(* device state.                                                           *)
LEMMA InvImpliesExclusion == IInv => MutualExclusion
  BY DEF IInv, TypeOK, Owner, MutualExclusion, Modes, Suspended

(* Nobody is in the core when the device is probed.                        *)
LEMMA InitInv == Init => IInv
  BY DEF Init, IInv, TypeOK, Owner, NoLostWakeup, Modes, Suspended

(* Every section under nm->lock, and every step of a task outside of it,   *)
(* keeps the invariant.                                                    *)
LEMMA NextInv == IInv /\ [Next]_vars => IInv'
<1> SUFFICES ASSUME IInv, [Next]_vars PROVE IInv'
  OBVIOUS
<1> USE DEF IInv, TypeOK, Owner, NoLostWakeup, Modes, Suspended, Goto
<1>1. ASSUME NEW t \in Tasks, NEW s \in Modes \cup {Suspended}, Call(t, s)
      PROVE IInv'
  BY <1>1 DEF Call
<1>2. ASSUME NEW t \in Tasks, GetReady(t) PROVE IInv'
  BY <1>2 DEF GetReady, Entered
<1>3. ASSUME NEW t \in Tasks, GetSuspended(t) PROVE IInv'
  BY <1>3 DEF GetSuspended
<1>4. ASSUME NEW t \in Tasks, Sleep(t) PROVE IInv'
  BY <1>4 DEF Sleep
<1>5. ASSUME NEW t \in Tasks, Woken(t) PROVE IInv'
  BY <1>5 DEF Woken
<1>6. ASSUME NEW t \in Tasks, LeaveQueue(t) PROVE IInv'
  BY <1>6 DEF LeaveQueue
<1>7. ASSUME NEW t \in Tasks, Release(t) PROVE IInv'
  BY <1>7 DEF Release
<1>8. CASE UNCHANGED vars
  BY <1>8 DEF vars
<1> QED
  BY <1>1, <1>2, <1>3, <1>4, <1>5, <1>6, <1>7, <1>8 DEF Next, Run

(* nmbm_get_device() lets one task at a time into nmbm-core.c, and none    *)
(* once nmbm_mtd_shutdown() has returned.                                  *)
THEOREM OneAtATime == Spec => []MutualExclusion
<1>1. Init => IInv
  BY InitInv
<1>2. IInv /\ [Next]_vars => IInv'
  BY NextInv
<1>3. IInv => MutualExclusion
  BY InvImpliesExclusion
<1> QED
  BY <1>1, <1>2, <1>3, PTL DEF Spec

(* No task sleeps in nmbm_get_device() while the device is free.           *)
THEOREM WakeupsArrive == Spec => []NoLostWakeup
<1>1. Init => IInv
  BY InitInv
<1>2. IInv /\ [Next]_vars => IInv'
  BY NextInv
<1>3. IInv => NoLostWakeup
  BY DEF IInv
<1> QED
  BY <1>1, <1>2, <1>3, PTL DEF Spec
=============================================================================
