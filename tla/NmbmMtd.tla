------------------------------ MODULE NmbmMtd ------------------------------
(***************************************************************************)
(* How nmbm-mtd.c lets one task at a time into nmbm-core.c: the device     *)
(* state, the wait queue, and the reboot notifier that takes the device    *)
(* and keeps it.                                                           *)
(*                                                                         *)
(* A section under nm->lock is one step.  Between such sections a task may *)
(* be anywhere; in particular between joining the wait queue and calling   *)
(* schedule(), which is where a wake-up could be lost.                     *)
(***************************************************************************)
CONSTANT Tasks      \* the tasks that use the device

VARIABLES
    state,      \* nm->state
    wq,         \* the tasks in nm->wq
    awake,      \* the tasks in TASK_RUNNING
    pc,         \* where each task is
    want        \* the new_state it asked for

vars == <<state, wq, awake, pc, want>>

Modes == {"FL_READING", "FL_WRITING", "FL_ERASING"}
Suspended == "FL_PM_SUSPENDED"

Init == /\ state = "FL_READY"
        /\ wq = {}
        /\ awake = Tasks
        /\ pc = [t \in Tasks |-> "out"]
        /\ want = [t \in Tasks |-> "FL_READING"]

Goto(t, p) == pc' = [pc EXCEPT ![t] = p]

(* One of the mtd callbacks (nmbm_mtd_erase(), _read_oob(), _write_oob(),  *)
(* _block_isbad(), _block_markbad()), or nmbm_mtd_shutdown(), is called.   *)
Call(t, s) ==
    /\ pc[t] = "out"
    /\ Goto(t, "retry")
    /\ want' = [want EXCEPT ![t] = s]
    /\ UNCHANGED <<state, wq, awake>>

(* nmbm_get_device().  "core": inside nmbm-core.c; "down": shutdown has    *)
(* returned, and never releases the device.                                *)
Entered(s) == IF s = Suspended THEN "down" ELSE "core"

GetReady_Unchecked(t) ==     \* mutant: does not look at the state
    /\ pc[t] = "retry"
    /\ state' = want[t]
    /\ Goto(t, Entered(want[t]))
    /\ UNCHANGED <<wq, awake, want>>

GetReady(t) ==
    /\ pc[t] = "retry"
    /\ state = "FL_READY"
    /\ state' = want[t]
    /\ Goto(t, Entered(want[t]))
    /\ UNCHANGED <<wq, awake, want>>

GetSuspended(t) ==
    /\ pc[t] = "retry"
    /\ state = Suspended /\ want[t] = Suspended
    /\ Goto(t, "down")
    /\ UNCHANGED <<state, wq, awake, want>>

Sleep(t) ==
    /\ pc[t] = "retry"
    /\ state # "FL_READY"
    /\ ~ (state = Suspended /\ want[t] = Suspended)
    /\ awake' = awake \ {t}
    /\ wq' = wq \cup {t}
    /\ Goto(t, "schedule")
    /\ UNCHANGED <<state, want>>

(* schedule() returns once the task is in TASK_RUNNING again.              *)
Woken(t) ==
    /\ pc[t] = "schedule" /\ t \in awake
    /\ Goto(t, "woken")
    /\ UNCHANGED <<state, wq, awake, want>>

LeaveQueue(t) ==
    /\ pc[t] = "woken"
    /\ wq' = wq \ {t}
    /\ Goto(t, "retry")
    /\ UNCHANGED <<state, awake, want>>

Release_Silent(t) ==         \* mutant: wakes nobody
    /\ pc[t] = "core"
    /\ state' = "FL_READY"
    /\ Goto(t, "out")
    /\ UNCHANGED <<wq, awake, want>>

(* nmbm_release_device(): the waiters are not exclusive, so all wake up.   *)
Release(t) ==
    /\ pc[t] = "core"
    /\ state' = "FL_READY"
    /\ awake' = awake \cup wq
    /\ Goto(t, "out")
    /\ UNCHANGED <<wq, want>>

Run(t) == GetReady(t) \/ GetSuspended(t) \/ Sleep(t) \/ Woken(t) \/ LeaveQueue(t) \/ Release(t)

Next == \E t \in Tasks : Run(t) \/ \E s \in Modes \cup {Suspended} : Call(t, s)

Spec == Init /\ [][Next]_vars

(* A task that can run is run, and an operation on the chip ends.          *)
FairSpec == Spec /\ \A t \in Tasks : WF_vars(Run(t))

-----------------------------------------------------------------------------
(* The state has its types, a task sleeps only inside schedule(), and the  *)
(* wait queue holds the tasks between add_ and remove_wait_queue().        *)
TypeOK ==
    /\ state \in Modes \cup {"FL_READY", Suspended}
    /\ wq \subseteq Tasks /\ awake \subseteq Tasks
    /\ pc \in [Tasks -> {"out", "retry", "schedule", "woken", "core", "down"}]
    /\ want \in [Tasks -> Modes \cup {Suspended}]
    /\ \A t \in Tasks : t \notin awake => pc[t] = "schedule"
    /\ wq = {t \in Tasks : pc[t] \in {"schedule", "woken"}}

(* One task at a time is inside nmbm-core.c, whose tables and page_cache   *)
(* have no other protection, and none is once shutdown has returned.       *)
MutualExclusion ==
    \A t, u \in Tasks : t # u /\ pc[t] = "core" => pc[u] \notin {"core", "down"}

(* nobody sleeps while the device is free: a wake-up between joining the   *)
(* queue and schedule() is not lost.                                       *)
NoLostWakeup ==
    state = "FL_READY" => \A t \in Tasks : pc[t] = "schedule" => t \in awake

(* A task that goes to sleep is woken and tries again, unless the device   *)
(* has been shut down meanwhile.                                           *)
SleepEnds ==
    \A t \in Tasks : pc[t] = "schedule" ~> pc[t] = "retry" \/ state = Suspended

(* A free device that some task asks for is taken by a task: the callers   *)
(* never all wait for each other.                                          *)
FreeIsTaken ==
    state = "FL_READY" /\ (\E t \in Tasks : pc[t] \notin {"out", "down"})
        ~> state # "FL_READY"
=============================================================================
