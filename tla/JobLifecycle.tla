---------------------------- MODULE JobLifecycle ----------------------------
(***************************************************************************)
(* What the processing_jobs table promises to its readers, with no storage, *)
(* no sessions and no custody: a job takes a slot (one per evidence item    *)
(* and job type) while it is active, goes QUEUED -> RUNNING -> SUCCEEDED or *)
(* FAILED (FAILED also from QUEUED, when the run never gets to RUNNING),    *)
(* and its whole result appears in the step that makes it SUCCEEDED.        *)
(***************************************************************************)
CONSTANTS Job, Slot, NoSlot

VARIABLES
  slot,     \* the slot of each created job
  status,   \* its status
  published \* the jobs whose whole result can be read

vars == <<slot, status, published>>

Active == {j \in Job : status[j] \in {"QUEUED", "RUNNING"}}

Init ==
  /\ slot = [j \in Job |-> NoSlot]
  /\ status = [j \in Job |-> "ABSENT"]
  /\ published = {}

Create(j, s) ==
  /\ status[j] = "ABSENT"
  /\ \A i \in Active : slot[i] # s
  /\ slot' = [slot EXCEPT ![j] = s]
  /\ status' = [status EXCEPT ![j] = "QUEUED"]
  /\ UNCHANGED published

Start(j) ==
  /\ status[j] = "QUEUED"
  /\ status' = [status EXCEPT ![j] = "RUNNING"]
  /\ UNCHANGED <<slot, published>>

Succeed(j) ==
  /\ status[j] = "RUNNING"
  /\ status' = [status EXCEPT ![j] = "SUCCEEDED"]
  /\ published' = published \cup {j}
  /\ UNCHANGED slot

Fail(j) ==
  /\ j \in Active
  /\ status' = [status EXCEPT ![j] = "FAILED"]
  /\ UNCHANGED <<slot, published>>

Next == \E j \in Job : (\E s \in Slot : Create(j, s)) \/ Start(j) \/ Succeed(j) \/ Fail(j)

Spec == Init /\ [][Next]_vars
=============================================================================
