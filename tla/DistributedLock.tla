--------------------------- MODULE DistributedLock ---------------------------
(***************************************************************************)
(* distributed_lock: a key of Redis that SET NX creates with a time to     *)
(* live, and that its holder deletes when the key still has its token.     *)
(* The comparison and the DELETE are two commands.  Requesters are the     *)
(* processes that tick; the token of a requester stands for its last SET.  *)
(***************************************************************************)
EXTENDS CaseRequests

VARIABLES
  lockKey,    \* whose token the key holds, "none" if there is no key
  lease,      \* requesters whose time to live has not passed since their SET
  tick,       \* per requester: its position in distributed_lock
  leaseLost   \* history: a lease ended between a comparison and its DELETE

lockVars == <<lockKey, lease, tick, leaseLost>>

LockInit ==
  /\ lockKey = "none"
  /\ lease = {}
  /\ tick = [c \in Requester |-> "outside"]
  /\ leaseLost = FALSE

(* SET NX EX; when its answer is lost the caller goes without the lock.  A  *)
(* miss changes nothing.                                                    *)
Acquire(c) ==
  /\ tick[c] = "outside"
  /\ lockKey = "none"
  /\ lockKey' = c
  /\ lease' = lease \cup {c}
  /\ \/ tick' = [tick EXCEPT ![c] = "inside"]
     \/ UNCHANGED tick
  /\ UNCHANGED leaseLost

(* A plausible bug: the token is not compared.                              *)
AnyTokenM(c) == c \in Requester

TokenMatches(c) == lockKey = c

(* The body is over: GET, and the comparison with the token.  An error of   *)
(* either command is swallowed and leaves the key to its time to live.      *)
CompareToken(c) ==
  /\ tick[c] = "inside"
  /\ \/ TokenMatches(c) /\ tick' = [tick EXCEPT ![c] = "matched"]
     \/ tick' = [tick EXCEPT ![c] = "outside"]
  /\ UNCHANGED <<lockKey, lease, leaseLost>>

(* DELETE takes the key, whoever set it.                                    *)
DeleteKey(c) ==
  /\ tick[c] = "matched"
  /\ \/ lockKey' = "none" /\ lease' = lease \ {c}
     \/ UNCHANGED <<lockKey, lease>>
  /\ tick' = [tick EXCEPT ![c] = "outside"]
  /\ UNCHANGED leaseLost

(* External: the time to live of c's SET passes.                            *)
ExpireLease(c) ==
  /\ c \in lease
  /\ lease' = lease \ {c}
  /\ lockKey' = IF lockKey = c THEN "none" ELSE lockKey
  /\ leaseLost' = (leaseLost \/ tick[c] = "matched")
  /\ UNCHANGED tick

LockNext(c) == Acquire(c) \/ CompareToken(c) \/ DeleteKey(c) \/ ExpireLease(c)

-----------------------------------------------------------------------------

LockTypeOK ==
  /\ lockKey \in Requester \cup {"none"}
  /\ lease \subseteq Requester
  /\ tick \in [Requester -> {"outside", "inside", "matched"}]
  /\ leaseLost \in BOOLEAN

Holding(c) == tick[c] # "outside" /\ c \in lease

(* Two holders whose leases both run never meet, whatever answers are lost  *)
(* and however long a body takes, as long as no lease has run out between a *)
(* comparison and the DELETE after it: that is the only way to lose a lock. *)
LockExclusive ==
  ~leaseLost => \A c, d \in Requester : Holding(c) /\ Holding(d) => c = d
=============================================================================
