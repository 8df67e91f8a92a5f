------------------------------ MODULE RateLimit ------------------------------
(***************************************************************************)
(* One counter of allow_request: INCR on a key of Redis, EXPIRE by the     *)
(* request that was answered 1, both under one timeout, and a bucket in    *)
(* the process when Redis does not answer in time.                         *)
(***************************************************************************)
EXTENDS Naturals, CaseRequests

CONSTANTS
  RequestLimit,  \* requests allowed per window
  MaxCount       \* bound: INCRs during one life of the key

ASSUME RequestLimitAssumption == RequestLimit \in Nat /\ MaxCount \in Nat

VARIABLES
  counter,   \* value of the key, 0 if there is none
  expires,   \* has the key a time to live?
  bucket,    \* stamps in the memory bucket that are inside the window
  limiter,   \* per requester: what INCR answered, 0 when it awaits nothing
  cutShort   \* history: a timeout struck after the first INCR and before EXPIRE

limitVars == <<counter, expires, bucket, limiter, cutShort>>

LimitInit ==
  /\ counter = 0
  /\ expires = FALSE
  /\ bucket = 0
  /\ limiter = [c \in Requester |-> 0]
  /\ cutShort = FALSE

(* A plausible bug: an off-by-one in the test for the first count.          *)
CountFromZeroM(n) == n = 0

FirstCount(n) == n = 1

Incr(c) ==
  /\ limiter[c] = 0
  /\ counter < MaxCount
  /\ counter' = counter + 1
  /\ limiter' = [limiter EXCEPT ![c] = counter + 1]
  /\ UNCHANGED <<expires, bucket, cutShort>>

(* The answer of the counter: the first one sets the expiry before.         *)
Answer(c) ==
  /\ limiter[c] # 0
  /\ expires' = (expires \/ FirstCount(limiter[c]))
  /\ limiter' = [limiter EXCEPT ![c] = 0]
  /\ UNCHANGED <<counter, bucket, cutShort>>

(* A plausible bug: a refused request is stamped as well.                   *)
UnboundedM == bucket' = bucket + 1

(* The memory bucket counts a request unless it is full.                    *)
MemoryAllow == bucket' = IF bucket < RequestLimit THEN bucket + 1 ELSE bucket

(* Redis is away, or the time was up: before INCR, or after it took effect. *)
FallBack(c) ==
  /\ MemoryAllow
  /\ cutShort' = (cutShort \/ limiter[c] = 1)
  /\ limiter' = [limiter EXCEPT ![c] = 0]
  /\ UNCHANGED <<counter, expires>>

(* External: time passes.                                                   *)
WindowEnds ==
  \/ /\ expires
     /\ counter' = 0 /\ expires' = FALSE
     /\ UNCHANGED <<bucket, limiter, cutShort>>
  \/ /\ bucket > 0
     /\ bucket' = bucket - 1
     /\ UNCHANGED <<counter, expires, limiter, cutShort>>

LimitNext(c) == Incr(c) \/ Answer(c) \/ FallBack(c) \/ WindowEnds

-----------------------------------------------------------------------------

LimitTypeOK ==
  /\ counter \in 0..MaxCount
  /\ expires \in BOOLEAN
  /\ bucket \in 0..RequestLimit
  /\ limiter \in [Requester -> 0..MaxCount]
  /\ cutShort \in BOOLEAN

(* A counter always gets its end: one without a time to live has the        *)
(* request at work that was answered 1, unless a timeout cut it short.      *)
CounterExpires ==
  counter > 0 /\ ~expires => cutShort \/ \E c \in Requester : limiter[c] = 1
=============================================================================
