----------------------------- MODULE ServiceProofs -----------------------------
(***************************************************************************)
(* What a step of the smaller services preserves: the lock and the request *)
(* counter in Redis, the runs a request executes, fusion and case review.  *)
(***************************************************************************)
EXTENDS DistributedLock, RateLimit, InlineRuns, FusionJury, CaseReview,
        FiniteSetTheorems, TLAPS

(* Why the lock excludes: the key always belongs to a lease, and until a    *)
(* lease has run out between a comparison and its DELETE, a lease has the   *)
(* key and a comparison that succeeded is still true.                       *)
LockInv ==
  /\ LockTypeOK
  /\ lockKey # "none" => lockKey \in lease
  /\ ~leaseLost =>
       \A c \in Requester : /\ c \in lease => lockKey = c
                            /\ tick[c] = "matched" => c \in lease

(* The lock starts free.                                                    *)
LEMMA LockStarts == LockInit => LockInv
  BY RequesterAssumption DEF LockInit, LockInv, LockTypeOK

(* The invariant is enough: two leases would both have the key.             *)
LEMMA LockExcludes == LockInv => LockTypeOK /\ LockExclusive
  BY DEF LockInv, LockExclusive, Holding

(* Every command of distributed_lock, and the end of a lease, preserves it. *)
LEMMA LockStep ==
  ASSUME LockInv, NEW c \in Requester, LockNext(c)
  PROVE  LockInv'
<1> USE RequesterAssumption DEF LockInv, LockTypeOK
<1>1. CASE Acquire(c)
  BY <1>1 DEF Acquire
<1>2. CASE CompareToken(c)
  BY <1>2 DEF CompareToken, TokenMatches
<1>3. CASE DeleteKey(c)
  BY <1>3 DEF DeleteKey
<1>4. CASE ExpireLease(c)
  <2>1. /\ c \in lease /\ lease' = lease \ {c}
        /\ lockKey' = IF lockKey = c THEN "none" ELSE lockKey
        /\ leaseLost' = (leaseLost \/ tick[c] = "matched")
        /\ tick' = tick
    BY <1>4 DEF ExpireLease
  <2>2. LockTypeOK'
    BY <2>1
  <2>3. lockKey' # "none" => lockKey' \in lease'
    BY <2>1
  <2>4. ~leaseLost' =>
          \A d \in Requester : /\ d \in lease' => lockKey' = d
                               /\ tick'[d] = "matched" => d \in lease'
    BY <2>1
  <2> QED
    BY <2>2, <2>3, <2>4
<1> QED
  BY <1>1, <1>2, <1>3, <1>4 DEF LockNext

-----------------------------------------------------------------------------

LimitInv == LimitTypeOK /\ CounterExpires

(* No counter at the start.                                                 *)
LEMMA LimitStarts == LimitInit => LimitInv
<1> SUFFICES ASSUME LimitInit
             PROVE  LimitInv
  OBVIOUS
<1>1. counter = 0 /\ bucket = 0
  BY DEF LimitInit
<1>2. counter \in 0..MaxCount /\ bucket \in 0..RequestLimit
  BY <1>1, RequestLimitAssumption
<1>3. limiter \in [Requester -> 0..MaxCount]
  BY RequestLimitAssumption DEF LimitInit
<1>4. expires \in BOOLEAN /\ cutShort \in BOOLEAN
  BY DEF LimitInit
<1> QED
  BY <1>1, <1>2, <1>3, <1>4 DEF LimitInv, LimitTypeOK, CounterExpires

(* A counter without an end keeps the request that must give it one.        *)
LEMMA LimitStep ==
  ASSUME LimitInv, NEW c \in Requester, LimitNext(c)
  PROVE  LimitInv'
<1>0. /\ counter \in 0..MaxCount /\ expires \in BOOLEAN /\ bucket \in 0..RequestLimit
      /\ limiter \in [Requester -> 0..MaxCount] /\ cutShort \in BOOLEAN
      /\ counter > 0 /\ ~expires => cutShort \/ \E d \in Requester : limiter[d] = 1
      /\ MaxCount \in Nat /\ RequestLimit \in Nat
  BY RequestLimitAssumption DEF LimitInv, LimitTypeOK, CounterExpires
<1> SUFFICES /\ LimitTypeOK'
             /\ CounterExpires'
  BY DEF LimitInv
<1>1. CASE Incr(c)
  <2>1. LimitTypeOK'
    BY <1>0, <1>1 DEF Incr, LimitTypeOK
  <2>2. CounterExpires'
    BY <1>0, <1>1 DEF Incr, CounterExpires
  <2> QED
    BY <2>1, <2>2
<1>2. CASE Answer(c)
  <2>1. LimitTypeOK'
    BY <1>0, <1>2 DEF Answer, LimitTypeOK
  <2>2. CounterExpires'
    BY <1>0, <1>2 DEF Answer, FirstCount, CounterExpires
  <2> QED
    BY <2>1, <2>2
<1>3. CASE FallBack(c)
  <2>1. LimitTypeOK'
    BY <1>0, <1>3 DEF FallBack, MemoryAllow, LimitTypeOK
  <2>2. CounterExpires'
    BY <1>0, <1>3 DEF FallBack, CounterExpires
  <2> QED
    BY <2>1, <2>2
<1>4. CASE WindowEnds
  <2>1. CASE expires /\ counter' = 0 /\ expires' = FALSE /\ UNCHANGED <<bucket, limiter, cutShort>>
    <3>1. counter' \in 0..MaxCount /\ ~(counter' > 0)
      BY <1>0, <2>1
    <3> QED
      BY <1>0, <2>1, <3>1 DEF LimitTypeOK, CounterExpires
  <2>2. CASE bucket > 0 /\ bucket' = bucket - 1 /\ UNCHANGED <<counter, expires, limiter, cutShort>>
    <3>1. bucket' \in 0..RequestLimit
      BY <1>0, <2>2
    <3> QED
      BY <1>0, <2>2, <3>1 DEF LimitTypeOK, CounterExpires
  <2> QED
    BY <1>4, <2>1, <2>2 DEF WindowEnds
<1> QED
  BY <1>1, <1>2, <1>3, <1>4 DEF LimitNext

-----------------------------------------------------------------------------

(* Why the except clause may commit without a rollback: a session holds a   *)
(* storage key only after the package is written.                           *)
InlineInv ==
  /\ InlineTypeOK
  /\ RecordsBacked
  /\ \A c \in Requester : draft[c].key => c \in packages

(* Nothing is recorded at the start.                                        *)
LEMMA InlineStarts == InlineInit => InlineInv
BY DEF InlineInit, InlineInv, InlineTypeOK, RecordsBacked, NoInlineRow, InlineRow

(* What a session writes into a row leaves the row well formed and changes  *)
(* nothing else in it; the sets of values are parameters.                   *)
LEMMA RowWritten ==
  ASSUME NEW K, NEW S, NEW R,
         NEW row \in [kind : K, status : S, rows : R, key : BOOLEAN],
         NEW s \in S, NEW rs \in R, NEW key \in BOOLEAN
  PROVE  /\ row.kind \in K /\ row.key \in BOOLEAN
         /\ [row EXCEPT !.rows = rs] \in [kind : K, status : S, rows : R, key : BOOLEAN]
         /\ [row EXCEPT !.rows = rs].key = row.key
         /\ [row EXCEPT !.key = key] \in [kind : K, status : S, rows : R, key : BOOLEAN]
         /\ [row EXCEPT !.status = s] \in [kind : K, status : S, rows : R, key : BOOLEAN]
         /\ [row EXCEPT !.status = s].status = s
         /\ [row EXCEPT !.status = s].key = row.key
<1>1. row.kind \in K /\ row.key \in BOOLEAN
  OBVIOUS
<1>2. /\ [row EXCEPT !.rows = rs] \in [kind : K, status : S, rows : R, key : BOOLEAN]
      /\ [row EXCEPT !.rows = rs].key = row.key
  OBVIOUS
<1>3. [row EXCEPT !.key = key] \in [kind : K, status : S, rows : R, key : BOOLEAN]
  OBVIOUS
<1>4. [row EXCEPT !.status = s] \in [kind : K, status : S, rows : R, key : BOOLEAN]
  OBVIOUS
<1>5. [row EXCEPT !.status = s].status = s /\ [row EXCEPT !.status = s].key = row.key
  OBVIOUS
<1> QED
  BY <1>1, <1>2, <1>3, <1>4, <1>5

(* Every step of a run that its request executes preserves it.              *)
LEMMA InlineStep ==
  ASSUME InlineInv, NEW c \in Requester, InlineNext(c)
  PROVE  InlineInv'
<1> DEFINE rowSets == SUBSET UNION {Products[k] : k \in InlineKind}
           kinds == InlineKind \cup {"none"}
           states == {"none", "RUNNING", "SUCCEEDED", "FAILED"}
           Row == [kind : kinds, status : states, rows : rowSets, key : BOOLEAN]
           places == {"away", "working", "answering", "over"}
           Named(rec, pk) == \A d \in Requester : rec[d].key => d \in pk
           Complete(rec) == \A d \in Requester : rec[d].status = "SUCCEEDED" =>
             rec[d].rows = Products[rec[d].kind] /\ (rec[d].kind = "EXPORT" => rec[d].key)
<1>0. InlineRow = Row
  BY DEF InlineRow
<1>1. /\ draft \in [Requester -> Row] /\ recorded \in [Requester -> Row]
      /\ packages \subseteq Requester /\ inline \in [Requester -> places]
      /\ Named(draft, packages) /\ Named(recorded, packages) /\ Complete(recorded)
  BY <1>0 DEF InlineInv, InlineTypeOK, RecordsBacked
<1>2. SUFFICES /\ draft' \in [Requester -> Row] /\ recorded' \in [Requester -> Row]
               /\ packages' \subseteq Requester /\ inline' \in [Requester -> places]
               /\ Named(draft', packages') /\ Named(recorded', packages') /\ Complete(recorded')
  BY <1>0 DEF InlineInv, InlineTypeOK, RecordsBacked
<1>3. draft[c] \in Row /\ "FAILED" \in states /\ "SUCCEEDED" \in states
  BY <1>1
<1> HIDE DEF rowSets, kinds, states
<1>4. ASSUME NEW s \in states, NEW rs \in rowSets, NEW key \in BOOLEAN
      PROVE  /\ draft[c].kind \in kinds /\ draft[c].key \in BOOLEAN
             /\ [draft[c] EXCEPT !.rows = rs] \in Row
             /\ [draft[c] EXCEPT !.rows = rs].key = draft[c].key
             /\ [draft[c] EXCEPT !.key = key] \in Row
             /\ [draft[c] EXCEPT !.status = s] \in Row
             /\ [draft[c] EXCEPT !.status = s].status = s
             /\ [draft[c] EXCEPT !.status = s].key = draft[c].key
  BY <1>3, RowWritten
<1>5. {} \in rowSets
  BY DEF rowSets
<1> HIDE DEF Row, places
<1>6. \A row \in Row : draft' = [draft EXCEPT ![c] = row] =>
         /\ draft' \in [Requester -> Row] /\ draft'[c] = row
         /\ \A d \in Requester : d # c => draft'[d] = draft[d]
  BY <1>1
<1>7. CASE OpenRun(c)
  <2>1. PICK k \in InlineKind : draft' = [draft EXCEPT ![c] = Opened(k)]
    BY <1>7 DEF OpenRun
  <2>2. Opened(k) \in Row /\ ~Opened(k).key
    BY <1>5 DEF Opened, Row, kinds, states
  <2>3. inline' \in [Requester -> places] /\ recorded' = recorded /\ packages' = packages
    BY <1>1, <1>7 DEF OpenRun, places
  <2> QED
    BY <1>1, <1>6, <2>1, <2>2, <2>3
<1>8. CASE AddGraphRows(c)
  <2> DEFINE rs == IF "entities" \in draft[c].rows THEN Products["GRAPH"] ELSE {"entities"}
             row == [draft[c] EXCEPT !.rows = rs]
  <2>1. draft' = [draft EXCEPT ![c] = row] /\ UNCHANGED <<recorded, packages, inline>>
    BY <1>1, <1>8 DEF AddGraphRows
  <2>2. rs \in rowSets
    BY DEF rowSets, Products, InlineKind
  <2>3. row \in Row /\ row.key = draft[c].key
    <3> HIDE DEF rs
    <3> QED
      BY <1>4, <2>2 DEF states
  <2> HIDE DEF row
  <2> QED
    BY <1>1, <1>6, <2>1, <2>3
<1>9. CASE WriteArchive(c)
  BY <1>1, <1>9 DEF WriteArchive
<1>10. CASE WriteImport(c)
  <2> DEFINE row == [draft[c] EXCEPT !.key = TRUE]
  <2>1. /\ draft' = [draft EXCEPT ![c] = row] /\ packages' = packages \cup {c}
        /\ UNCHANGED <<recorded, inline>>
    BY <1>1, <1>10 DEF WriteImport
  <2>2. row \in Row
    BY <1>4, <1>5, <1>3
  <2> HIDE DEF row
  <2> QED
    BY <1>1, <1>6, <2>1, <2>2
<1>11. CASE CommitInline(c)
  <2> DEFINE done == [draft[c] EXCEPT !.status = "SUCCEEDED", !.rows = Products[draft[c].kind],
                                      !.key = @ \/ draft[c].kind = "EXPORT"]
             key == draft[c].key \/ draft[c].kind = "EXPORT"
  <2>1. /\ draft' = [draft EXCEPT ![c] = done] /\ recorded' = [recorded EXCEPT ![c] = done]
        /\ packages' = packages /\ WorkDone(c)
    BY <1>11 DEF CommitInline
  <2>2. inline' \in [Requester -> places]
    BY <1>1, <1>11 DEF CommitInline, places
  <2>3. draft[c].kind \in InlineKind /\ (draft[c].kind = "EXPORT" => c \in packages)
    BY <2>1 DEF WorkDone, Working, InlineKind, Products
  <2>4. Products[draft[c].kind] \in rowSets
    BY <2>3 DEF rowSets
  <2>5. key \in BOOLEAN
    BY <1>4, <1>5, <1>3
  <2>6. done = [draft[c] EXCEPT !.status = "SUCCEEDED", !.rows = Products[draft[c].kind],
                                !.key = key]
    OBVIOUS
  <2> HIDE DEF done
  <2>7. /\ done \in Row /\ done.kind = draft[c].kind /\ done.rows = Products[draft[c].kind]
        /\ done.status = "SUCCEEDED" /\ done.key = key
    <3> DEFINE rs == Products[draft[c].kind]
    <3>1. rs \in rowSets /\ key \in BOOLEAN
      BY <2>4, <2>5
    <3>2. done = [draft[c] EXCEPT !.status = "SUCCEEDED", !.rows = rs, !.key = key]
      BY <2>6
    <3> HIDE DEF rs, key
    <3>3. done \in Row
      BY <1>3, <3>1, <3>2 DEF Row
    <3>4. done.kind = draft[c].kind /\ done.status = "SUCCEEDED"
      BY <1>3, <3>1, <3>2 DEF Row
    <3>5. done.rows = rs /\ done.key = key
      BY <1>3, <3>1, <3>2 DEF Row
    <3> QED
      BY <3>3, <3>4, <3>5 DEF rs
  <2>8. /\ done.kind = "EXPORT" => done.key
        /\ done.key => draft[c].key \/ draft[c].kind = "EXPORT"
    BY <2>7
  <2>9. done.key => c \in packages
    BY <1>1, <2>3, <2>8
  <2>10. /\ recorded' \in [Requester -> Row] /\ recorded'[c] = done
         /\ \A d \in Requester : d # c => recorded'[d] = recorded[d]
    BY <1>1, <2>1, <2>7
  <2>11. Named(draft', packages') /\ Named(recorded', packages')
    BY <1>1, <1>6, <2>1, <2>7, <2>9, <2>10
  <2>12. Complete(recorded')
    BY <1>1, <2>7, <2>8, <2>10
  <2> QED
    BY <1>1, <1>6, <2>1, <2>2, <2>7, <2>10, <2>11, <2>12
<1>12. CASE HandleError(c)
  <2> DEFINE failed == [draft[c] EXCEPT !.status = "FAILED"]
  <2>1. draft' = [draft EXCEPT ![c] = failed]
    BY <1>1, <1>12 DEF HandleError
  <2>2. draft'[c] = failed
    BY <1>1, <2>1
  <2>3. /\ recorded' = [recorded EXCEPT ![c] = failed] /\ packages' = packages
        /\ inline' = [inline EXCEPT ![c] = "over"]
    BY <1>12, <2>2 DEF HandleError
  <2>4. /\ failed \in Row /\ failed.status = "FAILED" /\ failed.key = draft[c].key
    BY <1>3, <1>4, <1>5
  <2> HIDE DEF failed
  <2>5. inline' \in [Requester -> places]
    BY <1>1, <2>3 DEF places
  <2> QED
    BY <1>1, <1>6, <2>1, <2>3, <2>4, <2>5
<1>13. CASE LeaveInline(c)
  <2>1. inline' \in [Requester -> places]
    BY <1>1, <1>13 DEF LeaveInline, places
  <2> QED
    BY <1>1, <1>13, <2>1 DEF LeaveInline
<1> QED
  BY <1>7, <1>8, <1>9, <1>10, <1>11, <1>12, <1>13 DEF InlineNext

-----------------------------------------------------------------------------

(* What nobody could analyse is no vote and no side of a conflict.          *)
LEMMA UnavailableCountsNothing ==
  ASSUME NEW fs, NEW spread \in BOOLEAN
  PROVE  FinalVerdict(fs, spread) = FinalVerdict(Actionable(fs), spread)
<1> DEFINE gs == Actionable(fs)
<1>1. \A s : Seen(gs, s) = Seen(fs, s)
  BY DEF Seen, Actionable
<1>2. Seated(gs) = Seated(fs) /\ \A s : RoleVerdict(gs, s) = RoleVerdict(fs, s)
  BY <1>1 DEF Seated, RoleVerdict
<1>3. \A v : Count(gs, v) = Count(fs, v)
  BY <1>2 DEF Count, Votes
<1>4. SeniorVerdict(gs) = SeniorVerdict(fs)
  BY <1>2, <1>3 DEF SeniorVerdict
<1>5. Suspected(gs) = Suspected(fs) /\ Cleared(gs) = Cleared(fs)
  BY DEF Suspected, Cleared, Actionable, Accusing
<1>6. ModalityConflict(gs) = ModalityConflict(fs) /\ JuryConflict(gs) = JuryConflict(fs)
  BY <1>2, <1>4, <1>5 DEF ModalityConflict, JuryConflict
<1> QED
  BY <1>4, <1>6 DEF FinalVerdict

(* Votes are votes of specialists, and can be counted.                      *)
LEMMA VotesCount ==
  ASSUME NEW fs, NEW v
  PROVE  IsFiniteSet(Votes(fs, v)) /\ Count(fs, v) \in Nat
<1>1. IsFiniteSet(Specialists)
  <2>1. Specialists = ((({{"forensics", "comparison"}} \cup {{"document_ai", "image_ai"}})
                         \cup {{"video_ai", "audio_ai"}}) \cup {{"signature_ai"}})
    BY DEF Specialists
  <2> QED
    BY <2>1, FS_Singleton, FS_Union
<1>2. Votes(fs, v) \subseteq Specialists
  BY DEF Votes, Seated
<1> QED
  BY <1>1, <1>2, FS_Subset, FS_CardinalityType DEF Count

(* More findings never make an item less suspect.                           *)
LEMMA MoreIsWorse ==
  ASSUME NEW gs, NEW fs \in SUBSET gs
  PROVE  Level(SeniorVerdict(fs)) <= Level(SeniorVerdict(gs))
<1> DEFINE pf(hs) == Count(hs, "potential_fraud")
           su(hs) == Count(hs, "suspicious")
<1>1. \A s : Seen(fs, s) \subseteq Seen(gs, s)
  BY DEF Seen, Actionable
<1>2. Votes(fs, "potential_fraud") \subseteq Votes(gs, "potential_fraud")
  BY <1>1 DEF Votes, Seated, RoleVerdict
<1>3. /\ pf(fs) \in Nat /\ pf(gs) \in Nat /\ su(fs) \in Nat /\ su(gs) \in Nat
      /\ pf(fs) <= pf(gs)
  BY <1>2, VotesCount, FS_Subset DEF Count
<1>4. ASSUME pf(gs) = 0 PROVE su(fs) <= su(gs)
  <2>1. Votes(gs, "potential_fraud") = {}
    BY <1>4, VotesCount, FS_EmptySet DEF Count
  <2>2. \A s \in Specialists : "fraud" \notin Seen(gs, s)
    BY <2>1 DEF Votes, Seated, RoleVerdict
  <2>3. Votes(fs, "suspicious") \subseteq Votes(gs, "suspicious")
    BY <1>1, <2>2 DEF Votes, Seated, RoleVerdict
  <2> QED
    BY <2>3, VotesCount, FS_Subset DEF Count
<1>5. \A hs : Seated(hs) = {} => pf(hs) = 0 /\ su(hs) = 0
  <2> SUFFICES ASSUME NEW hs, Seated(hs) = {}
               PROVE  pf(hs) = 0 /\ su(hs) = 0
    OBVIOUS
  <2>1. Votes(hs, "potential_fraud") = {} /\ Votes(hs, "suspicious") = {}
    BY DEF Votes
  <2> QED
    BY <2>1, FS_EmptySet DEF Count
<1>6. \A hs : pf(hs) \in Nat /\ su(hs) \in Nat =>
        Level(SeniorVerdict(hs)) = IF pf(hs) >= 2 THEN 2
                                   ELSE IF pf(hs) = 1 \/ su(hs) >= 2 THEN 1 ELSE 0
  BY <1>5 DEF SeniorVerdict, Level
<1> HIDE DEF pf, su
<1> QED
  BY <1>3, <1>4, <1>6

(* A conflict only takes back a verdict that accuses nobody.                *)
LEMMA ConflictsSpare ==
  ASSUME NEW fs, NEW spread \in BOOLEAN
  PROVE  /\ Level(FinalVerdict(fs, spread)) = Level(SeniorVerdict(fs))
         /\ FinalVerdict(fs, spread) \in FusionVerdict
BY DEF Level, FinalVerdict, SeniorVerdict, FusionVerdict

(* The findings of a modality that is collected; and those that the run at  *)
(* work, or the next one, will have seen at its end if no more are made.    *)
Collectable == {f \in findings : \E i \in 1..Len(Collected) : f.modality = Collected[i]}
Expected ==
  IF collectAt = 0 THEN Collectable
  ELSE gathered \cup {f \in findings : \E i \in collectAt..Len(Collected) :
                                          f.modality = Collected[i]}

(* Why an accusation stands: the verdict never exceeds what the findings    *)
(* a run will have seen give.                                               *)
FusionInv ==
  /\ FusionTypeOK
  /\ gathered \subseteq Collectable
  /\ Level(verdict) <= Level(SeniorVerdict(Expected))

(* No verdict at the start.                                                 *)
LEMMA FusionStarts == FusionInit => FusionInv
<1> SUFFICES ASSUME FusionInit PROVE FusionInv
  OBVIOUS
<1>1. Len(Collected) \in Nat
  BY CollectedAssumption
<1>2. FusionTypeOK /\ gathered \subseteq Collectable
  BY <1>1 DEF FusionInit, FusionTypeOK
<1>3. Level(verdict) = 0 /\ \A v : Level(v) \in Nat
  BY DEF FusionInit, Level
<1> QED
  BY <1>2, <1>3 DEF FusionInv

(* What the invariant promises.                                             *)
LEMMA FusionSafe == FusionInv => FusionTypeOK /\ UnavailableNeutral
BY UnavailableCountsNothing DEF FusionInv, UnavailableNeutral

(* A step lowers no verdict, and keeps what the next run will have seen.    *)
LEMMA FusionStep ==
  ASSUME FusionInv, FusionNext
  PROVE  FusionInv' /\ Level(verdict) <= Level(verdict')
<1>0. /\ findings \subseteq Finding /\ gathered \subseteq Finding
      /\ collectAt \in 0..(Len(Collected) + 1) /\ verdict \in FusionVerdict \cup {"none"}
      /\ gathered \subseteq Collectable
      /\ Level(verdict) <= Level(SeniorVerdict(Expected))
      /\ Len(Collected) \in Nat /\ Collected \in Seq(Modality)
  BY CollectedAssumption DEF FusionInv, FusionTypeOK
<1>1. \A v : Level(v) \in Nat
  BY DEF Level
<1>2. ASSUME FusionTypeOK', gathered' \subseteq Collectable',
             verdict' = verdict, Expected \subseteq Expected'
      PROVE  FusionInv' /\ Level(verdict) <= Level(verdict')
  <2>1. Level(SeniorVerdict(Expected)) <= Level(SeniorVerdict(Expected'))
    BY <1>2, MoreIsWorse
  <2>2. Level(verdict') <= Level(SeniorVerdict(Expected'))
    BY <1>0, <1>1, <1>2, <2>1
  <2> QED
    BY <1>1, <1>2, <2>2 DEF FusionInv
<1>3. ASSUME NEW i \in DOMAIN Collected, PublishFindings(Collected[i])
      PROVE  FusionInv' /\ Level(verdict) <= Level(verdict')
  <2>1. PICK vs \in SUBSET FindingVerdicts(Collected[i]) :
          findings' = findings \cup [modality : {Collected[i]}, verdict : vs]
    BY <1>3 DEF PublishFindings
  <2>2. Collected[i] \in Modality /\ UNCHANGED <<gathered, collectAt, verdict>>
    BY <1>0, <1>3 DEF PublishFindings
  <2>3. findings' \subseteq Finding
    BY <1>0, <2>1, <2>2 DEF Finding
  <2>4. FusionTypeOK'
    BY <1>0, <2>2, <2>3 DEF FusionTypeOK
  <2>5. Collectable \subseteq Collectable' /\ Expected \subseteq Expected'
    BY <2>1, <2>2 DEF Collectable, Expected
  <2> QED
    BY <1>0, <1>2, <2>2, <2>4, <2>5
<1>4. CASE StartFusion
  <2>1. collectAt = 0 /\ collectAt' = 1 /\ gathered' = {} /\ findings' = findings /\ verdict' = verdict
    BY <1>4 DEF StartFusion
  <2>2. FusionTypeOK' /\ gathered' \subseteq Collectable'
    BY <1>0, <2>1 DEF FusionTypeOK
  <2>3. Expected \subseteq Expected'
    BY <2>1 DEF Expected, Collectable
  <2> QED
    BY <1>2, <2>1, <2>2, <2>3
<1>5. CASE CollectModality
  <2> DEFINE j == collectAt
  <2>1. /\ j \in 1..Len(Collected) /\ collectAt' = j + 1 /\ findings' = findings
        /\ gathered' = gathered \cup {f \in findings : f.modality = Collected[j]}
        /\ verdict' = verdict
    BY <1>5 DEF CollectModality
  <2>2. FusionTypeOK' /\ gathered' \subseteq Collectable'
    BY <1>0, <2>1 DEF FusionTypeOK, Collectable
  <2>3. \A i \in j..Len(Collected) : i = j \/ i \in (j + 1)..Len(Collected)
    BY <1>0, <2>1
  <2>4. collectAt # 0 /\ collectAt' # 0
    BY <1>0, <2>1
  <2>5. Expected \subseteq Expected'
    BY <2>1, <2>3, <2>4 DEF Expected
  <2> QED
    BY <1>2, <2>1, <2>2, <2>5
<1>6. CASE Fuse
  <2>1. /\ collectAt = Len(Collected) + 1 /\ collectAt' = 0 /\ UNCHANGED <<findings, gathered>>
        /\ \E spread \in BOOLEAN : verdict' = FinalVerdict(gathered, spread)
    BY <1>6 DEF Fuse
  <2>2. Level(verdict') = Level(SeniorVerdict(gathered)) /\ verdict' \in FusionVerdict
    BY <2>1, ConflictsSpare
  <2>3. ~\E i \in collectAt..Len(Collected) : TRUE
    BY <1>0, <2>1
  <2>4. collectAt # 0
    BY <1>0, <2>1
  <2>5. Expected = gathered /\ Expected' = Collectable'
    BY <2>1, <2>3, <2>4 DEF Expected
  <2>6. Level(verdict) <= Level(verdict')
    BY <1>0, <2>2, <2>5
  <2>7. gathered \subseteq Collectable' /\ Collectable' = Collectable
    BY <1>0, <2>1 DEF Collectable
  <2>8. Level(verdict') <= Level(SeniorVerdict(Expected'))
    BY <2>2, <2>5, <2>7, MoreIsWorse
  <2>9. FusionTypeOK'
    BY <1>0, <2>1, <2>2 DEF FusionTypeOK
  <2> QED
    BY <2>1, <2>6, <2>7, <2>8, <2>9 DEF FusionInv
<1>7. CASE AbandonFusion
  <2>1. collectAt # 0 /\ collectAt' = 0 /\ UNCHANGED <<findings, gathered, verdict>>
    BY <1>7 DEF AbandonFusion
  <2>2. FusionTypeOK' /\ gathered' \subseteq Collectable'
    BY <1>0, <2>1 DEF FusionTypeOK, Collectable
  <2>3. collectAt..Len(Collected) \subseteq 1..Len(Collected)
    BY <1>0, <2>1
  <2>4. Expected \subseteq Expected'
    BY <1>0, <2>1, <2>3 DEF Expected, Collectable
  <2> QED
    BY <1>2, <2>1, <2>2, <2>4
<1> QED
  BY <1>3, <1>4, <1>5, <1>6, <1>7 DEF FusionNext

-----------------------------------------------------------------------------
(* Why the stage of a case review is never ahead of the decisions on record,*)
(* and why a rejection stands when requests do not overtake each other.     *)

(* What the approvals in rows must contain for a run to be at stage s.      *)
Earned(s, rows) ==
  /\ s = "APPROVED" => \A r \in ApproverRole : [role |-> r, decision |-> "APPROVED"] \in rows
  /\ s \in {"REJECTED", "CHANGES_REQUESTED"} => s \in DecisionsIn(rows)

(* A stage that was computed has been earned by what is committed and what  *)
(* its request adds; a request that nobody overtook knows the stage, and    *)
(* computed REJECTED if there is a rejection.                               *)
ReviewInv ==
  /\ ReviewTypeOK
  /\ Earned(stage, approvals)
  /\ \A c \in Requester : deciding[c].at = "ready" =>
       /\ Earned(deciding[c].next, approvals \cup deciding[c].adds)
       /\ c \notin reviewLate /\ "REJECTED" \in DecisionsIn(approvals \cup deciding[c].adds)
            => deciding[c].next = "REJECTED"
  /\ \A c \in Requester \ reviewLate :
       deciding[c].at # "away" => deciding[c].loaded = stage

(* More approvals earn no less.                                             *)
LEMMA EarnedMonotone ==
  ASSUME NEW s, NEW rows, NEW more, rows \subseteq more, Earned(s, rows)
  PROVE  Earned(s, more)
BY DEF Earned, DecisionsIn

(* What infer_stage computes is a stage, and one that the rows earn.        *)
LEMMA InferredIsEarned ==
  ASSUME NEW rows \in SUBSET Approval, NEW b \in BOOLEAN, NEW o \in BOOLEAN
  PROVE  /\ InferStage(rows, b, o) \in ReviewStage
         /\ Earned(InferStage(rows, b, o), rows)
         /\ "REJECTED" \in DecisionsIn(rows) => InferStage(rows, b, o) = "REJECTED"
<1>1. InferStage(rows, b, o) \in ReviewStage
  BY DEF InferStage, ReviewStage
<1>2. ASSUME InferStage(rows, b, o) = "APPROVED", NEW r \in ApproverRole
      PROVE  [role |-> r, decision |-> "APPROVED"] \in rows
  <2>1. r \in ApprovedRoles(rows)
    BY <1>2 DEF InferStage, AllApproved
  <2>2. PICK x \in rows : x.decision = "APPROVED" /\ x.role = r
    BY <2>1 DEF ApprovedRoles
  <2> QED
    BY <2>2 DEF Approval
<1>3. InferStage(rows, b, o) \in {"REJECTED", "CHANGES_REQUESTED"}
        => InferStage(rows, b, o) \in DecisionsIn(rows)
  BY DEF InferStage
<1>4. "REJECTED" \in DecisionsIn(rows) => InferStage(rows, b, o) = "REJECTED"
  BY DEF InferStage
<1> QED
  BY <1>1, <1>2, <1>3, <1>4 DEF Earned

(* No approvals and no stage at the start.                                  *)
LEMMA ReviewStarts == ReviewInit => ReviewInv
<1> SUFFICES ASSUME ReviewInit PROVE ReviewInv
  OBVIOUS
<1>1. ReviewTypeOK
  BY DEF ReviewInit, ReviewTypeOK, NotDeciding, Deciding
<1>2. \A c \in Requester : deciding[c].at = "away"
  BY DEF ReviewInit, NotDeciding
<1> QED
  BY <1>1, <1>2 DEF ReviewInit, ReviewInv, Earned

(* The invariant gives the property.                                        *)
LEMMA ReviewEarned == ReviewInv => ReviewTypeOK /\ StageEarned
BY DEF ReviewInv, StageEarned, Earned

-----------------------------------------------------------------------------
(* Every step of a request keeps the invariant, and a decision that nobody  *)
(* overtakes leaves a rejected run rejected.                                *)
LEMMA ReviewStep ==
  ASSUME ReviewInv, NEW c \in Requester, CaseReviewNext(c), ReviewOvertakes
  PROVE  /\ ReviewInv'
         /\ \A d \in Requester \ reviewLate :
              /\ deciding[d].at = "ready" /\ deciding'[d].at = "away"
              /\ "REJECTED" \in DecisionsIn(approvals')
              => stage' = "REJECTED"
<1>0. ReviewTypeOK /\ Earned(stage, approvals)
  BY DEF ReviewInv
<1>1. /\ approvals \subseteq Approval /\ stage \in ReviewStage \cup {"none"}
      /\ deciding \in [Requester -> Deciding]
  BY <1>0 DEF ReviewTypeOK
<1>2. reviewLate' \subseteq Requester
  BY DEF ReviewOvertakes
<1>3. ASSUME NEW d \in Requester \ reviewLate', deciding'[d].at # "away"
      PROVE  d \notin reviewLate /\ approvals' = approvals /\ stage' = stage
  BY <1>3 DEF ReviewOvertakes
<1>4. CASE Generate(c)
  <2>1. /\ approvals' = approvals /\ deciding' = deciding /\ stage = "none"
        /\ stage' \in ReviewStage /\ Earned(stage', approvals')
    <3>1. PICK b \in BOOLEAN, o \in BOOLEAN : stage' = InferStage({}, b, o)
      BY <1>4 DEF Generate
    <3>2. stage' \in ReviewStage /\ Earned(stage', {})
      BY <3>1, InferredIsEarned
    <3> QED
      BY <1>4, <3>2, EarnedMonotone DEF Generate
  <2>2. ReviewTypeOK'
    BY <1>1, <1>2, <2>1 DEF ReviewTypeOK
  <2>3. ASSUME NEW d \in Requester
        PROVE  /\ deciding'[d].at = "ready" =>
                    /\ Earned(deciding'[d].next, approvals' \cup deciding'[d].adds)
                    /\ d \notin reviewLate' /\ "REJECTED" \in DecisionsIn(approvals' \cup deciding'[d].adds)
                         => deciding'[d].next = "REJECTED"
               /\ d \notin reviewLate' /\ deciding'[d].at # "away" => deciding'[d].loaded = stage'
    BY <1>3, <2>1 DEF ReviewInv
  <2> QED
    BY <2>1, <2>2, <2>3 DEF ReviewInv
<1>5. ASSUME NEW adds \in SUBSET Approval, LoadRun(c, adds)
      PROVE  ReviewInv' /\ deciding'[c].at = "loaded"
             /\ \A d \in Requester \ {c} : deciding'[d] = deciding[d]
  <2>1. /\ approvals' = approvals /\ stage' = stage
        /\ deciding' = [deciding EXCEPT ![c] =
             [at |-> "loaded", adds |-> adds, loaded |-> stage, next |-> "none"]]
    BY <1>5 DEF LoadRun
  <2>2. ReviewTypeOK'
    BY <1>1, <1>2, <2>1 DEF ReviewTypeOK, Deciding
  <2>3. deciding'[c] = [at |-> "loaded", adds |-> adds, loaded |-> stage, next |-> "none"]
    BY <1>1, <2>1
  <2>4. \A d \in Requester \ {c} : deciding'[d] = deciding[d]
    BY <1>1, <2>1
  <2>5. ASSUME NEW d \in Requester
        PROVE  /\ deciding'[d].at = "ready" =>
                    /\ Earned(deciding'[d].next, approvals' \cup deciding'[d].adds)
                    /\ d \notin reviewLate' /\ "REJECTED" \in DecisionsIn(approvals' \cup deciding'[d].adds)
                         => deciding'[d].next = "REJECTED"
               /\ d \notin reviewLate' /\ deciding'[d].at # "away" => deciding'[d].loaded = stage'
    <3>1. CASE d = c
      BY <2>1, <2>3, <3>1
    <3>2. CASE d # c
      BY <1>3, <2>1, <2>4, <3>2 DEF ReviewInv
    <3> QED
      BY <3>1, <3>2
  <2>6. ReviewInv'
    BY <1>0, <2>1, <2>2, <2>5 DEF ReviewInv
  <2> QED
    BY <2>3, <2>4, <2>6
<1>6. CASE RecomputeStage(c)
  <2>1. PICK b \in BOOLEAN, o \in BOOLEAN :
          deciding' = [deciding EXCEPT ![c].at = "ready",
            ![c].next = InferStage(approvals \cup deciding[c].adds, b, o)]
    BY <1>6 DEF RecomputeStage
  <2>2. approvals' = approvals /\ stage' = stage
    BY <1>6 DEF RecomputeStage
  <2> DEFINE rows == approvals \cup deciding[c].adds
  <2>3. rows \in SUBSET Approval
    BY <1>1 DEF Deciding
  <2>4. /\ InferStage(rows, b, o) \in ReviewStage
        /\ Earned(InferStage(rows, b, o), rows)
        /\ "REJECTED" \in DecisionsIn(rows) => InferStage(rows, b, o) = "REJECTED"
    BY <2>3, InferredIsEarned
  <2>5. deciding'[c] = [deciding[c] EXCEPT !.at = "ready", !.next = InferStage(rows, b, o)]
    BY <1>1, <2>1
  <2>6. \A d \in Requester \ {c} : deciding'[d] = deciding[d]
    BY <1>1, <2>1
  <2>7. /\ deciding'[c] \in Deciding /\ deciding'[c].adds = deciding[c].adds
        /\ deciding'[c].next = InferStage(rows, b, o) /\ deciding'[c].loaded = deciding[c].loaded
        /\ deciding[c].at = "loaded"
    <3> HIDE DEF rows
    <3> QED
      BY <1>1, <1>6, <2>4, <2>5 DEF Deciding, RecomputeStage
  <2>8. ReviewTypeOK'
    <3>1. deciding' \in [Requester -> Deciding]
      BY <1>1, <2>1, <2>6, <2>7
    <3> QED
      BY <1>1, <1>2, <2>2, <3>1 DEF ReviewTypeOK
  <2>9. ASSUME NEW d \in Requester
        PROVE  /\ deciding'[d].at = "ready" =>
                    /\ Earned(deciding'[d].next, approvals' \cup deciding'[d].adds)
                    /\ d \notin reviewLate' /\ "REJECTED" \in DecisionsIn(approvals' \cup deciding'[d].adds)
                         => deciding'[d].next = "REJECTED"
               /\ d \notin reviewLate' /\ deciding'[d].at # "away" => deciding'[d].loaded = stage'
    <3>1. CASE d = c
      BY <1>3, <2>2, <2>4, <2>7, <3>1 DEF ReviewInv
    <3>2. CASE d # c
      BY <1>3, <2>2, <2>6, <3>2 DEF ReviewInv
    <3> QED
      BY <3>1, <3>2
  <2>10. \A d \in Requester : deciding[d].at = "ready" => deciding'[d].at = "ready"
    BY <2>5, <2>6, <2>7
  <2> QED
    BY <1>0, <2>2, <2>8, <2>9, <2>10 DEF ReviewInv
<1>7. CASE CommitDecision(c)
  <2>1. /\ deciding[c].at = "ready"
        /\ approvals' = approvals \cup deciding[c].adds
        /\ stage' = Column(stage, deciding[c].loaded, deciding[c].next)
        /\ deciding' = [deciding EXCEPT ![c] = NotDeciding]
    BY <1>7 DEF CommitDecision
  <2>2. /\ deciding[c].adds \in SUBSET Approval /\ deciding[c].next \in ReviewStage \cup {"none"}
    BY <1>1 DEF Deciding
  <2>3. deciding'[c].at = "away" /\ \A d \in Requester \ {c} : deciding'[d] = deciding[d]
    BY <1>1, <2>1 DEF NotDeciding
  <2>4. stage' = stage \/ stage' = deciding[c].next
    BY <2>1 DEF Column
  <2>5. ReviewTypeOK'
    <3>1. deciding' \in [Requester -> Deciding]
      BY <1>1, <2>1 DEF NotDeciding, Deciding
    <3> QED
      BY <1>1, <1>2, <2>1, <2>2, <2>4, <3>1 DEF ReviewTypeOK
  <2>6. Earned(stage', approvals')
    <3>1. Earned(stage, approvals') /\ Earned(deciding[c].next, approvals')
      BY <1>0, <2>1, EarnedMonotone DEF ReviewInv
    <3> QED
      BY <2>4, <3>1
  <2>7. ASSUME NEW d \in Requester
        PROVE  /\ deciding'[d].at = "ready" =>
                    /\ Earned(deciding'[d].next, approvals' \cup deciding'[d].adds)
                    /\ d \notin reviewLate' /\ "REJECTED" \in DecisionsIn(approvals' \cup deciding'[d].adds)
                         => deciding'[d].next = "REJECTED"
               /\ d \notin reviewLate' /\ deciding'[d].at # "away" => deciding'[d].loaded = stage'
    <3>1. CASE d = c
      BY <2>3, <3>1
    <3>2. CASE d # c
      <4>1. deciding'[d] = deciding[d]
        BY <2>3, <3>2
      <4>2. deciding[d].at = "ready" =>
              Earned(deciding[d].next, approvals' \cup deciding[d].adds)
        <5>1. approvals \cup deciding[d].adds \subseteq approvals' \cup deciding[d].adds
          BY <2>1
        <5>2. deciding[d].at = "ready" => Earned(deciding[d].next, approvals \cup deciding[d].adds)
          BY DEF ReviewInv
        <5> QED
          BY <5>1, <5>2, EarnedMonotone
      <4> QED
        BY <1>3, <4>1, <4>2 DEF ReviewInv
    <3> QED
      BY <3>1, <3>2
  <2>8. ASSUME NEW d \in Requester \ reviewLate, deciding[d].at = "ready",
               deciding'[d].at = "away", "REJECTED" \in DecisionsIn(approvals')
        PROVE  stage' = "REJECTED"
    <3>1. d = c
      BY <2>3, <2>8
    <3>2. deciding[c].next = "REJECTED" /\ deciding[c].loaded = stage
      BY <2>1, <2>8, <3>1 DEF ReviewInv
    <3> QED
      BY <2>1, <3>2 DEF Column
  <2> QED
    BY <2>5, <2>6, <2>7, <2>8 DEF ReviewInv
<1>8. CASE RecordApproval(c) \/ UpdateChecklistItem(c)
  <2>1. PICK adds \in SUBSET Approval : LoadRun(c, adds)
    BY <1>8 DEF RecordApproval, UpdateChecklistItem
  <2>2. ReviewInv' /\ deciding'[c].at = "loaded"
        /\ \A d \in Requester \ {c} : deciding'[d] = deciding[d]
    BY <1>5, <2>1
  <2> QED
    BY <2>2
<1> QED
  BY <1>4, <1>6, <1>7, <1>8 DEF CaseReviewNext
=============================================================================
