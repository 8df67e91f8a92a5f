------------------------ MODULE EvidenceIngestProofs ------------------------
(***************************************************************************)
(* Safety of EvidenceIngest for every set of uploads and contents, every   *)
(* bound on numbers and, except for OriginalPreserved and AnswerTrue, with *)
(* or without lost commit answers.                                         *)
(***************************************************************************)
EXTENDS EvidenceIngest, TLAPS

(* Every step keeps every variable within its type.                         *)
LEMMA IngestType == TypeOK /\ [Next]_vars => TypeOK'
  <1> SUFFICES ASSUME TypeOK, [Next]_vars PROVE TypeOK'
    OBVIOUS
  <1> USE DEF TypeOK, Goto, database, storage, locals
  <1>1. CASE UNCHANGED vars
    BY <1>1 DEF vars
  <1>2. ASSUME NEW u \in Upload, Ingest(u) \/ Crash(u) PROVE TypeOK'
    <2>1. CASE Stage(u)
      BY <2>1 DEF Stage, Place
    <2>2. CASE CheckDuplicate(u)
      BY <2>2 DEF CheckDuplicate, Place
    <2>3. CASE AllocateNumber(u)
      <3>1. PICK n \in Number :
              /\ NextNumber(n)
              /\ number' = [number EXCEPT ![u] = n]
              /\ sequence' = IF dialect = "postgresql" THEN n ELSE sequence
        BY <2>3 DEF AllocateNumber
      <3>2. n # 0
        BY <3>1, IngestMaxNumberAssumption DEF NextNumber, AfterNewest, FirstNumber, Number, Row
      <3> QED
        BY <2>3, <3>1, <3>2 DEF AllocateNumber, Place
    <2>4. CASE CommitObject(u)
      BY <2>4 DEF CommitObject, Place
    <2>5. CASE Register(u)
      BY <2>5 DEF Register, Place, Row
    <2>6. CASE Raise(u)
      BY <2>6 DEF Raise, Place
    <2>7. CASE CleanTemp(u)
      BY <2>7 DEF CleanTemp, Place
    <2>8. CASE CleanFinal(u)
      BY <2>8 DEF CleanFinal, Place
    <2>9. CASE Crash(u)
      BY <2>9 DEF Crash, Place
    <2> QED
      BY <1>2, <2>1, <2>2, <2>3, <2>4, <2>5, <2>6, <2>7, <2>8, <2>9 DEF Ingest
  <1> QED
    BY <1>1, <1>2 DEF Next

(* The types are an invariant: a number stays within its bound.             *)
THEOREM IngestTypeCorrect == Spec => []TypeOK
  <1>1. Init => TypeOK
    BY IngestMaxNumberAssumption DEF Init, TypeOK, Number, Place
  <1> QED
    BY <1>1, IngestType, PTL DEF Spec

-----------------------------------------------------------------------------

(* Every step but Register leaves the rows alone, and Register adds one     *)
(* that the constraints of the table allow.                                 *)
LEMMA RowsStep ==
  ASSUME TypeOK, [Next]_vars
  PROVE  \/ UNCHANGED rows
         \/ \E u \in Upload :
              /\ ConstraintsAllow(u)
              /\ rows' = rows \cup {[upload |-> u, content |-> content[u],
                                     number |-> number[u]]}
  <1> USE DEF database
  <1>1. CASE UNCHANGED vars
    BY <1>1 DEF vars
  <1>2. ASSUME NEW u \in Upload, Register(u)
        PROVE  /\ ConstraintsAllow(u)
               /\ rows' = rows \cup {[upload |-> u, content |-> content[u],
                                      number |-> number[u]]}
    BY <1>2 DEF Register
  <1>3. ASSUME NEW u \in Upload, Ingest(u) \/ Crash(u), ~Register(u) PROVE UNCHANGED rows
    BY <1>3 DEF Ingest, Crash, Stage, CheckDuplicate, AllocateNumber, CommitObject,
       Raise, CleanTemp, CleanFinal
  <1> QED
    BY <1>1, <1>2, <1>3 DEF Next

(* No two rows share bytes or number, however many checks of get_by_hash    *)
(* were passed together: the constraints decide, not the checks.            *)
THEOREM RowsAreDistinct == Spec => []RowsDistinct
  <1>1. Init => RowsDistinct
    BY DEF Init, RowsDistinct
  <1>2. TypeOK /\ RowsDistinct /\ [Next]_vars => RowsDistinct'
    <2> SUFFICES ASSUME TypeOK, RowsDistinct, [Next]_vars PROVE RowsDistinct'
      OBVIOUS
    <2>1. CASE UNCHANGED rows
      BY <2>1 DEF RowsDistinct
    <2>2. ASSUME NEW u \in Upload, ConstraintsAllow(u),
                 rows' = rows \cup {[upload |-> u, content |-> content[u],
                                     number |-> number[u]]}
          PROVE  RowsDistinct'
      BY <2>2 DEF RowsDistinct, ConstraintsAllow
    <2> QED
      BY <2>1, <2>2, RowsStep
  <1> QED
    BY <1>1, <1>2, IngestTypeCorrect, PTL DEF Spec

-----------------------------------------------------------------------------

(* What makes an original safe: a call that linked its object still has it, *)
(* and a row belongs to a call that knows it registered it and is past the  *)
(* transaction, for which MustCleanFinal is false.                          *)
RowsKnown ==
  /\ \A u \in Upload : at[u] = "linked" => u \in final
  /\ \A r \in rows :
       /\ r.upload \in registered
       /\ at[r.upload] \in {"cleanTemp", "cleanFinal", "answered", "dead"}

(* While commit answers arrive, no step takes the object or the event of a  *)
(* row away.                                                                *)
LEMMA OriginalStep ==
  ASSUME AckLoss = FALSE, TypeOK, RowsKnown, OriginalPreserved, [Next]_vars
  PROVE  RowsKnown' /\ OriginalPreserved'
  <1> USE DEF TypeOK, RowsKnown, OriginalPreserved, Row, Goto, database, storage, locals
  <1>1. CASE UNCHANGED vars
    BY <1>1 DEF vars
  <1>2. ASSUME NEW u \in Upload, Ingest(u) \/ Crash(u)
        PROVE  RowsKnown' /\ OriginalPreserved'
    <2>1. CASE Stage(u)
      BY <2>1 DEF Stage
    <2>2. CASE CheckDuplicate(u)
      BY <2>2 DEF CheckDuplicate
    <2>3. CASE AllocateNumber(u)
      BY <2>3 DEF AllocateNumber
    <2>4. CASE CommitObject(u)
      BY <2>4 DEF CommitObject
    <2>5. CASE Register(u)
      <3>1. \A r \in rows' : r \in rows \/ r.upload = u
        BY <2>5 DEF Register
      <3>2. u \in final' /\ u \in ingested' /\ u \in registered' /\ at'[u] = "cleanTemp"
        BY <2>5 DEF Register
      <3>3. /\ final' = final /\ ingested \subseteq ingested' /\ registered \subseteq registered'
            /\ \A v \in Upload : v # u => at'[v] = at[v]
        BY <2>5 DEF Register
      <3>4. \A r \in rows : r.upload \in Upload /\ r.upload # u
        BY <2>5 DEF Register
      <3> QED
        BY <3>1, <3>2, <3>3, <3>4
    <2>6. CASE Raise(u)
      BY <2>6 DEF Raise
    <2>7. CASE CleanTemp(u)
      BY <2>7 DEF CleanTemp
    <2>8. CASE CleanFinal(u)
      BY <2>8 DEF CleanFinal, MustCleanFinal
    <2>9. CASE Crash(u)
      BY <2>9 DEF Crash
    <2> QED
      BY <1>2, <2>1, <2>2, <2>3, <2>4, <2>5, <2>6, <2>7, <2>8, <2>9 DEF Ingest
  <1> QED
    BY <1>1, <1>2 DEF Next

(* Registered originals are preserved as long as the answer to a commit is  *)
(* not lost: with ingest_ack_lost, the exact condition.                     *)
THEOREM OriginalsArePreserved ==
  ASSUME AckLoss = FALSE
  PROVE  Spec => []OriginalPreserved
  <1>1. Init => RowsKnown /\ OriginalPreserved
    BY DEF Init, RowsKnown, OriginalPreserved
  <1>2. TypeOK /\ RowsKnown /\ OriginalPreserved /\ [Next]_vars
          => RowsKnown' /\ OriginalPreserved'
    BY OriginalStep
  <1> QED
    BY <1>1, <1>2, IngestTypeCorrect, PTL DEF Spec

-----------------------------------------------------------------------------

(* The sequence is never behind a number that was taken from it.            *)
SequenceAhead ==
  dialect = "postgresql" => \A u \in Upload : number[u] <= sequence

(* Only AllocateNumber changes what the numbers of calls are.               *)
LEMMA NumberStep ==
  ASSUME TypeOK, SequenceAhead, NumbersDistinct, [Next]_vars
  PROVE  SequenceAhead' /\ NumbersDistinct'
  <1> USE DEF TypeOK, Number
  <1>1. CASE UNCHANGED <<dialect, sequence, number>>
    BY <1>1 DEF SequenceAhead, NumbersDistinct
  <1>2. ASSUME NEW u \in Upload, AllocateNumber(u) PROVE SequenceAhead' /\ NumbersDistinct'
    <2>1. CASE dialect = "postgresql"
      <3>1. /\ number' = [number EXCEPT ![u] = sequence + 1]
            /\ sequence' = sequence + 1
            /\ dialect' = dialect
        BY <1>2, <2>1 DEF AllocateNumber, NextNumber
      <3>2. \A v \in Upload : number[v] < sequence + 1
        BY <2>1, IngestMaxNumberAssumption DEF SequenceAhead
      <3> QED
        BY <2>1, <3>1, <3>2, IngestMaxNumberAssumption DEF SequenceAhead, NumbersDistinct
    <2>2. CASE dialect # "postgresql"
      BY <1>2, <2>2 DEF AllocateNumber, SequenceAhead, NumbersDistinct
    <2> QED
      BY <2>1, <2>2
  <1>3. ASSUME NEW u \in Upload, Ingest(u) \/ Crash(u), ~AllocateNumber(u)
        PROVE  UNCHANGED <<dialect, sequence, number>>
    BY <1>3 DEF Ingest, Crash, Stage, CheckDuplicate, CommitObject, Register, Raise,
       CleanTemp, CleanFinal, database, locals
  <1>4. CASE UNCHANGED vars
    BY <1>1, <1>4 DEF vars, database, locals
  <1> QED
    BY <1>1, <1>2, <1>3, <1>4 DEF Next

(* With a sequence no two uploads hold the same number, so the constraint   *)
(* on numbers never refuses an upload; without one it is all there is.      *)
THEOREM NumbersAreDistinct == Spec => []NumbersDistinct
  <1>1. Init => SequenceAhead /\ NumbersDistinct
    BY DEF Init, SequenceAhead, NumbersDistinct
  <1>2. TypeOK /\ SequenceAhead /\ NumbersDistinct /\ [Next]_vars
          => SequenceAhead' /\ NumbersDistinct'
    BY NumberStep
  <1> QED
    BY <1>1, <1>2, IngestTypeCorrect, PTL DEF Spec
-----------------------------------------------------------------------------

(* What makes an answer true: a call knows it is registered exactly when it *)
(* has a row, nothing is registered before its object is linked, an object  *)
(* under a final key belongs to a call that has its number, so that finally *)
(* looks for it, and each clean-up is over when the next place is reached.  *)
CallTruthful(u) ==
  /\ u \in registered <=> \E r \in rows : r.upload = u
  /\ at[u] \in {"start", "hashed", "fresh", "numbered", "linked"} => u \notin registered
  /\ u \in final => number[u] # 0
  /\ at[u] \in {"cleanFinal", "answered"} /\ u \in temp => <<u, "temp">> \in errors
  /\ at[u] = "answered" /\ u \in final => u \in registered \/ <<u, "final">> \in errors

(* A step of one upload leaves what the others are told as it is.           *)
LEMMA OtherCalls ==
  ASSUME TypeOK, NEW u \in Upload, Ingest(u) \/ Crash(u), NEW v \in Upload, v # u,
         CallTruthful(v)
  PROVE  CallTruthful(v)'
  <1> USE DEF TypeOK, Goto, database, storage, locals
  <1>1. /\ at'[v] = at[v] /\ number'[v] = number[v]
        /\ v \in registered' <=> v \in registered
        /\ v \in temp' <=> v \in temp
        /\ v \in final' <=> v \in final
        /\ errors \subseteq errors'
    BY DEF Ingest, Crash, Stage, CheckDuplicate, AllocateNumber, CommitObject, Register,
       Raise, CleanTemp, CleanFinal
  <1>2. (\E r \in rows' : r.upload = v) <=> \E r \in rows : r.upload = v
    <2>1. CASE UNCHANGED rows
      BY <2>1
    <2>2. CASE Register(u)
      BY <2>2 DEF Register
    <2> QED
      BY <2>1, <2>2 DEF Ingest, Crash, Stage, CheckDuplicate, AllocateNumber,
         CommitObject, Raise, CleanTemp, CleanFinal
  <1> QED
    BY <1>1, <1>2 DEF CallTruthful

(* While commit answers arrive, a step of an upload keeps what it is told   *)
(* true.                                                                    *)
LEMMA OwnCall ==
  ASSUME AckLoss = FALSE, TypeOK, NEW u \in Upload, Ingest(u) \/ Crash(u), CallTruthful(u)
  PROVE  CallTruthful(u)'
  <1> USE DEF TypeOK, Goto, database, storage, locals, CallTruthful
  <1>1. CASE Stage(u)
    BY <1>1 DEF Stage
  <1>2. CASE CheckDuplicate(u)
    BY <1>2 DEF CheckDuplicate
  <1>3. CASE AllocateNumber(u)
    <2>1. PICK n \in Number : NextNumber(n) /\ number' = [number EXCEPT ![u] = n]
      BY <1>3 DEF AllocateNumber
    <2>2. n # 0
      BY <2>1, IngestMaxNumberAssumption DEF NextNumber, AfterNewest, FirstNumber, Number, Row
    <2> QED
      BY <1>3, <2>1, <2>2 DEF AllocateNumber
  <1>4. CASE CommitObject(u)
    BY <1>4 DEF CommitObject
  <1>5. CASE Register(u)
    <2> DEFINE row == [upload |-> u, content |-> content[u], number |-> number[u]]
    <2>1. /\ u \in registered' /\ at'[u] = "cleanTemp"
          /\ number' = number /\ final' = final
      BY <1>5 DEF Register
    <2>2. row \in rows' /\ row.upload = u
      BY <1>5 DEF Register
    <2> QED
      BY <2>1, <2>2
  <1>6. CASE Raise(u)
    BY <1>6 DEF Raise
  <1>7. CASE CleanTemp(u)
    BY <1>7 DEF CleanTemp
  <1>8. CASE CleanFinal(u)
    BY <1>8 DEF CleanFinal, MustCleanFinal
  <1>9. CASE Crash(u)
    BY <1>9 DEF Crash
  <1> QED
    BY <1>1, <1>2, <1>3, <1>4, <1>5, <1>6, <1>7, <1>8, <1>9 DEF Ingest

(* While commit answers arrive, what an upload is answered is true: success *)
(* means a row, an error means no row and no object that is not in the log. *)
THEOREM AnswersAreTrue ==
  ASSUME AckLoss = FALSE
  PROVE  Spec => []AnswerTrue
  <1> DEFINE Truthful == \A u \in Upload : CallTruthful(u)
  <1>1. Init => Truthful
    BY DEF Init, CallTruthful
  <1>2. TypeOK /\ Truthful /\ [Next]_vars => Truthful'
    <2> SUFFICES ASSUME TypeOK, Truthful, [Next]_vars, NEW v \in Upload
                 PROVE  CallTruthful(v)'
      OBVIOUS
    <2>1. ASSUME NEW u \in Upload, Ingest(u) \/ Crash(u)
          PROVE  CallTruthful(v)'
      BY <2>1, OtherCalls, OwnCall
    <2>2. CASE UNCHANGED vars
      BY <2>2 DEF vars, database, storage, locals, CallTruthful
    <2> QED
      BY <2>1, <2>2 DEF Next
  <1>3. Truthful => AnswerTrue
    BY DEF CallTruthful, AnswerTrue, RowsOf
  <1> QED
    BY <1>1, <1>2, <1>3, IngestTypeCorrect, PTL DEF Spec
=============================================================================
