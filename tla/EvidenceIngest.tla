--------------------------- MODULE EvidenceIngest ---------------------------
(***************************************************************************)
(* EvidenceIngestionService.ingest over LocalStorage: concurrent uploads   *)
(* stage their bytes, link them under their final key, and register the    *)
(* evidence row with its EVIDENCE_INGESTED event in one transaction.  What *)
(* storage holds and what the database holds are kept together by the      *)
(* order of the steps and by the clean-up in ingest's finally clause.      *)
(***************************************************************************)
EXTENDS Naturals

CONSTANTS
  Upload,    \* uploads ever made; an upload is also the id of its evidence
  Content,   \* what can be uploaded: a case and the bytes' SHA-256
  MaxNumber, \* bound: evidence numbers ever allocated
  AckLoss    \* TRUE iff the answer to a COMMIT may be lost

ASSUME IngestMaxNumberAssumption == MaxNumber \in Nat
ASSUME IngestAckLossAssumption == AckLoss \in BOOLEAN

VARIABLES
  dialect,  \* the database: only PostgreSQL has a sequence of numbers
  sequence, \* the last value of evidence_number_seq
  rows,     \* the evidence table
  ingested, \* the uploads with an EVIDENCE_INGESTED event
  temp,     \* the uploads whose staged object exists
  final,    \* the uploads whose object exists under its final key
  errors,   \* the objects whose clean-up was logged as failed
  at,       \* where each call of ingest is, and its local variables:
  content,    \* the case it was made for and the hash of its bytes
  number,     \* the evidence number it was given, 0 while final_key is None
  registered  \* the calls whose registered is True

database == <<dialect, sequence, rows, ingested>>
storage == <<temp, final, errors>>
locals == <<content, number, registered>>
vars == <<database, storage, at, locals>>

Place == {"start", "hashed", "fresh", "numbered", "linked", "cleanTemp",
          "cleanFinal", "answered", "dead"}

Number == 0..MaxNumber
Row == [upload : Upload, content : Content, number : Number \ {0}]

Init ==
  /\ dialect \in {"postgresql", "sqlite"}
  /\ sequence = 0
  /\ rows = {}
  /\ ingested = {}
  /\ temp = {}
  /\ final = {}
  /\ errors = {}
  /\ at = [u \in Upload |-> "start"]
  /\ content \in [Upload -> Content]
  /\ number = [u \in Upload |-> 0]
  /\ registered = {}

Goto(u, place) == at' = [at EXCEPT ![u] = place]

-----------------------------------------------------------------------------
(* The body of the try block *)

(* save_stream, the checks of size and content, and the hash.  A staged     *)
(* object that was written only in part is unlinked, or left to finally.    *)
Stage(u) ==
  /\ at[u] = "start"
  /\ \/ temp' = temp \cup {u} /\ (Goto(u, "hashed") \/ Goto(u, "cleanTemp"))
     \/ UNCHANGED temp /\ Goto(u, "cleanTemp")
  /\ UNCHANGED <<database, final, errors, locals>>

(* get_by_hash *)
CheckDuplicate(u) ==
  /\ at[u] = "hashed"
  /\ Goto(u, IF \E r \in rows : r.content = content[u]
               THEN "cleanTemp" ELSE "fresh")
  /\ UNCHANGED <<database, storage, locals>>

(* next_evidence_number: nextval, which no rollback takes back, or one more *)
(* than the greatest number of a row.                                       *)
FromZeroM == 0
FirstNumber == 1
AfterNewest(n) ==
  /\ \A r \in rows : r.number < n
  /\ n = FirstNumber \/ \E r \in rows : n = r.number + 1
NextNumber(n) == IF dialect = "postgresql" THEN n = sequence + 1 ELSE AfterNewest(n)

AllocateNumber(u) ==
  /\ at[u] = "fresh"
  /\ \E n \in Number :
       /\ NextNumber(n)
       /\ number' = [number EXCEPT ![u] = n]
       /\ sequence' = IF dialect = "postgresql" THEN n ELSE sequence
  /\ Goto(u, "numbered")
  /\ UNCHANGED <<dialect, rows, ingested, storage, content, registered>>

(* storage.commit links the final object and unlinks the staged one; it may *)
(* fail before the link, or after it.                                       *)
CommitObject(u) ==
  /\ at[u] = "numbered"
  /\ \/ final' = final \cup {u} /\ temp' = temp \ {u} /\ Goto(u, "linked")
     \/ final' = final \cup {u} /\ UNCHANGED temp /\ Goto(u, "cleanTemp")
     \/ UNCHANGED <<final, temp>> /\ Goto(u, "cleanTemp")
  /\ UNCHANGED <<database, errors, locals>>

(* uq_evidence_case_hash and uq_evidence_number *)
UnconstrainedM(u) == TRUE
ConstraintsAllow(u) ==
  \A r \in rows : r.content # content[u] /\ r.number # number[u]

(* The registration transaction is committed.  If the answer to the commit  *)
(* is lost, ingest handles an exception and never sets registered.          *)
Register(u) ==
  /\ at[u] = "linked"
  /\ ConstraintsAllow(u)
  /\ rows' = rows \cup {[upload |-> u, content |-> content[u],
                         number |-> number[u]]}
  /\ ingested' = ingested \cup {u}
  /\ \/ registered' = registered \cup {u}
     \/ AckLoss /\ UNCHANGED registered
  /\ Goto(u, "cleanTemp")
  /\ UNCHANGED <<dialect, sequence, storage, content, number>>

(* An exception before anything else happens: the database refuses a query, *)
(* the flush, or the commit.                                                *)
Raise(u) ==
  /\ at[u] \in {"hashed", "fresh", "linked"}
  /\ Goto(u, "cleanTemp")
  /\ UNCHANGED <<database, storage, locals>>

-----------------------------------------------------------------------------
(* The finally clause *)

CleanTemp(u) ==
  /\ at[u] = "cleanTemp"
  /\ \/ temp' = temp \ {u} /\ UNCHANGED errors
     \/ errors' = errors \cup {<<u, "temp">>} /\ UNCHANGED temp
  /\ Goto(u, "cleanFinal")
  /\ UNCHANGED <<database, final, locals>>

NeverM(u) == FALSE
RegisteredTooM(u) == number[u] # 0
MustCleanFinal(u) == number[u] # 0 /\ u \notin registered

CleanFinal(u) ==
  /\ at[u] = "cleanFinal"
  /\ IF MustCleanFinal(u)
       THEN \/ final' = final \ {u} /\ UNCHANGED errors
            \/ errors' = errors \cup {<<u, "final">>} /\ UNCHANGED final
       ELSE UNCHANGED <<final, errors>>
  /\ Goto(u, "answered")
  /\ UNCHANGED <<database, temp, locals>>

(* External: the process is killed.                                         *)
Crash(u) ==
  /\ at[u] \notin {"start", "answered", "dead"}
  /\ Goto(u, "dead")
  /\ UNCHANGED <<database, storage, locals>>

Ingest(u) ==
  \/ Stage(u)
  \/ CheckDuplicate(u)
  \/ AllocateNumber(u)
  \/ CommitObject(u)
  \/ Register(u)
  \/ Raise(u)
  \/ CleanTemp(u)
  \/ CleanFinal(u)

Next == \E u \in Upload : Ingest(u) \/ Crash(u)

Spec == Init /\ [][Next]_vars

-----------------------------------------------------------------------------

TypeOK ==
  /\ dialect \in {"postgresql", "sqlite"}
  /\ sequence \in Number
  /\ rows \subseteq Row
  /\ ingested \subseteq Upload
  /\ temp \subseteq Upload
  /\ final \subseteq Upload
  /\ errors \subseteq Upload \X {"temp", "final"}
  /\ at \in [Upload -> Place]
  /\ content \in [Upload -> Content]
  /\ number \in [Upload -> Number]
  /\ \A u \in Upload : at[u] \in {"numbered", "linked"} => number[u] # 0
  /\ registered \subseteq Upload

RowsOf(u) == {r \in rows : r.upload = u}

(* A registered row has its original object and its custody event, from the *)
(* commit on: no clean-up, of its own upload or of another, removes them    *)
(* (docs/maintenance-guide, "Original evidence deletion is a legal/custody  *)
(* decision").                                                              *)
OriginalPreserved == \A r \in rows : r.upload \in final /\ r.upload \in ingested

(* No two rows hold the same bytes of a case, or the same public number,    *)
(* however the checks of concurrent uploads interleave.                     *)
RowsDistinct ==
  \A r, s \in rows : r.content = s.content \/ r.number = s.number => r = s

(* An upload answered with success has a row; one answered with an error    *)
(* has none, and leaves no object behind that was not logged; a staged      *)
(* object never outlives its request unlogged.                              *)
AnswerTrue ==
  \A u \in Upload :
    at[u] = "answered" =>
      /\ u \in registered <=> RowsOf(u) # {}
      /\ u \in temp => <<u, "temp">> \in errors
      /\ u \in final => u \in registered \/ <<u, "final">> \in errors

(* Where there is a sequence, concurrent uploads never hold the same number:*)
(* the constraint on numbers refuses no row.                                *)
NumbersDistinct ==
  dialect = "postgresql" =>
    \A u, v \in Upload :
      number[u] = number[v] /\ number[u] # 0 => u = v
=============================================================================
