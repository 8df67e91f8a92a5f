----------------------------- MODULE CaseRecords -----------------------------
(***************************************************************************)
(* The rows about the evidence of a case that its timeline, its            *)
(* correlation and its entities are derived from, and how the three        *)
(* engines read them: one table after the other, at READ COMMITTED, while  *)
(* other services append.                                                  *)
(*                                                                         *)
(* The evidence items are numbered in the order of their ids.  Texts stand *)
(* for what the patterns find in extracted content; times are apart by     *)
(* more than any tolerance.  Rows of every table are only ever added.      *)
(***************************************************************************)
EXTENDS Naturals, Sequences, FiniteSets

CONSTANTS
  MaxItem,    \* bound: evidence items of the case
  MaxTime,    \* bound: times
  Now,        \* the time of everything services record
  Table,      \* the tables that have rows
  TextType,   \* kinds of extracted text
  Text,       \* spellings
  Folded,     \* the normalised form of a spelling
  MaxDates,   \* bound: metadata dates
  MaxRows     \* bound: rows of the other tables

Item == 1..MaxItem
Time == 1..MaxTime

(* A signature or a speaker is compared with a reference item.              *)
PairTable == {"signature_ai", "audio_ai"}

TableName == {"processing", "extraction", "custody", "forensic", "image_ai",
              "document_ai", "video_ai", "fusion"} \cup PairTable

ASSUME MaxItemAssumption == MaxItem \in Nat
ASSUME TimeAssumption == MaxTime \in Nat /\ Now \in Time
ASSUME TableAssumption == Table \subseteq TableName
ASSUME TextTypeAssumption ==
  TextType \cap (PairTable \cup {"media", "signature", "temporal_overlap"}) = {}
ASSUME FoldedAssumption == Folded \in [Text -> Text]
ASSUME MaxRowsAssumption == MaxDates \in Nat /\ MaxRows \in Nat

(* External: a reference item of another case; the service looks it up by   *)
(* its id alone.                                                            *)
Foreign == MaxItem + 1

(* The date in a section of metadata_json: none, one that is not ISO 8601,  *)
(* or a time.                                                               *)
Absent == 0
Unreadable == MaxTime + 1
Date == Time \cup {Absent, Unreadable}
Section == {"extraction", "exif", "filesystem"}

Engine == {"timeline", "correlation", "entities"}

VARIABLES
  held,    \* the evidence rows: time of upload, Absent if none, and dates
  rows,    \* the rows of the other tables
  reading  \* per engine: the build at work and what it has read

recordVars == <<held, rows, reading>>

Sheet == [uploaded : Time \cup {Absent}, dates : [Section -> Date]]
Blank == [uploaded |-> Absent, dates |-> [s \in Section |-> Absent]]

(* An extracted text; a comparison that matched; any other row.             *)
TextRow == [table : Table \cap {"extraction"}, item : Item, other : {Absent}, type : TextType, text : Text]
PairRow == [table : Table \cap PairTable, item : Item, other : Item \cup {Foreign},
            type : {"none"}, text : {"none"}]
PlainRow == [table : Table \ ({"extraction"} \cup PairTable), item : Item, other : {Absent},
             type : {"none"}, text : {"none"}]
Row == TextRow \cup PairRow \cup PlainRow

(* The step of a build, 0 when none is at work; the items it knows, as they *)
(* were; the rows it has; and the rows there were when it began.            *)
Build == [at : Nat, known : SUBSET Item, sheets : [Item -> Sheet],
          seen : SUBSET Row, before : SUBSET Row]
NoBuild == [at |-> 0, known |-> {}, sheets |-> [i \in Item |-> Blank],
            seen |-> {}, before |-> {}]

Uploaded == {i \in Item : held[i].uploaded # Absent}

RecordsInit ==
  /\ held = [i \in Item |-> Blank]
  /\ rows = {}
  /\ reading = [e \in Engine |-> NoBuild]

-----------------------------------------------------------------------------
(* What other services commit.                                              *)

Upload(i, t) ==
  /\ i \notin Uploaded
  /\ t <= Now
  /\ held' = [held EXCEPT ![i].uploaded = t]
  /\ UNCHANGED <<rows, reading>>

(* External: no service here writes these dates, other writers of the same  *)
(* column may.  Merging their own sections, the services keep such a date.  *)
AddDate(i, s, d) ==
  /\ i \in Uploaded
  /\ held[i].dates[s] = Absent
  /\ Cardinality({x \in Item \X Section : held[x[1]].dates[x[2]] # Absent}) < MaxDates
  /\ held' = [held EXCEPT ![i].dates[s] = d]
  /\ UNCHANGED <<rows, reading>>

AddRow(r) ==
  /\ r \notin rows
  /\ {r.item, r.other} \subseteq Uploaded \cup {Absent, Foreign}
  /\ Cardinality(rows) < MaxRows
  /\ rows' = rows \cup {r}
  /\ UNCHANGED <<held, reading>>

-----------------------------------------------------------------------------
(* What the engines have in common.                                         *)

(* The first SELECT of a build lists the evidence of the case.              *)
BeginBuild(e, sheets) ==
  /\ reading[e].at = 0
  /\ reading' = [reading EXCEPT ![e] =
       [at |-> 1, known |-> Uploaded, sheets |-> sheets, seen |-> {}, before |-> rows]]
  /\ UNCHANGED <<held, rows>>

(* Tables without rows are passed over.                                     *)
WithRows(t) == IF t \in Table THEN <<t>> ELSE <<>>

(* evidence_id.in_(evidence_ids).                                           *)
OfKnown(e) == {r \in rows : r.item \in reading[e].known}

(* reference_evidence_id.in_(evidence_ids), of comparisons of signatures.   *)
ReferenceKnown(e) ==
  {r \in rows : r.table = "signature_ai" /\ r.other \in reading[e].known}

(* The SELECT on the next of the tables the engine reads.                   *)
ReadTable(e, tables, found) ==
  LET b == reading[e] IN
    /\ b.at \in 1..Len(tables)
    /\ reading' = [reading EXCEPT ![e] =
         [at |-> b.at + 1, known |-> b.known, sheets |-> b.sheets,
          seen |-> b.seen \cup {r \in found : r.table = tables[b.at]},
          before |-> b.before]]
    /\ UNCHANGED <<held, rows>>

HasAll(e, tables) == reading[e].at = Len(tables) + 1

EndBuild(e) ==
  /\ reading' = [reading EXCEPT ![e] = NoBuild]
  /\ UNCHANGED <<held, rows>>

(* The run fails, or its process ends: it publishes nothing.                *)
AbandonBuild(e) == reading[e].at # 0 /\ EndBuild(e)

RecordsTypeOK ==
  /\ held \in [Item -> Sheet]
  /\ rows \subseteq Row
  /\ reading \in [Engine -> Build]
=============================================================================
