----------------------------- MODULE EngineProofs -----------------------------
(***************************************************************************)
(* Why what the engines derive from a case is sound although they read one *)
(* table after the other while rows are added: a build has every row that  *)
(* was there when it began, of the tables it has read, and rows, dates and *)
(* items are never taken away.  So a later timeline has the conflicts of   *)
(* an earlier one, correlations are between what was shared then and what  *)
(* is shared now, and the resolver finds what a correlation that it takes  *)
(* up rests on.                                                            *)
(***************************************************************************)
EXTENDS EntityResolver, FiniteSetTheorems, TLAPS

(* The engines start without anything on record.                            *)
LEMMA TypesStart == EnginesInit => EnginesTypeOK
<1> SUFFICES ASSUME EnginesInit
             PROVE  EnginesTypeOK
  OBVIOUS
<1>1. Blank \in Sheet
  BY DEF Blank, Sheet, Date, Absent
<1>2. NoBuild \in Build
  BY <1>1 DEF NoBuild, Build
<1>3. RecordsTypeOK
  BY <1>1, <1>2 DEF EnginesInit, RecordsInit, RecordsTypeOK
<1>4. TimelineTypeOK
  BY DEF EnginesInit, TimelineInit, TimelineTypeOK, NoTimeline, Timeline
<1>5. CorrelationTypeOK /\ GraphTypeOK
  BY DEF EnginesInit, CorrelationInit, CorrelationTypeOK, GraphInit, GraphTypeOK, NoGraph, Graph
<1> QED
  BY <1>3, <1>4, <1>5 DEF EnginesTypeOK

(* What the engines read is of the right kind.                              *)
LEMMA BuildsTyped ==
  ASSUME RecordsTypeOK, NEW e \in Engine
  PROVE  /\ \A sheets \in [Item -> Sheet] : BeginBuild(e, sheets) => RecordsTypeOK'
         /\ \A tables : \A found \in SUBSET rows : ReadTable(e, tables, found) => RecordsTypeOK'
         /\ EndBuild(e) => RecordsTypeOK'
<1> USE DEF RecordsTypeOK
<1>1. Blank \in Sheet
  BY DEF Blank, Sheet, Date, Absent
<1>2. NoBuild \in Build
  BY <1>1 DEF NoBuild, Build
<1>3. ASSUME NEW sheets \in [Item -> Sheet], BeginBuild(e, sheets)
      PROVE  RecordsTypeOK'
  <2>1. [at |-> 1, known |-> Uploaded, sheets |-> sheets, seen |-> {}, before |-> rows] \in Build
    BY <1>3 DEF Uploaded, Build
  <2> QED
    BY <1>3, <2>1 DEF BeginBuild
<1>4. ASSUME NEW tables, NEW found \in SUBSET rows, ReadTable(e, tables, found)
      PROVE  RecordsTypeOK'
  <2> DEFINE r == reading[e]
            more == {x \in found : x.table = tables[r.at]}
  <2>1. r \in Build
    OBVIOUS
  <2>2. [at |-> r.at + 1, known |-> r.known, sheets |-> r.sheets,
         seen |-> r.seen \cup more, before |-> r.before] \in Build
    BY <2>1 DEF Build
  <2>3. reading' \in [Engine -> Build]
    BY <1>4, <2>2 DEF ReadTable
  <2> QED
    BY <1>4, <2>3 DEF ReadTable
<1>5. ASSUME EndBuild(e)
      PROVE  RecordsTypeOK'
  BY <1>2, <1>5 DEF EndBuild
<1> QED
  BY <1>3, <1>4, <1>5

(* What an engine publishes is of the right kind.                           *)
LEMMA ResultsTyped ==
  ASSUME EnginesTypeOK, NEW b \in Build
  PROVE  /\ [known |-> b.known, dated |-> Dated(b), updated |-> Updated(b),
             missing |-> Missing(b), rows |-> b.seen, conflicts |-> Conflicts(b)] \in Timeline
         /\ Correlated(b.seen, b.known, timeline) \subseteq Correlation
         /\ \A cs \in SUBSET Correlation :
              [entities |-> Entities(b),
               relations |-> Contained(b) \cup Signed(b) \cup Correlates(b, cs),
               taken |-> Taken(b, cs)] \in Graph
<1>1. b.known \subseteq Item /\ b.seen \subseteq Row
  BY DEF Build
<1>2. /\ Dated(b) \subseteq Item \X Section \X Time
      /\ Missing(b) \subseteq Item /\ Updated(b) \subseteq Item
  BY <1>1 DEF Dated, Missing, Updated
<1>3. Conflicts(b) \subseteq Conflict
  <2>1. /\ MultipleTimes(b) \subseteq Item /\ FilesystemFirst(b) \subseteq Item
        /\ InFuture(b) \subseteq Item /\ Drifted(b) \subseteq Item
    BY <1>1 DEF MultipleTimes, FilesystemFirst, InFuture, Drifted
  <2> QED
    BY <2>1 DEF Conflicts, Conflict
<1>4. Correlated(b.seen, b.known, timeline) \subseteq Correlation
  <2>1. TextCorrelations(b.seen, b.known) \subseteq Correlation
    BY <1>1 DEF TextCorrelations, Correlation
  <2>2. PairCorrelations(b.seen, b.known) \subseteq Correlation
    BY <1>1 DEF PairCorrelations, Correlation
  <2>3. TemporalCorrelations(timeline, b.known) \subseteq Correlation
    BY <1>1 DEF TemporalCorrelations, Correlation
  <2> QED
    BY <2>1, <2>2, <2>3 DEF Correlated
<1>5. ASSUME NEW cs \in SUBSET Correlation
      PROVE  /\ Entities(b) \subseteq Entity
             /\ Contained(b) \cup Signed(b) \cup Correlates(b, cs) \subseteq Relation
             /\ Taken(b, cs) \subseteq Correlation
  <2>1. \A r \in Mentions(b) : r.item \in Item /\ r.type \in TextType /\ r.text \in Text
    BY <1>1 DEF Mentions, Row, TextRow, PairRow, PlainRow, PairTable
  <2>2. \A r \in Matches(b) : r.item \in Item /\ r.other \in Item \cup {Foreign}
    BY <1>1 DEF Matches, Row, TextRow, PairRow, PlainRow, PairTable
  <2>3. \A i \in Item : Media(i) \in Name
    BY DEF Media, Name
  <2>4. \A r \in Mentions(b) : Mention(r) \in Name
    BY <2>1, FoldedAssumption DEF Mention, Name
  <2>5. \A r \in Matches(b) : Comparison(r) \in Name
    BY <2>2 DEF Comparison, Name
  <2>6. Entities(b) \subseteq Entity
    BY <1>1, <2>1, <2>2, <2>3, <2>4, <2>5 DEF Entities, Entity
  <2>7. \A m, n \in Name, t \in RelationType, i \in Item : Link(m, t, n, i) \in Relation
    BY DEF Link, Relation
  <2>8. Contained(b) \subseteq Relation
    BY <2>1, <2>3, <2>4, <2>7 DEF Contained, RelationType
  <2>9. ASSUME NEW l \in Signed(b) PROVE l \in Relation
    <3>1. CASE \E r \in Matches(b) : l = Link(Media(r.item), "signed_by", Comparison(r), r.item)
      BY <2>2, <2>3, <2>5, <2>7, <3>1 DEF RelationType
    <3>2. CASE \E r \in Matches(b) : r.other \in b.known /\ l = Link(Media(r.other), "signed_by", Comparison(r), r.other)
      BY <1>1, <2>3, <2>5, <2>7, <3>2 DEF RelationType
    <3>3. CASE \E r \in Matches(b) : r.other \in b.known /\ l = Link(Media(r.item), "related_to", Media(r.other), r.item)
      BY <1>1, <2>2, <2>3, <2>7, <3>3 DEF RelationType
    <3> QED
      BY <3>1, <3>2, <3>3 DEF Signed
  <2>10. Correlates(b, cs) \subseteq Relation
    <3>1. \A c \in cs : c.left \in Item /\ c.right \in Item
      BY DEF Correlation
    <3> QED
      BY <2>3, <2>7, <3>1 DEF Correlates, Taken, RelationType
  <2> QED
    BY <2>6, <2>8, <2>9, <2>10 DEF Taken
<1> QED
  BY <1>1, <1>2, <1>3, <1>4, <1>5 DEF Timeline, Graph

(* Every write and every step of a build keeps the types.                   *)
LEMMA TypesStep ==
  ASSUME EnginesTypeOK, NEW kinds, EnginesNext(kinds)
  PROVE  EnginesTypeOK'
<1> USE DEF EnginesTypeOK
<1>1. [i \in Item |-> Blank] \in [Item -> Sheet]
  BY DEF Blank, Sheet, Date, Absent
<1>2. \A e \in Engine : OfKnown(e) \subseteq rows /\ ReferenceKnown(e) \subseteq rows
  BY DEF OfKnown, ReferenceKnown
<1>3. \A e \in Engine : AbandonBuild(e) => RecordsTypeOK'
  BY BuildsTyped DEF AbandonBuild
<1>4. CASE UNCHANGED <<timeline, correlations, earlier, graph>> /\ RecordsTypeOK'
  BY <1>4 DEF TimelineTypeOK, CorrelationTypeOK, GraphTypeOK
<1>5. CASE /\ UNCHANGED <<timeline, correlations, earlier, graph>>
           /\ \/ \E i \in Item, t \in Time : Upload(i, t)
              \/ \E i \in Item, s \in Section, d \in Date \ {Absent} : AddDate(i, s, d)
              \/ \E r \in Row : AddRow(r)
  <2>1. ASSUME NEW i \in Item, NEW t \in Time, Upload(i, t) PROVE RecordsTypeOK'
    BY <2>1 DEF Upload, RecordsTypeOK, Sheet
  <2>2. ASSUME NEW i \in Item, NEW s \in Section, NEW d \in Date, AddDate(i, s, d)
        PROVE  RecordsTypeOK'
    BY <2>2 DEF AddDate, RecordsTypeOK, Sheet
  <2>3. ASSUME NEW r \in Row, AddRow(r) PROVE RecordsTypeOK'
    BY <2>3 DEF AddRow, RecordsTypeOK
  <2> QED
    BY <1>4, <1>5, <2>1, <2>2, <2>3
<1>6. CASE TimelineNext /\ UNCHANGED <<correlations, earlier, graph>>
  <2>1. RecordsTypeOK'
    BY <1>2, <1>3, <1>6, BuildsTyped
       DEF TimelineNext, TimelineStart, TimelineRead, TimelinePublish, RecordsTypeOK, Engine
  <2>2. timeline' \in Timeline
    <3>1. reading["timeline"] \in Build
      BY DEF RecordsTypeOK, Engine
    <3> QED
      BY <1>6, <3>1, ResultsTyped
         DEF TimelineNext, TimelineStart, TimelineRead, TimelinePublish, TimelineTypeOK
  <2> QED
    BY <1>6, <2>1, <2>2 DEF TimelineTypeOK, CorrelationTypeOK, GraphTypeOK
<1>7. CASE CorrelationNext /\ UNCHANGED <<earlier, graph>>
  <2>1. RecordsTypeOK' /\ timeline' = timeline
    BY <1>1, <1>2, <1>3, <1>7, BuildsTyped
       DEF CorrelationNext, CorrelationStart, CorrelationRead, CorrelationPublish, Engine
  <2>2. correlations' \subseteq Correlation
    <3>1. reading["correlation"] \in Build
      BY DEF RecordsTypeOK, Engine
    <3> QED
      BY <1>7, <3>1, ResultsTyped
         DEF CorrelationNext, CorrelationStart, CorrelationRead, CorrelationPublish,
             CorrelationTypeOK
  <2> QED
    BY <1>7, <2>1, <2>2 DEF TimelineTypeOK, CorrelationTypeOK, GraphTypeOK
<1>8. CASE ResolverNext
  <2>1. RecordsTypeOK' /\ UNCHANGED <<timeline, correlations>>
    BY <1>1, <1>2, <1>3, <1>8, BuildsTyped
       DEF ResolverNext, ResolverStart, ResolverRead, ResolverPublish, Engine
  <2>2. earlier' \subseteq Correlation
    BY <1>8 DEF ResolverNext, ResolverStart, ResolverRead, ResolverPublish, GraphTypeOK,
                CorrelationTypeOK
  <2>3. graph' \in Graph
    <3>1. CASE UNCHANGED graph
      BY <3>1 DEF GraphTypeOK
    <3>2. CASE ResolverPublish
      <4> DEFINE b == reading["entities"]
      <4>1. b \in Build
        BY DEF RecordsTypeOK, Engine
      <4>2. Entities(b) \subseteq Entity
              /\ Contained(b) \cup Signed(b) \cup Correlates(b, correlations) \subseteq Relation
        BY <4>1, ResultsTyped DEF CorrelationTypeOK, Graph
      <4>3. Taken(b, correlations \cap earlier) \subseteq Correlation
        BY DEF Taken, CorrelationTypeOK
      <4> QED
        BY <3>2, <4>2, <4>3 DEF ResolverPublish, Graph
    <3> QED
      BY <1>8, <3>1, <3>2 DEF ResolverNext, ResolverStart, ResolverRead
  <2> QED
    BY <2>1, <2>2, <2>3 DEF TimelineTypeOK, CorrelationTypeOK, GraphTypeOK
<1> QED
  <2>1. CASE /\ UNCHANGED <<timeline, correlations, earlier, graph>>
             /\ \/ \E i \in Item, t \in IF "past" \in kinds THEN Time ELSE {Now} : Upload(i, t)
                \/ \E i \in Item, s \in Section, d \in Date \ {Absent} : AddDate(i, s, d)
                \/ AddRows(kinds)
    <3>1. (IF "past" \in kinds THEN Time ELSE {Now}) \subseteq Time
      BY TimeAssumption
    <3>2. AddRows(kinds) => \E r \in Row : AddRow(r)
      BY DEF AddRows, Row
    <3> QED
      BY <1>5, <2>1, <3>1, <3>2
  <2> QED
    BY <1>6, <1>7, <1>8, <2>1 DEF EnginesNext

-----------------------------------------------------------------------------

HasTable(tables, t) == \E k \in 1..Len(tables) : tables[k] = t

(* Sequences of tables put one after the other have the tables of both.     *)
LEMMA TablesJoined ==
  ASSUME NEW s \in Seq(TableName), NEW u \in Seq(TableName)
  PROVE  /\ s \o u \in Seq(TableName)
         /\ \A t : HasTable(s, t) \/ HasTable(u, t) => HasTable(s \o u, t)
<1>1. /\ s \o u \in Seq(TableName)
      /\ Len(s \o u) = Len(s) + Len(u) /\ Len(s) \in Nat /\ Len(u) \in Nat
      /\ \A k \in 1..Len(s) : (s \o u)[k] = s[k]
      /\ \A k \in 1..Len(u) : (s \o u)[Len(s) + k] = u[k]
  OBVIOUS
<1>2. ASSUME NEW t, NEW k \in 1..Len(s), s[k] = t PROVE HasTable(s \o u, t)
  <2>1. k \in 1..Len(s \o u) /\ (s \o u)[k] = t
    BY <1>1, <1>2
  <2> QED
    BY <2>1 DEF HasTable
<1>3. ASSUME NEW t, NEW k \in 1..Len(u), u[k] = t PROVE HasTable(s \o u, t)
  <2>1. Len(s) + k \in 1..Len(s \o u) /\ (s \o u)[Len(s) + k] = t
    BY <1>1, <1>3
  <2> QED
    BY <2>1 DEF HasTable
<1> QED
  BY <1>1, <1>2, <1>3 DEF HasTable

(* A table with rows is kept.                                               *)
LEMMA TableKept ==
  ASSUME NEW t \in TableName
  PROVE  WithRows(t) \in Seq(TableName) /\ (t \in Table => HasTable(WithRows(t), t))
<1>2. CASE t \in Table
  <2>1. WithRows(t) = <<t>> /\ <<t>> \in Seq(TableName) /\ Len(<<t>>) = 1 /\ <<t>>[1] = t
    BY <1>2 DEF WithRows
  <2>2. 1 \in 1..Len(<<t>>)
    BY <2>1
  <2> QED
    BY <2>1, <2>2 DEF HasTable
<1>3. CASE t \notin Table
  BY <1>3 DEF WithRows
<1> QED
  BY <1>2, <1>3

(* Every engine reads all the tables that it is about.                      *)
LEMMA TablesComplete ==
  /\ {TimelineTables, CorrelationTables, ResolverTables} \subseteq Seq(TableName)
  /\ \A t \in Table : HasTable(TimelineTables, t)
  /\ \A t \in Table \cap ({"extraction"} \cup PairTable) : HasTable(CorrelationTables, t)
  /\ \A t \in Table \cap {"extraction", "signature_ai"} : HasTable(ResolverTables, t)
<1> DEFINE A == WithRows("processing") \o WithRows("extraction")
           B == A \o WithRows("custody")
           C == B \o WithRows("forensic")
           D == C \o WithRows("image_ai")
           E == D \o WithRows("document_ai")
           F == E \o WithRows("signature_ai")
           G == F \o WithRows("video_ai")
           H == G \o WithRows("audio_ai")
<1>1. \A t \in TableName : WithRows(t) \in Seq(TableName) /\ (t \in Table => HasTable(WithRows(t), t))
  BY TableKept
<1>2. {"processing", "extraction", "custody", "forensic", "image_ai", "document_ai",
       "signature_ai", "video_ai", "audio_ai", "fusion"} = TableName
  BY DEF TableName, PairTable
<1> HIDE DEF A, B, C, D, E, F, G, H
<1>3. A \in Seq(TableName) /\ \A t \in Table \cap {"processing", "extraction"} : HasTable(A, t)
  BY <1>1, <1>2, TablesJoined DEF A
<1>4. B \in Seq(TableName)
        /\ \A t \in Table \cap {"processing", "extraction", "custody"} : HasTable(B, t)
  BY <1>1, <1>2, <1>3, TablesJoined DEF B
<1>5. C \in Seq(TableName)
        /\ \A t \in Table \cap {"processing", "extraction", "custody", "forensic"} :
             HasTable(C, t)
  BY <1>1, <1>2, <1>4, TablesJoined DEF C
<1>6. D \in Seq(TableName)
        /\ \A t \in Table \cap {"processing", "extraction", "custody", "forensic",
                                "image_ai"} : HasTable(D, t)
  BY <1>1, <1>2, <1>5, TablesJoined DEF D
<1>7. E \in Seq(TableName)
        /\ \A t \in Table \cap {"processing", "extraction", "custody", "forensic",
                                "image_ai", "document_ai"} : HasTable(E, t)
  BY <1>1, <1>2, <1>6, TablesJoined DEF E
<1>8. F \in Seq(TableName)
        /\ \A t \in Table \cap {"processing", "extraction", "custody", "forensic",
                                "image_ai", "document_ai", "signature_ai"} : HasTable(F, t)
  BY <1>1, <1>2, <1>7, TablesJoined DEF F
<1>9. G \in Seq(TableName)
        /\ \A t \in Table \cap {"processing", "extraction", "custody", "forensic",
                                "image_ai", "document_ai", "signature_ai", "video_ai"} :
             HasTable(G, t)
  BY <1>1, <1>2, <1>8, TablesJoined DEF G
<1>10. H \in Seq(TableName)
        /\ \A t \in Table \cap {"processing", "extraction", "custody", "forensic",
                                "image_ai", "document_ai", "signature_ai", "video_ai",
                                "audio_ai"} : HasTable(H, t)
  BY <1>1, <1>2, <1>9, TablesJoined DEF H
<1>11. TimelineTables = H \o WithRows("fusion")
  BY DEF TimelineTables, A, B, C, D, E, F, G, H
<1>12. TimelineTables \in Seq(TableName) /\ \A t \in Table : HasTable(TimelineTables, t)
  BY <1>1, <1>2, <1>10, <1>11, TablesJoined, TableAssumption
<1> DEFINE K == WithRows("extraction") \o WithRows("signature_ai")
<1> HIDE DEF K
<1>13. K \in Seq(TableName) /\ \A t \in Table \cap {"extraction", "signature_ai"} : HasTable(K, t)
  BY <1>1, <1>2, TablesJoined DEF K
<1>14. CorrelationTables = K \o WithRows("audio_ai") /\ ResolverTables = K
  BY DEF CorrelationTables, ResolverTables, K
<1>15. CorrelationTables \in Seq(TableName)
         /\ \A t \in Table \cap {"extraction", "signature_ai", "audio_ai"} :
              HasTable(CorrelationTables, t)
  BY <1>1, <1>2, <1>13, <1>14, TablesJoined
<1> QED
  BY <1>12, <1>13, <1>14, <1>15 DEF PairTable

-----------------------------------------------------------------------------
(* Rows are about items that are on record, and a build at work has, of     *)
(* those there were when it began, the ones of the tables it has read.      *)
RowsKept == \A r \in rows : r.item \in Uploaded

BuildSound(e, tables) ==
  LET b == reading[e] IN
    /\ b.known \subseteq Uploaded /\ b.seen \subseteq rows /\ b.before \subseteq rows
    /\ \A r \in b.before : /\ r.item \in b.known
                           /\ \A k \in 1..(b.at - 1) : tables[k] = r.table => r \in b.seen

(* What a build makes of itself stays sound.                                *)
LEMMA SoundBuilds ==
  ASSUME RecordsTypeOK, RowsKept, NEW e \in Engine, NEW tables, BuildSound(e, tables)
  PROVE  /\ \A sheets : BeginBuild(e, sheets) => BuildSound(e, tables)'
         /\ \A found : ReadTable(e, tables, found)
                         /\ OfKnown(e) \subseteq found /\ found \subseteq rows
                       => BuildSound(e, tables)'
         /\ EndBuild(e) => BuildSound(e, tables)'
<1> DEFINE b == reading[e]
<1>0. b \in Build /\ b.at \in Nat
  BY DEF RecordsTypeOK, Build
<1>1. ASSUME NEW sheets, BeginBuild(e, sheets) PROVE BuildSound(e, tables)'
  <2>1. reading'[e] = [at |-> 1, known |-> Uploaded, sheets |-> sheets, seen |-> {},
                       before |-> rows]
    BY <1>1 DEF BeginBuild, RecordsTypeOK
  <2>2. Uploaded' = Uploaded /\ rows' = rows
    BY <1>1 DEF BeginBuild, Uploaded
  <2>3. 1..(reading'[e].at - 1) = {}
    BY <2>1
  <2> QED
    BY <2>1, <2>2, <2>3 DEF BuildSound, RowsKept
<1>2. ASSUME NEW found, ReadTable(e, tables, found), OfKnown(e) \subseteq found, found \subseteq rows
      PROVE  BuildSound(e, tables)'
  <2> DEFINE more == {r \in found : r.table = tables[b.at]}
  <2>1. reading'[e] = [at |-> b.at + 1, known |-> b.known, sheets |-> b.sheets,
                       seen |-> b.seen \cup more, before |-> b.before]
    BY <1>2 DEF ReadTable, RecordsTypeOK
  <2>2. Uploaded' = Uploaded /\ rows' = rows
    BY <1>2 DEF ReadTable, Uploaded
  <2>3. /\ reading'[e].known \subseteq Uploaded' /\ reading'[e].seen \subseteq rows'
        /\ reading'[e].before \subseteq rows'
    BY <1>2, <2>1, <2>2 DEF BuildSound
  <2>4. ASSUME NEW r \in reading'[e].before
        PROVE  r.item \in reading'[e].known
    BY <2>1, <2>4 DEF BuildSound
  <2>5. ASSUME NEW r \in reading'[e].before, NEW k \in 1..(reading'[e].at - 1),
               tables[k] = r.table
        PROVE  r \in reading'[e].seen
    <3>1. r \in b.before /\ k \in 1..b.at
      BY <1>0, <2>1, <2>5
    <3>2. CASE k \in 1..(b.at - 1)
      BY <2>1, <2>5, <3>1, <3>2 DEF BuildSound
    <3>3. CASE k = b.at
      <4>1. r \in OfKnown(e)
        BY <3>1 DEF BuildSound, OfKnown
      <4> QED
        BY <1>2, <2>1, <2>5, <3>3, <4>1
    <3> QED
      BY <1>0, <3>1, <3>2, <3>3
  <2> QED
    BY <2>3, <2>4, <2>5 DEF BuildSound
<1>3. ASSUME EndBuild(e) PROVE BuildSound(e, tables)'
  <2>1. reading'[e] = NoBuild
    BY <1>3 DEF EndBuild, RecordsTypeOK
  <2> QED
    BY <2>1 DEF BuildSound, NoBuild
<1> QED
  BY <1>1, <1>2, <1>3

(* What others add does not disturb a build.                                *)
LEMMA SoundApart ==
  ASSUME NEW e, NEW tables, BuildSound(e, tables), reading'[e] = reading[e],
         rows \subseteq rows', Uploaded \subseteq Uploaded'
  PROVE  BuildSound(e, tables)'
BY DEF BuildSound

(* A build that has read its tables has all that it should.                 *)
LEMMA BuildComplete ==
  ASSUME RecordsTypeOK, NEW e \in Engine, NEW tables, BuildSound(e, tables), HasAll(e, tables),
         NEW r \in reading[e].before, HasTable(tables, r.table)
  PROVE  r \in reading[e].seen
<1>1. PICK k \in 1..Len(tables) : tables[k] = r.table
  BY DEF HasTable
<1>2. k \in 1..(reading[e].at - 1)
  <2>1. reading[e].at \in Nat
    BY DEF RecordsTypeOK, Build
  <2>2. k \in Int
    BY <1>1
  <2> QED
    BY <1>1, <2>1, <2>2 DEF HasAll
<1> QED
  BY <1>1, <1>2 DEF BuildSound

-----------------------------------------------------------------------------
(* The rows that make two items correlated, as the resolver names them.     *)
SameText(x, y) ==
  /\ x.table = "extraction" /\ y.table = "extraction"
  /\ x.type = y.type /\ Folded[x.text] = Folded[y.text]

Supported(c, rs) ==
  /\ c.type \in TextType =>
       \E x, y \in rs : SameText(x, y) /\ x.type = c.type /\ x.item = c.left /\ y.item = c.right
  /\ c.type = "signature_ai" =>
       \E x \in rs : x.table = "signature_ai" /\ {x.item, x.other} = {c.left, c.right}

(* Texts that the correlation engine takes for one, the resolver does too.  *)
LEMMA CorrelatedSupported ==
  ASSUME NEW rs, NEW k, NEW tl, NEW c \in Correlated(rs, k, tl)
  PROVE  Supported(c, rs)
<1>1. CASE c \in TextCorrelations(rs, k)
  <2>1. PICK v \in Text : {c.left, c.right} \subseteq Members(rs, k, c.type, v)
    BY <1>1 DEF TextCorrelations
  <2>2. PICK x \in rs : x.table = "extraction" /\ x.item = c.left /\ x.type = c.type /\ Signal(x) = v
    BY <2>1 DEF Members
  <2>3. PICK y \in rs : y.table = "extraction" /\ y.item = c.right /\ y.type = c.type /\ Signal(y) = v
    BY <2>1 DEF Members
  <2>4. SameText(x, y)
    BY <2>2, <2>3 DEF SameText, Signal
  <2>5. c.type # "signature_ai"
    BY <1>1, TextTypeAssumption DEF TextCorrelations, PairTable
  <2> QED
    BY <2>2, <2>3, <2>4, <2>5 DEF Supported
<1>2. CASE c \in PairCorrelations(rs, k)
  <2>1. c.type \in PairTable
    BY <1>2 DEF PairCorrelations
  <2>2. c.type \notin TextType
    BY <2>1, TextTypeAssumption
  <2>3. \E x \in rs : x.table = c.type /\ {x.item, x.other} = {c.left, c.right}
    BY <1>2 DEF PairCorrelations
  <2> QED
    BY <2>2, <2>3 DEF Supported
<1>3. CASE c \in TemporalCorrelations(tl, k)
  BY <1>3, TextTypeAssumption DEF TemporalCorrelations, Supported
<1> QED
  BY <1>1, <1>2, <1>3 DEF Correlated

(* Support only grows.                                                      *)
LEMMA SupportGrows ==
  ASSUME NEW c, NEW rs, NEW more, rs \subseteq more, Supported(c, rs)
  PROVE  Supported(c, more)
BY DEF Supported

(* What two reads of the same rows find, more rows show too.                *)
LEMMA CorrelatedGrows ==
  ASSUME NEW rs, NEW more, NEW k, NEW known, NEW tl,
         k \subseteq known, known \subseteq Item,
         \A r \in rs : r.table \in {"extraction"} \cup PairTable /\ r.item \in k => r \in more
  PROVE  Correlated(rs, k, tl) \subseteq Correlated(more, known, tl)
<1>1. TextCorrelations(rs, k) \subseteq TextCorrelations(more, known)
  <2> SUFFICES ASSUME NEW c \in TextCorrelations(rs, k)
               PROVE  c \in TextCorrelations(more, known)
    OBVIOUS
  <2>1. c \in [type : TextType, left : known, right : known] /\ c.left < c.right
    BY DEF TextCorrelations
  <2>2. PICK v \in Text : {c.left, c.right} \subseteq Members(rs, k, c.type, v)
    BY DEF TextCorrelations
  <2>3. {c.left, c.right} \subseteq Members(more, known, c.type, v)
    BY <2>2 DEF Members
  <2> QED
    BY <2>1, <2>2, <2>3 DEF TextCorrelations
<1>2. PairCorrelations(rs, k) \subseteq PairCorrelations(more, known)
  <2> SUFFICES ASSUME NEW c \in PairCorrelations(rs, k)
               PROVE  c \in PairCorrelations(more, known)
    OBVIOUS
  <2>1. /\ c \in [type : PairTable, left : known, right : known] /\ c.left <= c.right
        /\ c.left \in k /\ c.right \in k /\ c.type \in PairTable
    BY DEF PairCorrelations
  <2>2. PICK r \in rs : r.table = c.type /\ {r.item, r.other} = {c.left, c.right}
    BY DEF PairCorrelations
  <2>3. r.item \in k
    BY <2>1, <2>2
  <2> QED
    BY <2>1, <2>2, <2>3 DEF PairCorrelations
<1>3. TemporalCorrelations(tl, k) \subseteq TemporalCorrelations(tl, known)
  BY DEF TemporalCorrelations
<1>4. Cardinality(known) < 2 => Cardinality(k) < 2
  <2>1. IsFiniteSet(Item)
    BY MaxItemAssumption, FS_Interval DEF Item
  <2>2. IsFiniteSet(known)
    BY <2>1, FS_Subset
  <2>3. /\ Cardinality(k) <= Cardinality(known)
        /\ Cardinality(k) \in Nat /\ Cardinality(known) \in Nat
    BY <2>2, FS_Subset, FS_CardinalityType
  <2> QED
    BY <2>3
<1> QED
  BY <1>1, <1>2, <1>3, <1>4 DEF Correlated

(* Without a timeline nothing overlaps in time.                             *)
LEMMA TimelineAdds ==
  ASSUME NEW rs, NEW k, NEW tl
  PROVE  Correlated(rs, k, NoTimeline) \subseteq Correlated(rs, k, tl)
<1>1. \A i : EventTimes(NoTimeline, i) = {}
  BY DEF EventTimes, NoTimeline
<1> QED
  BY <1>1 DEF Correlated, TemporalCorrelations

(* A timeline's conflicts that time does not overtake.                      *)
Standing(conflicts) == {c \in conflicts : c.type # "future_timestamp"}

(* A build on more rows, about more items, some with more dates.            *)
Below(b, d) ==
  /\ b.known \subseteq d.known /\ d.known \subseteq Item /\ b.seen \subseteq d.seen
  /\ \A i \in b.known : /\ d.sheets[i].uploaded = b.sheets[i].uploaded
                        /\ \A s \in Section : b.sheets[i].dates[s] # Absent
                             => d.sheets[i].dates[s] = b.sheets[i].dates[s]

(* It has the conflicts of the other.                                       *)
LEMMA ConflictsGrow ==
  ASSUME NEW b, NEW d, Below(b, d)
  PROVE  Standing(Conflicts(b)) \subseteq Conflicts(d)
<1>1. \A i \in b.known : MetadataTimes(b, i) \subseteq MetadataTimes(d, i)
  <2> SUFFICES ASSUME NEW i \in b.known, NEW e \in MetadataTimes(b, i)
               PROVE  e \in MetadataTimes(d, i)
    OBVIOUS
  <2>1. e \in Section \X Time /\ b.sheets[i].dates[e[1]] = e[2]
    BY DEF MetadataTimes
  <2>2. e[1] \in Section /\ e[2] \in Time
    BY <2>1
  <2>3. e[2] # Absent
    BY <2>2, TimeAssumption DEF Time, Absent
  <2> QED
    BY <2>1, <2>2, <2>3 DEF MetadataTimes, Below
<1>2. \A i \in b.known : Stamps(b, i) \subseteq Stamps(d, i)
  <2>1. ASSUME NEW i \in b.known PROVE Stamps(b, i) \subseteq Stamps(d, i)
    <3>1. MetadataTimes(b, i) \subseteq MetadataTimes(d, i)
      BY <1>1
    <3>2. i \in Updated(b) => i \in Updated(d)
      BY DEF Updated, Below
    <3> QED
      BY <3>1, <3>2 DEF Stamps, Below
  <2> QED
    BY <2>1
<1>3. MultipleTimes(b) \subseteq MultipleTimes(d)
  <2> SUFFICES ASSUME NEW i \in b.known, Cardinality(MetadataTimes(b, i)) > 1
               PROVE  Cardinality(MetadataTimes(d, i)) > 1
    BY DEF MultipleTimes, Below
  <2>1. MetadataTimes(b, i) \subseteq MetadataTimes(d, i)
    BY <1>1
  <2>2. IsFiniteSet(MetadataTimes(d, i))
    <3>1. IsFiniteSet(Time)
      BY TimeAssumption, FS_Interval DEF Time
    <3>2. IsFiniteSet(Section)
      <4>1. IsFiniteSet({}) /\ Section = (({} \cup {"extraction"}) \cup {"exif"}) \cup {"filesystem"}
        BY FS_EmptySet DEF Section
      <4> QED
        BY <4>1, FS_AddElement
    <3>3. IsFiniteSet(Section \X Time)
      BY <3>1, <3>2, FS_Product
    <3> QED
      BY <3>3, FS_Subset DEF MetadataTimes
  <2>3. /\ Cardinality(MetadataTimes(b, i)) <= Cardinality(MetadataTimes(d, i))
        /\ Cardinality(MetadataTimes(b, i)) \in Nat /\ Cardinality(MetadataTimes(d, i)) \in Nat
    BY <2>1, <2>2, FS_Subset, FS_CardinalityType
  <2> QED
    BY <2>3
<1>4. FilesystemFirst(b) \subseteq FilesystemFirst(d)
  BY <1>1 DEF FilesystemFirst, Below
<1>5. Drifted(b) \subseteq Drifted(d)
  BY <1>2 DEF Drifted, Below
<1> QED
  BY <1>3, <1>4, <1>5 DEF Standing, Conflicts

-----------------------------------------------------------------------------
(* A graph of a build that has what the correlations it takes up rest on.   *)
LEMMA GraphWellMade ==
  ASSUME EnginesTypeOK, NEW b \in Build, NEW cs \in SUBSET Correlation,
         NEW took \in SUBSET Correlation,
         \A r \in b.seen : r.item \in b.known,
         \A c \in took : Supported(c, b.seen),
         graph' = [entities |-> Entities(b),
                   relations |-> Contained(b) \cup Signed(b) \cup Correlates(b, cs),
                   taken |-> Taken(b, took)]
  PROVE  GraphExplained'
<1>1. b.known \subseteq Item /\ b.seen \subseteq Row
  BY DEF Build
<1>2. \A r \in Mentions(b) : r.item \in b.known /\ r.type \in TextType
  BY <1>1 DEF Mentions, Row, TextRow, PairRow, PlainRow, PairTable
<1>3. \A r \in Matches(b) : r.item \in b.known
  BY DEF Matches
<1>4. "media" \notin TextType /\ "signature" \notin TextType
  BY TextTypeAssumption
<1> DEFINE MediaOf(i) == [name |-> Media(i), items |-> {i}]
           MentionOf(r) == [name |-> Mention(r),
                            items |-> {x.item : x \in {y \in Mentions(b) : Mention(y) = Mention(r)}}]
           ComparisonOf(r) == [name |-> Comparison(r), items |-> {r.item, r.other}]
<1>5. /\ \A i : MediaOf(i).name.type = "media" /\ MediaOf(i).name.item = i
      /\ \A r \in Mentions(b) : MentionOf(r).name = Mention(r) /\ Mention(r).type \in TextType
      /\ \A r \in Matches(b) : /\ ComparisonOf(r).name.type = "signature"
                               /\ ComparisonOf(r).name.item = r.item
                               /\ ComparisonOf(r).name.other = r.other
  BY <1>2 DEF Media, Mention, Comparison
<1>6. ASSUME NEW e \in Entities(b)
      PROVE  \/ \E i \in b.known : e = MediaOf(i)
             \/ \E r \in Mentions(b) : e = MentionOf(r)
             \/ \E r \in Matches(b) : e = ComparisonOf(r)
  BY DEF Entities
<1>7. /\ \A i \in b.known : MediaOf(i) \in Entities(b)
      /\ \A r \in Mentions(b) : MentionOf(r) \in Entities(b)
      /\ \A r \in Matches(b) : ComparisonOf(r) \in Entities(b)
  BY DEF Entities
<1>8. ASSUME NEW e \in Entities(b), NEW f \in Entities(b), e.name = f.name
      PROVE  e = f
  <2>1. CASE \E i \in b.known : e = MediaOf(i)
    <3>1. PICK i \in b.known : e = MediaOf(i)
      BY <2>1
    <3>2. f.name.type = "media" /\ f.name.item = i
      BY <1>5, <1>8, <3>1
    <3> HIDE DEF MediaOf, MentionOf, ComparisonOf
    <3>3. PICK j \in b.known : f = MediaOf(j)
      BY <1>4, <1>5, <1>6, <3>2
    <3>4. i = j
      BY <1>5, <3>2, <3>3
    <3> QED
      BY <3>1, <3>3, <3>4
  <2>2. CASE \E r \in Mentions(b) : e = MentionOf(r)
    <3>1. PICK r \in Mentions(b) : e = MentionOf(r)
      BY <2>2
    <3>2. e.name = Mention(r) /\ f.name = Mention(r) /\ Mention(r).type \in TextType
      BY <1>5, <1>8, <3>1
    <3>3. PICK x \in Mentions(b) : f = MentionOf(x)
      <4> HIDE DEF MediaOf, MentionOf, ComparisonOf
      <4> QED
        BY <1>4, <1>5, <1>6, <3>2
    <3>4. Mention(x) = Mention(r)
      BY <1>5, <3>2, <3>3
    <3> QED
      BY <3>1, <3>3, <3>4
  <2>3. CASE \E r \in Matches(b) : e = ComparisonOf(r)
    <3>1. PICK r \in Matches(b) : e = ComparisonOf(r)
      BY <2>3
    <3>2. f.name.type = "signature" /\ f.name.item = r.item /\ f.name.other = r.other
      BY <1>5, <1>8, <3>1
    <3>3. PICK x \in Matches(b) : f = ComparisonOf(x)
      <4> HIDE DEF MediaOf, MentionOf, ComparisonOf
      <4> QED
        BY <1>4, <1>5, <1>6, <3>2
    <3>4. x.item = r.item /\ x.other = r.other
      BY <1>5, <3>2, <3>3
    <3> QED
      BY <3>1, <3>3, <3>4 DEF Comparison
  <2> QED
    BY <1>6, <2>1, <2>2, <2>3
<1> DEFINE Has(name, i) == \E e \in Entities(b) : e.name = name /\ i \in e.items
<1>9. /\ \A i \in b.known : Has(Media(i), i)
      /\ \A r \in Mentions(b) : Has(Mention(r), r.item)
      /\ \A r \in Matches(b) : Has(Comparison(r), r.item) /\ Has(Comparison(r), r.other)
  BY <1>7
<1> DEFINE Good(l) ==
      /\ l.source # l.target
      /\ Has(l.source, l.item)
      /\ \E e \in Entities(b) : e.name = l.target
      /\ l.target.type # "media" => Has(l.target, l.item)
<1>10. ASSUME NEW r \in Mentions(b)
       PROVE  Good(Link(Media(r.item), "contains", Mention(r), r.item))
  <2>1. Media(r.item) # Mention(r)
    BY <1>2, <1>4 DEF Media, Mention
  <2> HIDE DEF Has
  <2>2. Has(Media(r.item), r.item) /\ Has(Mention(r), r.item)
    BY <1>2, <1>9
  <2> QED
    BY <2>1, <2>2 DEF Link, Has
<1>11. ASSUME NEW r \in Matches(b), NEW i \in {r.item, r.other} \cap b.known
       PROVE  Good(Link(Media(i), "signed_by", Comparison(r), i))
  <2>1. Media(i) # Comparison(r)
    BY DEF Media, Comparison
  <2> HIDE DEF Has
  <2>2. Has(Media(i), i) /\ Has(Comparison(r), i)
    BY <1>9
  <2> QED
    BY <2>1, <2>2 DEF Link, Has
<1>12. ASSUME NEW t, NEW i \in b.known, NEW j \in b.known, i # j
       PROVE  Good(Link(Media(i), t, Media(j), i))
  <2>1. Media(i) # Media(j) /\ Media(j).type = "media"
    BY <1>12 DEF Media
  <2> HIDE DEF Has
  <2>2. Has(Media(i), i) /\ Has(Media(j), j)
    BY <1>9
  <2> QED
    BY <2>1, <2>2 DEF Link, Has
<1>13. ASSUME NEW l \in graph'.relations
       PROVE  Good(l)
  <2> HIDE DEF Good
  <2>1. CASE l \in Contained(b)
    BY <1>10, <2>1 DEF Contained
  <2>2. CASE l \in Signed(b)
    BY <1>3, <1>11, <1>12, <2>2 DEF Signed
  <2>3. CASE l \in Correlates(b, cs)
    BY <1>12, <2>3 DEF Correlates, Taken
  <2> QED
    BY <1>13, <2>1, <2>2, <2>3
<1>14. ASSUME NEW c \in graph'.taken, c.type \in TextType \cup {"signature_ai"}
       PROVE  \E e \in Entities(b) : e.name.type # "media" /\ {c.left, c.right} \subseteq e.items
  <2>1. c \in took /\ c.left \in b.known
    BY DEF Taken
  <2>2. CASE c.type \in TextType
    <3>1. PICK x \in b.seen, y \in b.seen :
            SameText(x, y) /\ x.type = c.type /\ x.item = c.left /\ y.item = c.right
      BY <2>1, <2>2 DEF Supported
    <3>2. x \in Mentions(b) /\ y \in Mentions(b) /\ Mention(y) = Mention(x)
      BY <3>1 DEF Mentions, SameText, Mention
    <3>3. {c.left, c.right} \subseteq MentionOf(x).items
      BY <3>1, <3>2
    <3>4. MentionOf(x).name.type # "media"
      BY <1>4, <1>5, <3>2
    <3> QED
      BY <1>7, <3>2, <3>3, <3>4
  <2>3. CASE c.type = "signature_ai"
    <3>1. PICK x \in b.seen : x.table = "signature_ai" /\ {x.item, x.other} = {c.left, c.right}
      BY <2>1, <2>3 DEF Supported
    <3>2. x \in Matches(b)
      BY <3>1 DEF Matches
    <3>3. {c.left, c.right} \subseteq ComparisonOf(x).items
      BY <3>1
    <3>4. ComparisonOf(x).name.type # "media"
      BY <1>5, <3>2
    <3> QED
      BY <1>7, <3>2, <3>3, <3>4
  <2> QED
    BY <1>14, <2>2, <2>3
<1>15. \A name, i : Has(name, i) => i \in ItemsOf(name)'
  BY DEF ItemsOf
<1>16. graph'.entities = Entities(b)
  OBVIOUS
<1>17. ASSUME NEW l \in graph'.relations
       PROVE  /\ l.source # l.target
              /\ {l.source, l.target} \subseteq {e.name : e \in graph'.entities}
              /\ l.item \in ItemsOf(l.source)'
              /\ l.target.type # "media" => l.item \in ItemsOf(l.target)'
  <2>1. Good(l)
    BY <1>13
  <2>2. \E e \in Entities(b) : e.name = l.source
    BY <2>1
  <2> HIDE DEF Has
  <2> QED
    BY <1>15, <1>16, <2>1, <2>2
<1> QED
  BY <1>8, <1>14, <1>16, <1>17 DEF GraphExplained

-----------------------------------------------------------------------------
(* The timeline build as it began, and what is on record now.               *)
Begun ==
  LET b == reading["timeline"] IN [known |-> b.known, sheets |-> b.sheets, seen |-> b.before]

Present == [known |-> Uploaded, sheets |-> held, seen |-> rows]

(* The conflicts of a timeline follow from what there was when the next     *)
(* build began, and correlations from rows that the resolver finds.         *)
EnginesInv ==
  /\ EnginesTypeOK /\ RowsKept
  /\ BuildSound("timeline", TimelineTables)
  /\ BuildSound("correlation", CorrelationTables)
  /\ BuildSound("entities", ResolverTables)
  /\ Below(reading["timeline"], Present)
  /\ Standing(timeline.conflicts) \subseteq Conflicts(Present)
  /\ reading["timeline"].at # 0 => Standing(timeline.conflicts) \subseteq Conflicts(Begun)
  /\ \A r \in reading["entities"].seen : r.item \in reading["entities"].known
  /\ \A c \in correlations : Supported(c, rows)
  /\ reading["entities"].at # 0 =>
       \A c \in earlier : Supported(c, reading["entities"].before)
  /\ GraphExplained

(* It holds at the start.                                                   *)
LEMMA EnginesStarts == EnginesInit => EnginesInv
<1> SUFFICES ASSUME EnginesInit
             PROVE  EnginesInv
  OBVIOUS
<1>1. EnginesTypeOK
  BY TypesStart
<1>2. /\ rows = {} /\ correlations = {} /\ timeline = NoTimeline /\ graph = NoGraph
      /\ \A e \in Engine : reading[e] = NoBuild
  BY DEF EnginesInit, RecordsInit, TimelineInit, CorrelationInit, GraphInit
<1>3. reading["timeline"] = NoBuild /\ reading["correlation"] = NoBuild
        /\ reading["entities"] = NoBuild
  BY <1>2 DEF Engine
<1>4. \A e \in Engine : \A tables : BuildSound(e, tables)
  BY <1>2 DEF BuildSound, NoBuild
<1>5. Below(reading["timeline"], Present)
  BY <1>2, <1>3 DEF Below, NoBuild, Present, Uploaded
<1>6. GraphExplained
  BY <1>2 DEF GraphExplained, NoGraph
<1> QED
  BY <1>1, <1>2, <1>3, <1>4, <1>5, <1>6
     DEF EnginesInv, RowsKept, Standing, NoTimeline, NoBuild, Engine

(* Conflicts that stand, and results that are bracketed, of one step.       *)
ConflictsKept ==
  \A c \in timeline.conflicts : c.type # "future_timestamp" => c \in timeline'.conflicts

TimelineBracketed ==
  timeline' # timeline =>
    reading["timeline"].before \subseteq timeline'.rows /\ timeline'.rows \subseteq rows

CorrelationsBracketed ==
  correlations' # correlations =>
    LET b == reading["correlation"] IN
      /\ Correlated(b.before, b.known, NoTimeline) \subseteq correlations'
      /\ correlations' \subseteq Correlated(rows, Uploaded, timeline)

(* The conflicts of the next state are those of the next inputs: they depend *)
(* on nothing else.                                                         *)
LEMMA ConflictsNext ==
  /\ Conflicts(Present)' = Conflicts(Present')
  /\ Conflicts(Begun)' = Conflicts(Begun')
<1>1. MultipleTimes(Present)' = MultipleTimes(Present') /\ MultipleTimes(Begun)' = MultipleTimes(Begun')
  BY DEF MultipleTimes, MetadataTimes
<1>2. FilesystemFirst(Present)' = FilesystemFirst(Present')
      /\ FilesystemFirst(Begun)' = FilesystemFirst(Begun')
  BY DEF FilesystemFirst, MetadataTimes
<1>3. InFuture(Present)' = InFuture(Present') /\ InFuture(Begun)' = InFuture(Begun')
  BY DEF InFuture, Stamps, MetadataTimes, Updated
<1>4. Drifted(Present)' = Drifted(Present') /\ Drifted(Begun)' = Drifted(Begun')
  BY DEF Drifted, Stamps, MetadataTimes, Updated
<1> QED
  BY <1>1, <1>2, <1>3, <1>4 DEF Conflicts

(* What others commit.                                                      *)
LEMMA WritesKeep ==
  ASSUME EnginesInv, UNCHANGED <<reading, timeline, correlations, earlier, graph>>,
         EnginesTypeOK', rows \subseteq rows', RowsKept', Below(Present, Present'),
         Uploaded \subseteq Uploaded'
  PROVE  EnginesInv'
<1> USE DEF EnginesInv
<1>1. /\ BuildSound("timeline", TimelineTables)'
      /\ BuildSound("correlation", CorrelationTables)'
      /\ BuildSound("entities", ResolverTables)'
  BY SoundApart
<1>2. Below(reading["timeline"], Present)'
  BY DEF Below, Present
<1>3. Standing(timeline.conflicts)' \subseteq Conflicts(Present)'
  <2>1. Standing(Conflicts(Present)) \subseteq Conflicts(Present')
    BY ConflictsGrow
  <2>2. Standing(timeline.conflicts) \subseteq Standing(Conflicts(Present))
    BY DEF Standing
  <2>3. Conflicts(Present') = Conflicts(Present)'
    BY ConflictsNext
  <2>4. Standing(timeline.conflicts)' = Standing(timeline.conflicts)
    BY DEF Standing
  <2> QED
    BY <2>1, <2>2, <2>3, <2>4
<1>4. reading["timeline"]'.at # 0 => Standing(timeline.conflicts)' \subseteq Conflicts(Begun)'
  <2>1. Begun' = Begun
    BY DEF Begun
  <2>2. Conflicts(Begun)' = Conflicts(Begun')
    BY ConflictsNext
  <2> QED
    BY <2>1, <2>2 DEF Standing
<1>5. \A c \in correlations' : Supported(c, rows')
  BY SupportGrows
<1>6. GraphExplained'
  BY DEF GraphExplained, ItemsOf
<1> QED
  BY <1>1, <1>2, <1>3, <1>4, <1>5, <1>6 DEF Supported, SameText

(* A build leaves those of the other engines as they are.                   *)
LEMMA OtherBuilds ==
  ASSUME EnginesInv, NEW e \in Engine, UNCHANGED <<held, rows>>,
         \A f \in Engine \ {e} : reading'[f] = reading[f]
  PROVE  /\ e # "timeline" => /\ BuildSound("timeline", TimelineTables)'
                              /\ Below(reading["timeline"], Present)'
                              /\ UNCHANGED timeline =>
                                   (reading["timeline"].at # 0 =>
                                      Standing(timeline.conflicts) \subseteq Conflicts(Begun))'
         /\ e # "correlation" => BuildSound("correlation", CorrelationTables)'
         /\ e # "entities" =>
              /\ BuildSound("entities", ResolverTables)'
              /\ (\A r \in reading["entities"].seen : r.item \in reading["entities"].known)'
              /\ UNCHANGED earlier => (reading["entities"].at # 0 =>
                   \A c \in earlier : Supported(c, reading["entities"].before))'
         /\ RowsKept'
         /\ UNCHANGED timeline => (Standing(timeline.conflicts) \subseteq Conflicts(Present))'
         /\ UNCHANGED correlations => (\A c \in correlations : Supported(c, rows))'
         /\ UNCHANGED graph => GraphExplained'
<1> USE DEF EnginesInv
<1>1. Uploaded' = Uploaded
  BY DEF Uploaded
<1>2. Present' = Present
  BY <1>1 DEF Present
<1>3. ASSUME e # "timeline"
      PROVE  /\ BuildSound("timeline", TimelineTables)'
             /\ Below(reading["timeline"], Present)'
             /\ UNCHANGED timeline =>
                  (reading["timeline"].at # 0 =>
                     Standing(timeline.conflicts) \subseteq Conflicts(Begun))'
  <2>1. reading'["timeline"] = reading["timeline"]
    BY <1>3 DEF Engine
  <2>2. BuildSound("timeline", TimelineTables)'
    BY <1>1, <2>1, SoundApart
  <2>3. Below(reading["timeline"], Present)'
    BY <1>2, <2>1 DEF Below
  <2>4. Begun' = Begun
    BY <2>1 DEF Begun
  <2>5. Conflicts(Begun)' = Conflicts(Begun)
    BY <2>4, ConflictsNext
  <2> QED
    BY <2>1, <2>2, <2>3, <2>5 DEF Standing
<1>4. ASSUME e # "correlation"
      PROVE  BuildSound("correlation", CorrelationTables)'
  <2>1. reading'["correlation"] = reading["correlation"]
    BY <1>4 DEF Engine
  <2> QED
    BY <1>1, <2>1, SoundApart
<1>5. ASSUME e # "entities"
      PROVE  /\ BuildSound("entities", ResolverTables)'
             /\ (\A r \in reading["entities"].seen : r.item \in reading["entities"].known)'
             /\ UNCHANGED earlier => (reading["entities"].at # 0 =>
                  \A c \in earlier : Supported(c, reading["entities"].before))'
  <2>1. reading'["entities"] = reading["entities"]
    BY <1>5 DEF Engine
  <2>2. BuildSound("entities", ResolverTables)'
    BY <1>1, <2>1, SoundApart
  <2> QED
    BY <2>1, <2>2 DEF Supported, SameText
<1>6. RowsKept'
  BY <1>1 DEF RowsKept
<1>7. ASSUME UNCHANGED timeline
      PROVE  (Standing(timeline.conflicts) \subseteq Conflicts(Present))'
  <2>1. Conflicts(Present)' = Conflicts(Present)
    BY <1>2, ConflictsNext
  <2> QED
    BY <1>7, <2>1 DEF Standing
<1>8. UNCHANGED correlations => (\A c \in correlations : Supported(c, rows))'
  BY DEF Supported, SameText
<1>9. UNCHANGED graph => GraphExplained'
  BY DEF GraphExplained, ItemsOf
<1> QED
  BY <1>3, <1>4, <1>5, <1>6, <1>7, <1>8, <1>9

(* The builds of timelines.                                                 *)
LEMMA TimelineSteps ==
  ASSUME EnginesInv, EnginesTypeOK', TimelineNext, UNCHANGED <<correlations, earlier, graph>>
  PROVE  EnginesInv' /\ ConflictsKept /\ TimelineBracketed
<1> DEFINE b == reading["timeline"]
<1> USE DEF EnginesInv
<1>0. "timeline" \in Engine /\ RecordsTypeOK /\ b \in Build /\ b.at \in Nat
  BY DEF Engine, EnginesTypeOK, RecordsTypeOK, Build
<1>1. UNCHANGED <<held, rows>> /\ \A f \in Engine \ {"timeline"} : reading'[f] = reading[f]
  BY DEF TimelineNext, TimelineStart, TimelineRead, TimelinePublish, AbandonBuild, BeginBuild,
         ReadTable, EndBuild, EnginesTypeOK, RecordsTypeOK
<1>2. /\ BuildSound("correlation", CorrelationTables)' /\ BuildSound("entities", ResolverTables)'
      /\ (\A r \in reading["entities"].seen : r.item \in reading["entities"].known)'
      /\ (reading["entities"].at # 0 =>
            \A c \in earlier : Supported(c, reading["entities"].before))'
      /\ RowsKept' /\ (\A c \in correlations : Supported(c, rows))' /\ GraphExplained'
      /\ UNCHANGED timeline => (Standing(timeline.conflicts) \subseteq Conflicts(Present))'
  BY <1>0, <1>1, OtherBuilds
<1>3. Present' = Present /\ Uploaded' = Uploaded
  BY <1>1 DEF Present, Uploaded
<1>4. CASE TimelineStart
  <2>1. BuildSound("timeline", TimelineTables)'
    BY <1>0, <1>4, SoundBuilds DEF TimelineStart
  <2>2. reading'["timeline"] = [at |-> 1, known |-> Uploaded, sheets |-> held, seen |-> {},
                                before |-> rows]
    BY <1>0, <1>4 DEF TimelineStart, BeginBuild, RecordsTypeOK
  <2>3. Below(reading'["timeline"], Present)
    BY <2>2 DEF Below, Present, Uploaded
  <2>4. Below(reading["timeline"], Present)'
    BY <1>3, <2>3 DEF Below
  <2>5. Begun' = Present
    BY <2>2 DEF Begun, Present
  <2>6. Conflicts(Begun)' = Conflicts(Present)
    BY <2>5, ConflictsNext
  <2>7. timeline' = timeline
    BY <1>4 DEF TimelineStart
  <2> QED
    BY <1>2, <2>1, <2>4, <2>6, <2>7 DEF Standing, ConflictsKept, TimelineBracketed
<1>5. CASE TimelineRead
  <2>1. BuildSound("timeline", TimelineTables)'
    <3>1. OfKnown("timeline") \cup ReferenceKnown("timeline") \subseteq rows
      BY DEF OfKnown, ReferenceKnown
    <3> QED
      BY <1>0, <1>5, <3>1, SoundBuilds DEF TimelineRead
  <2>2. /\ reading'["timeline"].known = b.known /\ reading'["timeline"].sheets = b.sheets
        /\ reading'["timeline"].before = b.before /\ b.at # 0
    BY <1>0, <1>5 DEF TimelineRead, ReadTable, RecordsTypeOK
  <2>3. reading'["timeline"].seen \subseteq rows
    BY <1>1, <2>1 DEF BuildSound
  <2>4. Below(reading'["timeline"], Present)
    BY <2>2, <2>3 DEF Below, Present
  <2>5. Below(reading["timeline"], Present)'
    BY <1>3, <2>4 DEF Below
  <2>6. Begun' = Begun
    BY <2>2 DEF Begun
  <2>7. Conflicts(Begun)' = Conflicts(Begun)
    BY <2>6, ConflictsNext
  <2>8. timeline' = timeline
    BY <1>5 DEF TimelineRead
  <2> QED
    BY <1>2, <2>1, <2>2, <2>5, <2>7, <2>8 DEF Standing, ConflictsKept, TimelineBracketed
<1>6. ASSUME EndBuild("timeline")
      PROVE  /\ BuildSound("timeline", TimelineTables)' /\ Below(reading["timeline"], Present)'
             /\ reading'["timeline"].at = 0
  <2>1. reading'["timeline"] = NoBuild
    BY <1>0, <1>6 DEF EndBuild, RecordsTypeOK
  <2>2. BuildSound("timeline", TimelineTables)'
    BY <1>0, <1>6, SoundBuilds
  <2>3. Below(NoBuild, Present)
    BY DEF Below, NoBuild, Present, Uploaded
  <2> QED
    BY <1>3, <2>1, <2>2, <2>3 DEF Below, NoBuild
<1>7. CASE TimelinePublish
  <2>1. EndBuild("timeline") /\ HasAll("timeline", TimelineTables)
    BY <1>7 DEF TimelinePublish
  <2>2. timeline'.rows = b.seen /\ timeline'.conflicts = Conflicts(b)
    BY <1>7 DEF TimelinePublish
  <2>3. b.before \subseteq b.seen
    <3> SUFFICES ASSUME NEW r \in b.before
                 PROVE  r \in b.seen
      OBVIOUS
    <3>1. r \in Row
      BY <1>0 DEF Build
    <3>2. r.table \in Table
      BY <3>1 DEF Row, TextRow, PairRow, PlainRow
    <3> QED
      BY <1>0, <2>1, <3>2, TablesComplete, BuildComplete
  <2>4. Below(Begun, b)
    BY <1>0, <2>3 DEF Below, Begun, Build
  <2>5. b.at # 0
    <3>1. Len(TimelineTables) \in Nat
      BY TablesComplete
    <3> QED
      BY <2>1, <3>1 DEF HasAll
  <2>6. Standing(timeline.conflicts) \subseteq Conflicts(b)
    <3>1. Standing(timeline.conflicts) \subseteq Standing(Conflicts(Begun))
      BY <2>5 DEF Standing
    <3> QED
      BY <2>4, <3>1, ConflictsGrow
  <2>7. Standing(Conflicts(b)) \subseteq Conflicts(Present)
    BY ConflictsGrow
  <2>8. (Standing(timeline.conflicts) \subseteq Conflicts(Present))'
    <3>1. Conflicts(Present)' = Conflicts(Present)
      BY <1>3, ConflictsNext
    <3> QED
      BY <2>2, <2>7, <3>1 DEF Standing
  <2>9. ConflictsKept
    BY <2>2, <2>6 DEF ConflictsKept, Standing
  <2>10. TimelineBracketed
    BY <2>2, <2>3 DEF TimelineBracketed, BuildSound
  <2> QED
    BY <1>2, <1>6, <2>1, <2>8, <2>9, <2>10
<1>8. CASE AbandonBuild("timeline") /\ UNCHANGED timeline
  BY <1>2, <1>6, <1>8 DEF AbandonBuild, ConflictsKept, TimelineBracketed
<1> QED
  BY <1>4, <1>5, <1>7, <1>8 DEF TimelineNext

(* The builds of correlations.                                              *)
LEMMA CorrelationSteps ==
  ASSUME EnginesInv, EnginesTypeOK', CorrelationNext, UNCHANGED <<earlier, graph>>
  PROVE  EnginesInv' /\ UNCHANGED timeline /\ CorrelationsBracketed
<1> DEFINE b == reading["correlation"]
<1> USE DEF EnginesInv
<1>0. "correlation" \in Engine /\ RecordsTypeOK /\ b \in Build /\ b.at \in Nat
  BY DEF Engine, EnginesTypeOK, RecordsTypeOK, Build
<1>1. /\ UNCHANGED <<held, rows, timeline>>
      /\ \A f \in Engine \ {"correlation"} : reading'[f] = reading[f]
  BY DEF CorrelationNext, CorrelationStart, CorrelationRead, CorrelationPublish, AbandonBuild,
         BeginBuild, ReadTable, EndBuild, EnginesTypeOK, RecordsTypeOK
<1>2. /\ BuildSound("timeline", TimelineTables)' /\ BuildSound("entities", ResolverTables)'
      /\ Below(reading["timeline"], Present)'
      /\ (reading["timeline"].at # 0 => Standing(timeline.conflicts) \subseteq Conflicts(Begun))'
      /\ (\A r \in reading["entities"].seen : r.item \in reading["entities"].known)'
      /\ (reading["entities"].at # 0 =>
            \A c \in earlier : Supported(c, reading["entities"].before))'
      /\ RowsKept' /\ GraphExplained'
      /\ (Standing(timeline.conflicts) \subseteq Conflicts(Present))'
      /\ UNCHANGED correlations => (\A c \in correlations : Supported(c, rows))'
  BY <1>0, <1>1, OtherBuilds
<1>3. BuildSound("correlation", CorrelationTables)'
  <2>1. OfKnown("correlation") \cup ReferenceKnown("correlation") \subseteq rows
    BY DEF OfKnown, ReferenceKnown
  <2> QED
    BY <1>0, <2>1, SoundBuilds
       DEF CorrelationNext, CorrelationStart, CorrelationRead, CorrelationPublish, AbandonBuild
<1>4. CASE UNCHANGED correlations
  BY <1>1, <1>2, <1>3, <1>4 DEF CorrelationsBracketed
<1>5. CASE CorrelationPublish
  <2>1. HasAll("correlation", CorrelationTables)
          /\ correlations' = Correlated(b.seen, b.known, timeline)
    BY <1>5 DEF CorrelationPublish
  <2>2. \A c \in correlations' : Supported(c, rows)
    BY <2>1, CorrelatedSupported, SupportGrows DEF BuildSound
  <2>3. (\A c \in correlations : Supported(c, rows))'
    BY <1>1, <2>2 DEF Supported, SameText
  <2>4. b.known \subseteq Item /\ b.seen \subseteq rows /\ b.known \subseteq Uploaded
    BY <1>0 DEF BuildSound, Build
  <2>5. \A r \in b.before : r.table \in {"extraction"} \cup PairTable => r \in b.seen
    <3> SUFFICES ASSUME NEW r \in b.before, r.table \in {"extraction"} \cup PairTable
                 PROVE  r \in b.seen
      OBVIOUS
    <3>1. r \in Row
      BY <1>0 DEF Build
    <3>2. r.table \in Table
      BY <3>1 DEF Row, TextRow, PairRow, PlainRow
    <3> QED
      BY <1>0, <2>1, <3>2, TablesComplete, BuildComplete
  <2>6. Correlated(b.before, b.known, NoTimeline) \subseteq correlations'
    <3>1. Correlated(b.before, b.known, NoTimeline) \subseteq Correlated(b.seen, b.known, NoTimeline)
      BY <2>4, <2>5, CorrelatedGrows
    <3>2. Correlated(b.seen, b.known, NoTimeline) \subseteq Correlated(b.seen, b.known, timeline)
      BY TimelineAdds
    <3> QED
      BY <2>1, <3>1, <3>2
  <2>7. Correlated(b.seen, b.known, timeline) \subseteq Correlated(rows, Uploaded, timeline)
    <3>1. Uploaded \subseteq Item
      BY DEF Uploaded
    <3> QED
      BY <2>4, <3>1, CorrelatedGrows
  <2> QED
    BY <1>1, <1>2, <1>3, <2>1, <2>3, <2>6, <2>7 DEF CorrelationsBracketed
<1> QED
  BY <1>4, <1>5 DEF CorrelationNext, CorrelationStart, CorrelationRead

(* The builds of the resolver.                                              *)
LEMMA ResolverSteps ==
  ASSUME EnginesInv, EnginesTypeOK', ResolverNext
  PROVE  EnginesInv' /\ UNCHANGED <<timeline, correlations>>
<1> DEFINE b == reading["entities"]
<1> USE DEF EnginesInv
<1>0. "entities" \in Engine /\ RecordsTypeOK /\ b \in Build /\ b.at \in Nat
  BY DEF Engine, EnginesTypeOK, RecordsTypeOK, Build
<1>1. /\ UNCHANGED <<held, rows, timeline, correlations>>
      /\ \A f \in Engine \ {"entities"} : reading'[f] = reading[f]
  BY DEF ResolverNext, ResolverStart, ResolverRead, ResolverPublish, AbandonBuild,
         BeginBuild, ReadTable, EndBuild, EnginesTypeOK, RecordsTypeOK
<1>2. /\ BuildSound("timeline", TimelineTables)' /\ BuildSound("correlation", CorrelationTables)'
      /\ Below(reading["timeline"], Present)'
      /\ (reading["timeline"].at # 0 => Standing(timeline.conflicts) \subseteq Conflicts(Begun))'
      /\ RowsKept' /\ (Standing(timeline.conflicts) \subseteq Conflicts(Present))'
      /\ (\A c \in correlations : Supported(c, rows))'
      /\ UNCHANGED graph => GraphExplained'
  BY <1>0, <1>1, OtherBuilds
<1>3. BuildSound("entities", ResolverTables)'
  <2>1. OfKnown("entities") \subseteq rows
    BY DEF OfKnown
  <2> QED
    BY <1>0, <2>1, SoundBuilds
       DEF ResolverNext, ResolverStart, ResolverRead, ResolverPublish, AbandonBuild
<1> DEFINE SeenKnown == (\A r \in reading["entities"].seen : r.item \in reading["entities"].known)'
           EarlierFound == (reading["entities"].at # 0 =>
                              \A c \in earlier : Supported(c, reading["entities"].before))'
<1>4. CASE ResolverStart
  <2>1. /\ reading'["entities"].seen = {} /\ reading'["entities"].before = rows
        /\ earlier' = correlations /\ graph' = graph
    BY <1>0, <1>4 DEF ResolverStart, BeginBuild, RecordsTypeOK
  <2>2. SeenKnown
    BY <2>1
  <2>3. EarlierFound
    BY <2>1 DEF Supported, SameText
  <2> QED
    BY <1>1, <1>2, <1>3, <2>1, <2>2, <2>3
<1>5. CASE ResolverRead
  <2> DEFINE more == {r \in OfKnown("entities") : r.table = ResolverTables[b.at]}
  <2>1. /\ reading'["entities"].seen = b.seen \cup more
        /\ reading'["entities"].known = b.known
        /\ reading'["entities"].before = b.before
        /\ b.at \in 1..Len(ResolverTables) /\ earlier' = earlier /\ graph' = graph
    BY <1>0, <1>5 DEF ResolverRead, ReadTable, RecordsTypeOK
  <2>2. SeenKnown
    BY <2>1 DEF OfKnown
  <2>3. b.at # 0
    BY <1>0, <2>1
  <2>4. EarlierFound
    <3>1. \A c \in earlier : Supported(c, b.before)
      BY <2>3
    <3>2. \A c : Supported(c, reading["entities"].before)' = Supported(c, b.before)
      BY <2>1 DEF Supported, SameText
    <3> QED
      BY <2>1, <3>1, <3>2
  <2> QED
    BY <1>1, <1>2, <1>3, <2>1, <2>2, <2>4
<1>6. ASSUME EndBuild("entities")
      PROVE  SeenKnown /\ EarlierFound
  <2>1. reading'["entities"] = NoBuild
    BY <1>0, <1>6 DEF EndBuild, RecordsTypeOK
  <2> QED
    BY <2>1 DEF NoBuild
<1>7. CASE ResolverPublish
  <2>1. EndBuild("entities") /\ HasAll("entities", ResolverTables)
    BY <1>7 DEF ResolverPublish
  <2>2. b.at # 0
    <3>1. Len(ResolverTables) \in Nat
      BY TablesComplete
    <3> QED
      BY <2>1, <3>1 DEF HasAll
  <2>3. ASSUME NEW r \in b.before, r.table \in {"extraction", "signature_ai"}
        PROVE  r \in b.seen
    <3>1. r \in Row
      BY <1>0 DEF Build
    <3>2. r.table \in Table
      BY <3>1 DEF Row, TextRow, PairRow, PlainRow
    <3> QED
      BY <1>0, <2>1, <2>3, <3>2, TablesComplete, BuildComplete
  <2>4. ASSUME NEW c \in correlations \cap earlier
        PROVE  Supported(c, b.seen)
    <3>1. Supported(c, b.before)
      BY <2>2, <2>4
    <3> QED
      BY <2>3, <3>1 DEF Supported, SameText
  <2>5. correlations \in SUBSET Correlation /\ correlations \cap earlier \in SUBSET Correlation
    BY DEF EnginesTypeOK, CorrelationTypeOK
  <2>6. GraphExplained'
    BY <1>0, <1>7, <2>4, <2>5, GraphWellMade DEF ResolverPublish
  <2> QED
    BY <1>1, <1>2, <1>3, <1>6, <2>1, <2>6
<1>8. CASE AbandonBuild("entities") /\ UNCHANGED <<timeline, correlations, earlier, graph>>
  BY <1>1, <1>2, <1>3, <1>6, <1>8 DEF AbandonBuild
<1> QED
  BY <1>4, <1>5, <1>7, <1>8 DEF ResolverNext

(* Every step of the engines and of those who write.                        *)
LEMMA EnginesStep ==
  ASSUME EnginesInv, NEW kinds, EnginesNext(kinds)
  PROVE  EnginesInv' /\ ConflictsKept /\ TimelineBracketed /\ CorrelationsBracketed
<1>0. EnginesTypeOK /\ EnginesTypeOK'
  BY TypesStep DEF EnginesInv
<1>1. ASSUME UNCHANGED <<timeline, correlations, earlier, graph>>,
             \/ \E i \in Item, t \in Time : Upload(i, t)
             \/ \E i \in Item, s \in Section, d \in Date \ {Absent} : AddDate(i, s, d)
             \/ \E r \in Row : AddRow(r)
      PROVE  EnginesInv'
  <2>1. ASSUME NEW i \in Item, NEW t \in Time, Upload(i, t) PROVE EnginesInv'
    <3>1. i \notin Uploaded /\ held' = [held EXCEPT ![i].uploaded = t] /\ UNCHANGED <<rows, reading>>
      BY <2>1 DEF Upload
    <3>2. /\ \A j \in Item \ {i} : held'[j] = held[j]
          /\ held'[i].uploaded = t
      BY <1>0, <3>1 DEF EnginesTypeOK, RecordsTypeOK, Sheet
    <3>3. Uploaded \subseteq Uploaded'
      BY <3>1, <3>2 DEF Uploaded
    <3>4. Below(Present, Present')
      BY <3>1, <3>2, <3>3 DEF Below, Present, Uploaded
    <3>5. RowsKept'
      BY <3>1, <3>3 DEF RowsKept, EnginesInv
    <3> QED
      BY <1>0, <1>1, <3>1, <3>3, <3>4, <3>5, WritesKeep
  <2>2. ASSUME NEW i \in Item, NEW s \in Section, NEW d \in Date, AddDate(i, s, d)
        PROVE  EnginesInv'
    <3>1. /\ held[i].dates[s] = Absent /\ held' = [held EXCEPT ![i].dates[s] = d]
          /\ UNCHANGED <<rows, reading>>
      BY <2>2 DEF AddDate
    <3>2. /\ \A j \in Item : held'[j].uploaded = held[j].uploaded
          /\ \A j \in Item, u \in Section : j # i \/ u # s => held'[j].dates[u] = held[j].dates[u]
      BY <1>0, <3>1 DEF EnginesTypeOK, RecordsTypeOK, Sheet
    <3>3. Uploaded' = Uploaded
      BY <3>2 DEF Uploaded
    <3>4. Absent \notin Time
      BY TimeAssumption DEF Absent, Time
    <3>5. Below(Present, Present')
      BY <3>1, <3>2, <3>3, <3>4 DEF Below, Present, Uploaded
    <3>6. RowsKept'
      BY <3>1, <3>3 DEF RowsKept, EnginesInv
    <3> QED
      BY <1>0, <1>1, <3>1, <3>3, <3>5, <3>6, WritesKeep
  <2>3. ASSUME NEW r \in Row, AddRow(r) PROVE EnginesInv'
    <3>1. /\ r.item \in Uploaded \cup {Absent, Foreign} /\ rows' = rows \cup {r}
          /\ UNCHANGED <<held, reading>>
      BY <2>3 DEF AddRow
    <3>2. r.item \in Uploaded
      <4>1. r.item \in Item
        BY DEF Row, TextRow, PairRow, PlainRow
      <4>2. Absent \notin Item /\ Foreign \notin Item
        BY MaxItemAssumption DEF Absent, Foreign, Item
      <4> QED
        BY <3>1, <4>1, <4>2
    <3>3. Uploaded' = Uploaded
      BY <3>1 DEF Uploaded
    <3>4. Below(Present, Present')
      BY <3>1, <3>3 DEF Below, Present, Uploaded
    <3>5. RowsKept'
      BY <3>1, <3>2, <3>3 DEF RowsKept, EnginesInv
    <3> QED
      BY <1>0, <1>1, <3>1, <3>3, <3>4, <3>5, WritesKeep
  <2> QED
    BY <1>1, <2>1, <2>2, <2>3
<1>2. UNCHANGED timeline => ConflictsKept /\ TimelineBracketed
  BY DEF ConflictsKept, TimelineBracketed
<1>3. UNCHANGED correlations => CorrelationsBracketed
  BY DEF CorrelationsBracketed
<1>4. (IF "past" \in kinds THEN Time ELSE {Now}) \subseteq Time
  BY TimeAssumption
<1>5. AddRows(kinds) => \E r \in Row : AddRow(r)
  BY DEF AddRows, Row
<1>6. CASE /\ UNCHANGED <<timeline, correlations, earlier, graph>>
           /\ \/ \E i \in Item, t \in IF "past" \in kinds THEN Time ELSE {Now} : Upload(i, t)
              \/ \E i \in Item, s \in Section, d \in Date \ {Absent} : AddDate(i, s, d)
              \/ AddRows(kinds)
  BY <1>1, <1>2, <1>3, <1>4, <1>5, <1>6
<1>7. CASE TimelineNext /\ UNCHANGED <<correlations, earlier, graph>>
  BY <1>0, <1>3, <1>7, TimelineSteps
<1>8. CASE CorrelationNext /\ UNCHANGED <<earlier, graph>>
  BY <1>0, <1>2, <1>8, CorrelationSteps
<1>9. CASE ResolverNext
  BY <1>0, <1>2, <1>3, <1>9, ResolverSteps
<1> QED
  BY <1>6, <1>7, <1>8, <1>9 DEF EnginesNext
=============================================================================
