-------------------------- MODULE CaseKnowledgeProofs --------------------------
(***************************************************************************)
(* Why derived analyses rest on published ones, why a report shows the     *)
(* rows of what it calls SUCCEEDED and has its PDF, and why what is cited  *)
(* only advances: from one report to the next, and from a correlation to   *)
(* the entities resolved with it.                                          *)
(***************************************************************************)
EXTENDS CaseKnowledge, TLAPS

(* What a run of each kind reads, in order.                                 *)
SourcesOf(k) ==
  CASE k = "CORRELATION" -> CorrelationSources
    [] k = "ENTITIES" -> EntitySources
    [] k = "REPORT" -> ReportSources
    [] OTHER -> <<>>

(* The reading of a run is whole, except for the rows it is about to read.  *)
CitationKnown(r, k) ==
  LET cited == cites[r][k] IN
  /\ cited.run = 0 => cited.status # "SUCCEEDED"
  /\ cited.run # 0 /\ runs[r].kind \in {"CORRELATION", "ENTITIES"} => cited.status = "SUCCEEDED"
  /\ cited.status = "SUCCEEDED" =>
       /\ cited.run \in published
       /\ \/ cited.rows
          \/ task[r].step = "rows" /\ SourcesOf(runs[r].kind)[task[r].at] = k

RunKnown(r) ==
  /\ runs[r].kind = "NONE" => task[r].step = "idle" /\ cites[r] = NothingRead
  /\ task[r].step = "rows" => task[r].at \in 1..4
  /\ runs[r].status = "SUCCEEDED" => r \in published
  /\ r \in published => task[r].step \in {"failing", "done", "dead"}
  /\ task[r].step = "stored" => r \in pdfs
  /\ runs[r].kind = "REPORT" /\ runs[r].status = "SUCCEEDED" => r \in pdfs
  /\ \A k \in RunKind : CitationKnown(r, k)

KnowledgeInv ==
  /\ KnowledgeTypeOK
  /\ \A r \in RunId : RunKnown(r)

(* The invariant gives the properties.                                      *)
LEMMA KnowledgeSafe ==
  KnowledgeInv => KnowledgeTypeOK /\ CitedPublished /\ ReportShowsRows /\ PdfBacked
<1> SUFFICES ASSUME KnowledgeInv
             PROVE  CitedPublished /\ ReportShowsRows /\ PdfBacked
  BY DEF KnowledgeInv
<1>1. CitedPublished
  BY DEF KnowledgeInv, KnowledgeTypeOK, RunKnown, CitationKnown, CitedPublished
<1>2. ReportShowsRows
  BY DEF KnowledgeInv, KnowledgeTypeOK, RunKnown, CitationKnown, Reports, ReportShowsRows
<1>3. PdfBacked
  BY DEF KnowledgeInv, RunKnown, Downloadable, PdfBacked
<1> QED
  BY <1>1, <1>2, <1>3

(* No runs at the start.                                                    *)
LEMMA KnowledgeStarts == RunInit => KnowledgeInv
<1> SUFFICES ASSUME RunInit PROVE KnowledgeInv
  OBVIOUS
<1>1. NoRun \in RunRow /\ NoCitation \in Citation /\ Idle \in TaskState
  BY DEF NoRun, RunRow, RunStatus, RunActive, NoCitation, Citation, Idle, TaskState, TaskStep
<1>2. KnowledgeTypeOK
  BY <1>1 DEF RunInit, KnowledgeTypeOK, NothingRead
<1>3. ASSUME NEW r \in RunId
      PROVE  RunKnown(r)
  BY <1>3 DEF RunInit, RunKnown, CitationKnown, NoRun, Idle, NothingRead, NoCitation
<1> QED
  BY <1>2, <1>3 DEF KnowledgeInv

-----------------------------------------------------------------------------
(* A run that a step leaves alone stays known: more is published, more PDFs *)
(* are in storage, and it is not itself published.                          *)
LEMMA OthersStay ==
  ASSUME NEW s \in RunId, RunKnown(s),
         runs'[s] = runs[s], cites'[s] = cites[s], task'[s] = task[s],
         published \subseteq published', pdfs \subseteq pdfs', s \in published' => s \in published
  PROVE  RunKnown(s)'
BY DEF RunKnown, CitationKnown

(* The steps of a task.                                                     *)
LEMMA StepsTyped ==
  ASSUME NEW s \in TaskStep, NEW i \in 1..5
  PROVE  At(s, i) \in TaskState /\ At(s, i).step = s /\ At(s, i).at = i
BY DEF At, TaskState

(* A request changes no run that exists.                                    *)
LEMMA RequestKeeps ==
  ASSUME KnowledgeInv, NEW c \in Requester, NEW k \in RunKind,
         CheckNoActive(c, k) \/ InsertRun(c, k) \/ InsertRefused(c, k)
  PROVE  KnowledgeInv'
<1>1. CASE CheckNoActive(c, k) \/ InsertRefused(c, k)
  <2>1. /\ UNCHANGED <<runs, published, cites, pdfs, task>>
        /\ asking' \in [Requester -> RunKind \cup {"none"}]
    BY <1>1 DEF CheckNoActive, InsertRefused, KnowledgeInv, KnowledgeTypeOK
  <2>2. \A s \in RunId : RunKnown(s)'
    BY <2>1, OthersStay DEF KnowledgeInv
  <2> QED
    BY <2>1, <2>2 DEF KnowledgeInv, KnowledgeTypeOK
<1>2. CASE InsertRun(c, k)
  <2>1. PICK r \in RunId :
          /\ NextRun(r)
          /\ runs' = [runs EXCEPT ![r] = [kind |-> k, status |-> "QUEUED"]]
          /\ task' = [task EXCEPT ![r].step = "queued"]
    BY <1>2 DEF InsertRun
  <2>2. /\ asking' \in [Requester -> RunKind \cup {"none"}]
        /\ UNCHANGED <<published, cites, pdfs>>
    BY <1>2 DEF InsertRun, KnowledgeInv, KnowledgeTypeOK
  <2>3. runs[r] = NoRun
    BY <2>1 DEF NextRun
  <2>4. KnowledgeTypeOK'
    <3>1. [kind |-> k, status |-> "QUEUED"] \in RunRow
      BY DEF RunRow, RunStatus, RunActive
    <3>2. [task[r] EXCEPT !.step = "queued"] \in TaskState
      BY DEF KnowledgeInv, KnowledgeTypeOK, TaskState, TaskStep
    <3> QED
      BY <2>1, <2>2, <3>1, <3>2 DEF KnowledgeInv, KnowledgeTypeOK
  <2>5. RunKnown(r)'
    <3>1. RunKnown(r) /\ runs'[r] = [kind |-> k, status |-> "QUEUED"] /\ task'[r].step = "queued"
          /\ r \notin published /\ task[r].step = "idle" /\ k # "NONE"
      BY <2>1, <2>3 DEF KnowledgeInv, KnowledgeTypeOK, RunKnown, NoRun, TaskState, RunKind
    <3>2. ASSUME NEW j \in RunKind
          PROVE  CitationKnown(r, j)'
      BY <2>2, <2>3, <3>1 DEF RunKnown, CitationKnown, NoRun, NothingRead, NoCitation
    <3> QED
      BY <2>2, <3>1, <3>2 DEF RunKnown
  <2>6. ASSUME NEW s \in RunId, s # r
        PROVE  RunKnown(s)'
    BY <2>1, <2>2, <2>6, OthersStay DEF KnowledgeInv, KnowledgeTypeOK
  <2> QED
    BY <2>4, <2>5, <2>6 DEF KnowledgeInv
<1> QED
  BY <1>1, <1>2

-----------------------------------------------------------------------------
(* A step of the task of run r: the other runs stay as they are.            *)
Works(r) ==
  /\ KnowledgeTypeOK'
  /\ \A s \in RunId \ {r} : RunKnown(s)'

(* A step that moves the task of r and changes its status or its citations  *)
(* only.                                                                    *)
LEMMA WorkTyped ==
  ASSUME KnowledgeInv, NEW r \in RunId, NEW t \in TaskState, Go(r, t),
         NEW status \in RunStatus, NEW row \in [RunKind -> Citation],
         runs' = [runs EXCEPT ![r].status = status] \/ runs' = runs,
         cites' = [cites EXCEPT ![r] = row] \/ cites' = cites,
         published' = published \cup {r} \/ published' = published,
         pdfs' = pdfs \cup {r} \/ pdfs' = pdfs,
         asking' = asking
  PROVE  Works(r) /\ task'[r] = t
<1>1. /\ runs \in [RunId -> RunRow] /\ published \subseteq RunId /\ pdfs \subseteq RunId
      /\ cites \in [RunId -> [RunKind -> Citation]]
      /\ asking \in [Requester -> RunKind \cup {"none"}] /\ task \in [RunId -> TaskState]
  BY DEF KnowledgeInv, KnowledgeTypeOK
<1>2. runs' \in [RunId -> RunRow] /\ \A s \in RunId \ {r} : runs'[s] = runs[s]
  <2>1. [runs[r] EXCEPT !.status = status] \in RunRow
    BY <1>1 DEF RunRow
  <2> QED
    BY <1>1, <2>1
<1>3. task' \in [RunId -> TaskState] /\ task'[r] = t
      /\ \A s \in RunId \ {r} : task'[s] = task[s]
  BY <1>1 DEF Go
<1>4. cites' \in [RunId -> [RunKind -> Citation]] /\ \A s \in RunId \ {r} : cites'[s] = cites[s]
  BY <1>1
<1>5. KnowledgeTypeOK'
  BY <1>1, <1>2, <1>3, <1>4 DEF KnowledgeTypeOK
<1>6. ASSUME NEW s \in RunId \ {r}
      PROVE  RunKnown(s)'
  <2>1. /\ RunKnown(s) /\ published \subseteq published' /\ pdfs \subseteq pdfs'
        /\ s \in published' => s \in published
    BY DEF KnowledgeInv
  <2> QED
    BY <1>2, <1>3, <1>4, <2>1, OthersStay
<1> QED
  BY <1>3, <1>5, <1>6 DEF Works

(* What a task has read stays whole unless it is at a SELECT of rows.       *)
LEMMA CitationStays ==
  ASSUME NEW r \in RunId, NEW k \in RunKind, CitationKnown(r, k), task[r].step # "rows",
         runs'[r].kind = runs[r].kind, cites'[r][k] = cites[r][k],
         published \subseteq published'
  PROVE  CitationKnown(r, k)'
BY DEF CitationKnown

(* run() starts: nothing is read yet.                                       *)
LEMMA StartKeeps ==
  ASSUME KnowledgeInv, NEW r \in RunId, NEW k, StartRun(r, k)
  PROVE  KnowledgeInv'
<1>1. /\ Go(r, At("row", 1)) /\ runs' = [runs EXCEPT ![r].status = "RUNNING"]
      /\ task[r].step = "queued" /\ UNCHANGED <<published, cites, pdfs, asking>>
  BY DEF StartRun, SetStatus
<1>2. "row" \in TaskStep /\ "RUNNING" \in RunStatus
  BY DEF TaskStep, RunStatus, RunActive
<1>3. Works(r) /\ task'[r] = At("row", 1)
  <2>1. At("row", 1) \in TaskState
    BY <1>2, StepsTyped
  <2>2. cites[r] \in [RunKind -> Citation]
    BY DEF KnowledgeInv, KnowledgeTypeOK
  <2> QED
    BY <1>1, <1>2, <2>1, <2>2, WorkTyped
<1>4. task'[r].step = "row" /\ runs'[r].kind = runs[r].kind /\ runs'[r].status = "RUNNING"
  BY <1>1, <1>2, <1>3, StepsTyped DEF KnowledgeInv, KnowledgeTypeOK, RunRow
<1>5. RunKnown(r)'
  <2>1. RunKnown(r)
    BY DEF KnowledgeInv
  <2>2. \A k2 \in RunKind : CitationKnown(r, k2)'
    BY <1>1, <1>4, <2>1, CitationStays DEF RunKnown
  <2> QED
    BY <1>1, <1>4, <2>1, <2>2 DEF RunKnown
<1> QED
  BY <1>3, <1>5 DEF KnowledgeInv, Works

(* A row is read: if it says SUCCEEDED, its result rows are there.          *)
LEMMA ReadRowKeeps ==
  ASSUME KnowledgeInv, NEW r \in RunId, NEW S,
         runs[r].kind \in {"CORRELATION", "ENTITIES"} => S = {"SUCCEEDED"},
         runs[r].kind \in {"CORRELATION", "ENTITIES", "REPORT"},
         ReadRow(r, SourcesOf(runs[r].kind), S)
  PROVE  KnowledgeInv'
<1> DEFINE sources == SourcesOf(runs[r].kind)
           i == task[r].at
           k == sources[i]
<1>1. PICK l \in RunId \cup {0} :
        /\ IsLatest(l, k, S)
        /\ IF l = 0
           THEN Go(r, At("row", i + 1)) /\ UNCHANGED cites
           ELSE /\ Go(r, At("rows", i))
                /\ cites' = [cites EXCEPT ![r][k] =
                     [run |-> l, status |-> runs[l].status, rows |-> FALSE]]
  BY DEF ReadRow
<1>2. /\ task[r].step = "row" /\ i <= Len(sources)
      /\ UNCHANGED <<runs, published, pdfs, asking>>
  BY DEF ReadRow
<1>3. i \in 1..4 /\ k \in RunKind
  <2>1. Len(sources) \in 0..4 /\ \A j \in 1..Len(sources) : sources[j] \in RunKind
    BY DEF SourcesOf, CorrelationSources, EntitySources, ReportSources, RunKind
  <2>2. i \in 1..5
    BY DEF KnowledgeInv, KnowledgeTypeOK, TaskState
  <2> QED
    BY <1>2, <2>1, <2>2
<1>4. "row" \in TaskStep /\ "rows" \in TaskStep
  BY DEF TaskStep
<1>5. /\ RunKnown(r) /\ runs[r] \in RunRow /\ cites[r] \in [RunKind -> Citation]
      /\ cites \in [RunId -> [RunKind -> Citation]]
  BY DEF KnowledgeInv, KnowledgeTypeOK
<1> HIDE DEF k
<1>6. CASE l = 0
  <2>1. i + 1 \in 1..5
    BY <1>3
  <2>2. Works(r) /\ task'[r] = At("row", i + 1)
    BY <1>1, <1>2, <1>4, <1>5, <1>6, <2>1, StepsTyped, WorkTyped DEF RunRow
  <2>3. task'[r].step = "row" /\ cites' = cites
    BY <1>1, <1>4, <1>6, <2>1, <2>2, StepsTyped
  <2>4. RunKnown(r)'
    <3>1. \A j \in RunKind : CitationKnown(r, j)'
      BY <1>2, <1>5, <2>3, CitationStays DEF RunKnown
    <3> QED
      BY <1>2, <1>5, <2>3, <3>1 DEF RunKnown
  <2> QED
    BY <2>2, <2>4 DEF KnowledgeInv, Works
<1>7. CASE l # 0
  <2> DEFINE cited == [run |-> l, status |-> runs[l].status, rows |-> FALSE]
  <2>1. /\ l \in RunId /\ runs[l].status \in RunStatus /\ runs[l].status \in S
        /\ runs[l].status = "SUCCEEDED" => l \in published
    <3>1. l \in Candidates(k, S)
      BY <1>1, <1>7 DEF IsLatest
    <3> QED
      BY <1>1, <1>7, <3>1 DEF Candidates, KnowledgeInv, KnowledgeTypeOK, RunRow, RunKnown
  <2>2. cited \in Citation /\ [cites[r] EXCEPT ![k] = cited] \in [RunKind -> Citation]
    BY <1>5, <2>1 DEF Citation
  <2>3. cites' = [cites EXCEPT ![r] = [cites[r] EXCEPT ![k] = cited]]
    BY <1>1, <1>5, <1>7
  <2>4. i \in 1..5 /\ Go(r, At("rows", i))
    BY <1>1, <1>3, <1>7
  <2>5. Works(r) /\ task'[r] = At("rows", i)
    <3> HIDE DEF cited
    <3> QED
      BY <1>2, <1>4, <1>5, <2>2, <2>3, <2>4, StepsTyped, WorkTyped DEF RunRow
  <2>6. task'[r].step = "rows" /\ task'[r].at = i
    BY <1>4, <2>4, <2>5, StepsTyped
  <2>7. ASSUME NEW j \in RunKind
        PROVE  CitationKnown(r, j)'
    <3>1. CASE j = k
      <4>1. cites'[r][j] = cited
        BY <1>3, <1>5, <2>3, <3>1
      <4>2. SourcesOf(runs'[r].kind)[task'[r].at] = k /\ l # 0
        BY <1>2, <1>7, <2>6 DEF k
      <4> QED
        BY <1>2, <2>1, <2>6, <3>1, <4>1, <4>2 DEF CitationKnown
    <3>2. CASE j # k
      <4>1. cites'[r][j] = cites[r][j]
        BY <1>5, <2>3, <3>2
      <4> QED
        BY <1>2, <1>5, <4>1, CitationStays DEF RunKnown
    <3> QED
      BY <3>1, <3>2
  <2>8. RunKnown(r)'
    BY <1>2, <1>3, <1>5, <2>6, <2>7 DEF RunKnown
  <2> QED
    BY <2>5, <2>8 DEF KnowledgeInv, Works
<1> QED
  BY <1>6, <1>7

(* The rows are read: those of a SUCCEEDED run are there.                   *)
LEMMA ReadRowsKeeps ==
  ASSUME KnowledgeInv, NEW r \in RunId,
         runs[r].kind \in {"CORRELATION", "ENTITIES", "REPORT"},
         task[r].step = "rows", ReadRows(r, SourcesOf(runs[r].kind))
  PROVE  KnowledgeInv'
<1> DEFINE k == SourcesOf(runs[r].kind)[task[r].at]
           here == cites[r][k].run \in published
           row == [cites[r] EXCEPT ![k].rows = here]
<1>1. /\ cites' = [cites EXCEPT ![r][k].rows = here]
      /\ Go(r, At("row", task[r].at + 1)) /\ UNCHANGED <<runs, published, pdfs, asking>>
  BY DEF ReadRows
<1>2. /\ RunKnown(r) /\ runs[r] \in RunRow /\ cites[r] \in [RunKind -> Citation]
      /\ cites \in [RunId -> [RunKind -> Citation]]
  BY DEF KnowledgeInv, KnowledgeTypeOK
<1>0. here \in BOOLEAN
  OBVIOUS
<1> HIDE DEF k, here
<1>3. row \in [RunKind -> Citation] /\ cites' = [cites EXCEPT ![r] = row]
  <2>1. \A j \in RunKind : row[j] \in Citation
    BY <1>0, <1>2 DEF Citation
  <2>2. row \in [RunKind -> Citation]
    BY <1>2, <2>1
  <2> QED
    BY <1>1, <1>2, <2>2
<1>4. At("row", task[r].at + 1) \in TaskState /\ At("row", task[r].at + 1).step = "row"
  BY <1>2 DEF RunKnown, At, TaskState, TaskStep
<1>5. Works(r) /\ task'[r].step = "row"
  <2>1. runs[r].status \in RunStatus
    BY <1>2 DEF RunRow
  <2> HIDE DEF row
  <2> QED
    BY <1>1, <1>3, <1>4, <2>1, WorkTyped
<1>6. ASSUME NEW j \in RunKind
      PROVE  CitationKnown(r, j)'
  <2>1. CitationKnown(r, j) /\ cites[r][j] \in Citation
    BY <1>2 DEF RunKnown
  <2>2. CASE j # k
    <3>1. cites'[r][j] = cites[r][j]
      BY <1>2, <1>3, <2>2
    <3>2. cites[r][j].status = "SUCCEEDED" => cites[r][j].rows
      BY <2>1, <2>2 DEF CitationKnown, k
    <3>3. /\ cites[r][j].run = 0 => cites[r][j].status # "SUCCEEDED"
          /\ cites[r][j].run # 0 /\ runs[r].kind \in {"CORRELATION", "ENTITIES"}
               => cites[r][j].status = "SUCCEEDED"
          /\ cites[r][j].status = "SUCCEEDED" => cites[r][j].run \in published
      BY <2>1 DEF CitationKnown
    <3>4. runs' = runs /\ published' = published
      BY <1>1
    <3> QED
      BY <3>1, <3>2, <3>3, <3>4, Zenon DEF CitationKnown
  <2>3. CASE j = k
    <3>1. cites'[r][j] = [cites[r][j] EXCEPT !.rows = here]
      BY <1>2, <1>3, <2>3
    <3>2. /\ cites'[r][j].run = cites[r][j].run /\ cites'[r][j].status = cites[r][j].status
          /\ cites'[r][j].rows = here
      BY <1>0, <2>1, <3>1 DEF Citation
    <3>3. cites[r][j].status = "SUCCEEDED" => here
      BY <2>1, <2>3 DEF CitationKnown, here
    <3>4. cites[r][j].status = "SUCCEEDED" => cites'[r][j].rows
      BY <3>2, <3>3, Zenon
    <3>5. runs' = runs /\ published' = published
      BY <1>1
    <3>6. /\ cites[r][j].run = 0 => cites[r][j].status # "SUCCEEDED"
          /\ cites[r][j].run # 0 /\ runs[r].kind \in {"CORRELATION", "ENTITIES"}
               => cites[r][j].status = "SUCCEEDED"
          /\ cites[r][j].status = "SUCCEEDED" => cites[r][j].run \in published
      BY <2>1 DEF CitationKnown
    <3>7. /\ cites'[r][j].run = 0 => cites'[r][j].status # "SUCCEEDED"
          /\ cites'[r][j].run # 0 /\ runs'[r].kind \in {"CORRELATION", "ENTITIES"}
               => cites'[r][j].status = "SUCCEEDED"
          /\ cites'[r][j].status = "SUCCEEDED" => cites'[r][j].run \in published' /\ cites'[r][j].rows
      BY <3>2, <3>4, <3>5, <3>6
    <3> QED
      BY <3>7 DEF CitationKnown
  <2> QED
    BY <2>2, <2>3
<1>7. RunKnown(r)'
  BY <1>1, <1>2, <1>5, <1>6 DEF RunKnown
<1> QED
  BY <1>5, <1>7 DEF KnowledgeInv, Works

(* A run publishes what it has read whole, a report only with its PDF.      *)
LEMMA PublishKeeps ==
  ASSUME KnowledgeInv, NEW r \in RunId, runs[r].kind \in RunKind,
         task[r].step \in {"row", "stored"}, runs[r].kind = "REPORT" => task[r].step = "stored",
         PublishRun(r)
  PROVE  KnowledgeInv'
<1>1. /\ runs' = [runs EXCEPT ![r].status = "SUCCEEDED"] /\ published' = published \cup {r}
      /\ Go(r, At("done", 1)) \/ Go(r, At("failing", 1))
      /\ UNCHANGED <<cites, pdfs, asking>>
  BY DEF PublishRun, SetStatus
<1>2. /\ RunKnown(r) /\ runs \in [RunId -> RunRow] /\ cites[r] \in [RunKind -> Citation]
  BY DEF KnowledgeInv, KnowledgeTypeOK
<1>3. Works(r) /\ task'[r].step \in {"failing", "done"}
  <2>1. /\ At("done", 1) \in TaskState /\ At("done", 1).step = "done"
        /\ At("failing", 1) \in TaskState /\ At("failing", 1).step = "failing"
        /\ "SUCCEEDED" \in RunStatus
    BY DEF At, TaskState, TaskStep, RunStatus
  <2> QED
    BY <1>1, <1>2, <2>1, WorkTyped
<1>4. runs'[r].kind = runs[r].kind
  BY <1>1, <1>2 DEF RunRow
<1>5. \A k \in RunKind : CitationKnown(r, k)'
  BY <1>1, <1>2, <1>4, CitationStays DEF RunKnown
<1>6. RunKnown(r)'
  BY <1>1, <1>2, <1>3, <1>4, <1>5 DEF RunKnown, RunKind
<1> QED
  BY <1>3, <1>6 DEF KnowledgeInv, Works

(* The PDF is stored before the report is committed.                        *)
LEMMA StoreKeeps ==
  ASSUME KnowledgeInv, NEW r \in RunId, runs[r].kind = "REPORT", StorePdf(r)
  PROVE  KnowledgeInv'
<1>1. /\ task[r].step = "row" /\ pdfs' = pdfs \cup {r} /\ Go(r, At("stored", 1))
      /\ UNCHANGED <<runs, published, cites, asking>>
  BY DEF StorePdf, HasRead
<1>2. RunKnown(r) /\ runs[r] \in RunRow /\ cites[r] \in [RunKind -> Citation]
  BY DEF KnowledgeInv, KnowledgeTypeOK
<1>3. Works(r) /\ task'[r].step = "stored"
  <2>1. /\ At("stored", 1) \in TaskState /\ At("stored", 1).step = "stored"
        /\ runs[r].status \in RunStatus
    BY <1>2 DEF At, TaskState, TaskStep, RunRow
  <2> QED
    BY <1>1, <1>2, <2>1, WorkTyped
<1>4. \A k \in RunKind : CitationKnown(r, k)'
  BY <1>1, <1>2, CitationStays DEF RunKnown
<1>5. RunKnown(r)'
  BY <1>1, <1>2, <1>3, <1>4 DEF RunKnown
<1> QED
  BY <1>3, <1>5 DEF KnowledgeInv, Works

(* A run that raises, or is killed, forgets what it read unless it is       *)
(* published.                                                               *)
LEMMA ForgetKeeps ==
  ASSUME KnowledgeInv, NEW r \in RunId, runs[r].kind \in RunKind,
         \/ RaiseRun(r)
         \/ CrashRun(r)
  PROVE  KnowledgeInv'
<1>1. /\ UNCHANGED <<runs, published, pdfs, asking>>
      /\ Go(r, At("failing", 1)) \/ Go(r, At("dead", 1))
      /\ \/ cites' = [cites EXCEPT ![r] = NothingRead]
         \/ r \in published /\ cites' = [cites EXCEPT ![r] = cites[r]]
  BY DEF RaiseRun, CrashRun
<1>2. RunKnown(r) /\ runs[r] \in RunRow /\ cites \in [RunId -> [RunKind -> Citation]]
  BY DEF KnowledgeInv, KnowledgeTypeOK
<1>3. NothingRead \in [RunKind -> Citation]
  BY DEF NothingRead, NoCitation, Citation, RunStatus
<1>4. Works(r) /\ task'[r].step \in {"failing", "dead"}
  <2>1. /\ At("dead", 1) \in TaskState /\ At("dead", 1).step = "dead"
        /\ At("failing", 1) \in TaskState /\ At("failing", 1).step = "failing"
        /\ runs[r].status \in RunStatus
    BY <1>2 DEF At, TaskState, TaskStep, RunRow
  <2>2. \E row \in [RunKind -> Citation] : cites' = [cites EXCEPT ![r] = row]
    BY <1>1, <1>2, <1>3
  <2> QED
    BY <1>1, <1>2, <2>1, <2>2, WorkTyped
<1>5. ASSUME NEW k \in RunKind
      PROVE  CitationKnown(r, k)'
  <2>1. CASE cites' = [cites EXCEPT ![r] = NothingRead]
    <3>1. cites'[r][k] = NoCitation
      BY <1>2, <2>1 DEF NothingRead
    <3> QED
      BY <3>1 DEF CitationKnown, NoCitation
  <2>2. CASE r \in published /\ cites' = [cites EXCEPT ![r] = cites[r]]
    <3>1. cites'[r][k] = cites[r][k]
      BY <1>2, <2>2
    <3> QED
      BY <1>1, <1>2, <2>2, <3>1, CitationStays DEF RunKnown
  <2> QED
    BY <1>1, <2>1, <2>2
<1>6. RunKnown(r)'
  BY <1>1, <1>2, <1>4, <1>5 DEF RunKnown, RunKind
<1> QED
  BY <1>4, <1>6 DEF KnowledgeInv, Works

(* _fail_run leaves what is published.                                      *)
LEMMA FailKeeps ==
  ASSUME KnowledgeInv, NEW r \in RunId, runs[r].kind \in RunKind, FailRun(r)
  PROVE  KnowledgeInv'
<1>1. /\ task[r].step = "failing" /\ runs' = [runs EXCEPT ![r].status = "FAILED"]
      /\ Go(r, At("done", 1)) /\ UNCHANGED <<published, cites, pdfs, asking>>
  BY DEF FailRun, SetStatus
<1>2. RunKnown(r) /\ runs \in [RunId -> RunRow] /\ cites[r] \in [RunKind -> Citation]
  BY DEF KnowledgeInv, KnowledgeTypeOK
<1>3. Works(r) /\ task'[r].step = "done"
  <2>1. /\ At("done", 1) \in TaskState /\ At("done", 1).step = "done"
        /\ "FAILED" \in RunStatus
    BY DEF At, TaskState, TaskStep, RunStatus
  <2> QED
    BY <1>1, <1>2, <2>1, WorkTyped
<1>4. runs'[r].kind = runs[r].kind /\ runs'[r].status = "FAILED"
  BY <1>1, <1>2 DEF RunRow
<1>5. \A k \in RunKind : CitationKnown(r, k)'
  BY <1>1, <1>2, <1>4, CitationStays DEF RunKnown
<1>6. RunKnown(r)'
  BY <1>1, <1>2, <1>3, <1>4, <1>5 DEF RunKnown, RunKind
<1> QED
  BY <1>3, <1>6 DEF KnowledgeInv, Works

-----------------------------------------------------------------------------
(* Every step of the analyses and the reports keeps the invariant.          *)
LEMMA KnowledgeStep ==
  ASSUME KnowledgeInv, NEW asked \in SUBSET RunKind, KnowledgeNext(asked)
  PROVE  KnowledgeInv'
<1>1. ASSUME NEW c \in Requester, NEW k \in asked, KnowledgeRequest(c, k)
      PROVE  KnowledgeInv'
  <2>1. CheckNoActive(c, k) \/ InsertRun(c, k) \/ InsertRefused(c, k)
    BY <1>1 DEF KnowledgeRequest, CorrelationRequest, EntityRequest, TimelineRequest,
                IntelligenceRequest, ReportRequest
  <2> QED
    BY <2>1, RequestKeeps
<1>2. ASSUME NEW r \in RunId, CorrelationRun(r)
      PROVE  KnowledgeInv'
  <2>1. SourcesOf("CORRELATION") = CorrelationSources
    BY DEF SourcesOf
  <2>2. CASE StartRun(r, "CORRELATION")
    BY <2>2, StartKeeps
  <2>3. CASE runs[r].kind = "CORRELATION" /\ ReadRow(r, CorrelationSources, Settled)
    BY <2>1, <2>3, ReadRowKeeps DEF Settled
  <2>4. CASE runs[r].kind = "CORRELATION" /\ ReadRows(r, CorrelationSources)
    BY <2>1, <2>4, ReadRowsKeeps DEF ReadRows
  <2>5. CASE runs[r].kind = "CORRELATION" /\ HasRead(r, CorrelationSources) /\ PublishRun(r)
    BY <2>5, PublishKeeps DEF HasRead, RunKind
  <2>6. CASE runs[r].kind = "CORRELATION" /\ CorrelationFail(r)
    BY <2>6, ForgetKeeps, FailKeeps DEF CorrelationFail, RunKind
  <2> QED
    BY <1>2, <2>2, <2>3, <2>4, <2>5, <2>6 DEF CorrelationRun, CorrelationBuild
<1>3. ASSUME NEW r \in RunId, EntityRun(r)
      PROVE  KnowledgeInv'
  <2>1. SourcesOf("ENTITIES") = EntitySources
    BY DEF SourcesOf
  <2>2. CASE StartRun(r, "ENTITIES")
    BY <2>2, StartKeeps
  <2>3. CASE runs[r].kind = "ENTITIES" /\ ReadRow(r, EntitySources, Settled)
    BY <2>1, <2>3, ReadRowKeeps DEF Settled
  <2>4. CASE runs[r].kind = "ENTITIES" /\ ReadRows(r, EntitySources)
    BY <2>1, <2>4, ReadRowsKeeps DEF ReadRows
  <2>5. CASE runs[r].kind = "ENTITIES" /\ HasRead(r, EntitySources) /\ PublishRun(r)
    BY <2>5, PublishKeeps DEF HasRead, RunKind
  <2>6. CASE runs[r].kind = "ENTITIES" /\ EntityFail(r)
    BY <2>6, ForgetKeeps, FailKeeps DEF EntityFail, RunKind
  <2> QED
    BY <1>3, <2>2, <2>3, <2>4, <2>5, <2>6 DEF EntityRun, IngestCorrelations, IngestTimeline
<1>4. ASSUME NEW r \in RunId, TimelineRun(r)
      PROVE  KnowledgeInv'
  <2>1. CASE StartRun(r, "TIMELINE")
    BY <2>1, StartKeeps
  <2>2. CASE runs[r].kind = "TIMELINE" /\ HasRead(r, <<>>) /\ PublishRun(r)
    BY <2>2, PublishKeeps DEF HasRead, RunKind
  <2>3. CASE runs[r].kind = "TIMELINE" /\ TimelineFail(r)
    BY <2>3, ForgetKeeps, FailKeeps DEF TimelineFail, RunKind
  <2> QED
    BY <1>4, <2>1, <2>2, <2>3 DEF TimelineRun
<1>5. ASSUME NEW r \in RunId, IntelligenceRun(r)
      PROVE  KnowledgeInv'
  <2>1. CASE StartRun(r, "INTELLIGENCE")
    BY <2>1, StartKeeps
  <2>2. CASE runs[r].kind = "INTELLIGENCE" /\ HasRead(r, <<>>) /\ PublishRun(r)
    BY <2>2, PublishKeeps DEF HasRead, RunKind
  <2>3. CASE runs[r].kind = "INTELLIGENCE" /\ IntelligenceFail(r)
    BY <2>3, ForgetKeeps, FailKeeps DEF IntelligenceFail, RunKind
  <2> QED
    BY <1>5, <2>1, <2>2, <2>3 DEF IntelligenceRun
<1>6. ASSUME NEW r \in RunId, ReportRun(r)
      PROVE  KnowledgeInv'
  <2>1. SourcesOf("REPORT") = ReportSources
    BY DEF SourcesOf
  <2>2. CASE ReportStart(r)
    BY <2>2, StartKeeps DEF ReportStart
  <2>3. CASE runs[r].kind = "REPORT" /\ Aggregate(r)
    BY <2>1, <2>3, ReadRowKeeps, ReadRowsKeeps DEF Aggregate
  <2>4. CASE runs[r].kind = "REPORT" /\ (AggregateTimeline(r) \/ ReportFail(r))
    BY <2>4, ForgetKeeps, FailKeeps DEF AggregateTimeline, ReportFail, RunKind
  <2>5. CASE runs[r].kind = "REPORT" /\ StorePdf(r)
    BY <2>5, StoreKeeps
  <2>6. CASE runs[r].kind = "REPORT" /\ CommitReport(r)
    BY <2>6, PublishKeeps DEF CommitReport, RunKind
  <2> QED
    BY <1>6, <2>2, <2>3, <2>4, <2>5, <2>6 DEF ReportRun
<1>7. ASSUME NEW r \in RunId, CrashRun(r)
      PROVE  KnowledgeInv'
  <2>1. runs[r].kind \in RunKind
    BY <1>7 DEF CrashRun, KnowledgeInv, KnowledgeTypeOK, RunRow, RunKnown
  <2> QED
    BY <1>7, <2>1, ForgetKeeps
<1> QED
  BY <1>1, <1>2, <1>3, <1>4, <1>5, <1>6, <1>7 DEF KnowledgeNext, KnowledgeRun

-----------------------------------------------------------------------------
(* What later runs see of earlier ones.                                     *)

AtWork == {"queued", "row", "rows", "stored"}

(* The task of run s has looked for its i-th source.                        *)
HasTaken(s, i) ==
  \/ task[s].step = "row" /\ i < task[s].at
  \/ task[s].step = "rows" /\ i <= task[s].at
  \/ task[s].step = "stored"
  \/ s \in published

(* Rows are created in order, a working run is active, reports work one     *)
(* after another, and what is cited is a run of the kind it is cited as.    *)
RunsInOrder ==
  /\ \A r \in RunId : runs[r].kind = "NONE" => runs[r] = NoRun
  /\ \A r, s \in RunId : r < s /\ runs[s].kind # "NONE" => runs[r].kind # "NONE"
  /\ \A r \in RunId : task[r].step \in AtWork => runs[r].status \in RunActive
  /\ \A r, s \in RunId :
       r < s /\ runs[r].kind = "REPORT" /\ runs[s].kind = "REPORT" => task[r].step \notin AtWork

CitedKind ==
  \A r \in RunId, k \in RunKind :
    cites[r][k].run # 0 => k # "REPORT" /\ runs[cites[r][k].run].kind = k

(* A report has caught up with an earlier one in all it has looked for.     *)
CaughtUp ==
  \A r, s \in RunId, i \in 1..4 :
    /\ r < s /\ runs[r].kind = "REPORT" /\ runs[s].kind = "REPORT"
    /\ r \in published /\ HasTaken(s, i)
    => cites[r][ReportSources[i]].run <= cites[s][ReportSources[i]].run

(* An entity resolution that has looked for the timeline took one that is   *)
(* not behind that of the correlation it took.                              *)
NotBehind(e) ==
  LET c == cites[e]["CORRELATION"].run
      t == cites[c]["TIMELINE"].run
  IN c # 0 /\ t # 0 /\ runs[t].status = "SUCCEEDED" => t <= cites[e]["TIMELINE"].run

OrderInv ==
  /\ RunsInOrder /\ CitedKind /\ CaughtUp
  /\ \A e \in RunId : runs[e].kind = "ENTITIES" /\ HasTaken(e, 2) => NotBehind(e)

(* The statuses that a run of each kind looks for.                          *)
LooksFor(k) == IF k = "REPORT" THEN AnyStatus ELSE Settled

Inserts(r, k) ==
  /\ NextRun(r) /\ ~HasActiveRun(k)
  /\ runs' = [runs EXCEPT ![r] = [kind |-> k, status |-> "QUEUED"]]
  /\ task' = [task EXCEPT ![r].step = "queued"]
  /\ UNCHANGED <<published, cites>>

(* The ways in which a step of run r moves it, in terms of the runs it has  *)
(* cited.                                                                   *)
SameCited(r) == \A k \in RunKind : cites'[r][k].run = cites[r][k].run

Starts(r) ==
  /\ task[r].step = "queued" /\ task'[r].step = "row" /\ task'[r].at = 1
  /\ runs'[r].status = "RUNNING" /\ published' = published /\ SameCited(r)

Finds(r) ==
  \E l \in RunId \cup {0} :
    LET i == task[r].at
        k == SourcesOf(runs[r].kind)[i]
    IN /\ task[r].step = "row" /\ i \in 1..Len(SourcesOf(runs[r].kind))
       /\ IsLatest(l, k, LooksFor(runs[r].kind))
       /\ runs' = runs /\ published' = published
       /\ IF l = 0 THEN task'[r].step = "row" /\ task'[r].at = i + 1 /\ SameCited(r)
                   ELSE /\ task'[r].step = "rows" /\ task'[r].at = i
                        /\ cites'[r][k].run = l
                        /\ \A j \in RunKind \ {k} : cites'[r][j].run = cites[r][j].run

ReadsRows(r) ==
  /\ task[r].step = "rows" /\ task'[r].step = "row" /\ task'[r].at = task[r].at + 1
  /\ runs' = runs /\ published' = published /\ SameCited(r)

Stores(r) ==
  /\ task[r].step = "row" /\ task[r].at > Len(SourcesOf(runs[r].kind))
  /\ task'[r].step = "stored"
  /\ runs' = runs /\ published' = published /\ SameCited(r)

Publishes(r) ==
  /\ \/ task[r].step = "stored"
     \/ task[r].step = "row" /\ task[r].at > Len(SourcesOf(runs[r].kind))
  /\ task'[r].step \in {"done", "failing"}
  /\ published' = published \cup {r} /\ SameCited(r)

Stops(r) ==
  /\ task[r].step \notin {"idle", "done", "dead"} /\ task'[r].step \in {"failing", "dead"}
  /\ runs' = runs /\ published' = published
  /\ \/ r \notin published /\ \A k \in RunKind : cites'[r][k].run = 0
     \/ SameCited(r)

Fails(r) ==
  /\ task[r].step = "failing" /\ task'[r].step = "done"
  /\ runs'[r].status = "FAILED" /\ published' = published /\ SameCited(r)

Moves(r) ==
  /\ runs[r].kind \in RunKind /\ runs'[r].kind = runs[r].kind
  /\ \A s \in RunId \ {r} :
       /\ runs'[s] = runs[s] /\ task'[s] = task[s] /\ cites'[s] = cites[s]
       /\ s \in published' <=> s \in published
  /\ Starts(r) \/ Finds(r) \/ ReadsRows(r) \/ Stores(r) \/ Publishes(r) \/ Stops(r) \/ Fails(r)

(* The sources are the kinds of other runs, each named once.                *)
LEMMA SourcesKnown ==
  /\ \A i \in 1..4 : ReportSources[i] \in RunKind \ {"REPORT"}
  /\ \A i, j \in 1..4 : ReportSources[i] = ReportSources[j] => i = j
  /\ \A k \in RunKind : ReportSources[1] = k \/ ReportSources[2] = k \/ ReportSources[3] = k
                          \/ ReportSources[4] = k \/ k = "REPORT"
  /\ Len(ReportSources) = 4 /\ Len(EntitySources) = 2
  /\ EntitySources[1] = "CORRELATION" /\ EntitySources[2] = "TIMELINE"
BY DEF ReportSources, EntitySources, RunKind

LEMMA SourcesTyped ==
  ASSUME NEW kind \in RunKind
  PROVE  /\ Len(SourcesOf(kind)) \in 0..4
         /\ \A i \in 1..Len(SourcesOf(kind)) : SourcesOf(kind)[i] \in RunKind \ {"REPORT"}
BY DEF SourcesOf, CorrelationSources, EntitySources, ReportSources, RunKind

(* The types that the following need.                                       *)
LEMMA OrderTypes ==
  ASSUME KnowledgeInv
  PROVE  /\ runs \in [RunId -> RunRow] /\ published \subseteq RunId
         /\ cites \in [RunId -> [RunKind -> Citation]] /\ task \in [RunId -> TaskState]
         /\ \A r \in RunId : task[r].at \in 1..5
         /\ \A r \in RunId, k \in RunKind : cites[r][k].run \in RunId \cup {0}
         /\ \A r \in RunId : runs[r].kind \in RunKind \cup {"NONE"}
         /\ RunId \subseteq Nat \ {0}
<1>1. /\ runs \in [RunId -> RunRow] /\ published \subseteq RunId
      /\ cites \in [RunId -> [RunKind -> Citation]] /\ task \in [RunId -> TaskState]
  BY DEF KnowledgeInv, KnowledgeTypeOK
<1>2. \A r \in RunId : task[r].at \in 1..5
  BY <1>1 DEF TaskState
<1>3. \A r \in RunId, k \in RunKind : cites[r][k].run \in RunId \cup {0}
  BY <1>1 DEF Citation
<1>4. \A r \in RunId : runs[r].kind \in RunKind \cup {"NONE"}
  BY <1>1 DEF RunRow
<1>5. RunId \subseteq Nat \ {0}
  BY DEF RunId
<1> QED
  BY <1>1, <1>2, <1>3, <1>4, <1>5

(* run() starts a run.                                                      *)
LEMMA StartMoves ==
  ASSUME KnowledgeInv, NEW r \in RunId, NEW k \in RunKind, StartRun(r, k)
  PROVE  Moves(r)
<1>1. /\ runs[r].kind = k /\ task[r].step = "queued"
      /\ runs' = [runs EXCEPT ![r].status = "RUNNING"]
      /\ task' = [task EXCEPT ![r] = At("row", 1)]
      /\ UNCHANGED <<published, cites>>
  BY DEF StartRun, SetStatus, Go
<1>2. runs'[r].kind = k /\ runs'[r].status = "RUNNING" /\ task'[r] = At("row", 1)
  BY <1>1, OrderTypes DEF RunRow
<1>3. Starts(r)
  BY <1>1, <1>2 DEF Starts, SameCited, At
<1> QED
  BY <1>1, <1>2, <1>3, OrderTypes DEF Moves

(* A SELECT of the newest run of a kind.                                    *)
LEMMA FindMoves ==
  ASSUME KnowledgeInv, NEW r \in RunId, runs[r].kind \in RunKind,
         ReadRow(r, SourcesOf(runs[r].kind), LooksFor(runs[r].kind))
  PROVE  Moves(r)
<1>0. PICK i, k : i = task[r].at /\ k = SourcesOf(runs[r].kind)[i]
  OBVIOUS
<1>1. PICK l \in RunId \cup {0} :
        /\ IsLatest(l, k, LooksFor(runs[r].kind))
        /\ IF l = 0
           THEN task' = [task EXCEPT ![r] = At("row", i + 1)] /\ UNCHANGED cites
           ELSE /\ task' = [task EXCEPT ![r] = At("rows", i)]
                /\ cites' = [cites EXCEPT ![r][k] =
                     [run |-> l, status |-> runs[l].status, rows |-> FALSE]]
  BY <1>0 DEF ReadRow, Go
<1>2. /\ task[r].step = "row" /\ i <= Len(SourcesOf(runs[r].kind))
      /\ UNCHANGED <<runs, published>>
  BY <1>0 DEF ReadRow
<1>3. i \in 1..Len(SourcesOf(runs[r].kind)) /\ k \in RunKind
  BY <1>0, <1>2, OrderTypes, SourcesTyped
<1>4. IF l = 0 THEN task'[r] = At("row", i + 1) /\ cites' = cites
               ELSE /\ task'[r] = At("rows", i)
                    /\ cites'[r][k].run = l
                    /\ \A j \in RunKind \ {k} : cites'[r][j] = cites[r][j]
  BY <1>1, <1>3, OrderTypes
<1>5. \A s \in RunId \ {r} : task'[s] = task[s] /\ cites'[s] = cites[s]
  BY <1>1, OrderTypes
<1>6. Finds(r)
  <2>1. IF l = 0 THEN task'[r].step = "row" /\ task'[r].at = i + 1 /\ SameCited(r)
                 ELSE /\ task'[r].step = "rows" /\ task'[r].at = i
                      /\ cites'[r][k].run = l
                      /\ \A j \in RunKind \ {k} : cites'[r][j].run = cites[r][j].run
    BY <1>4 DEF SameCited, At
  <2> QED
    BY <1>0, <1>1, <1>2, <1>3, <2>1, Zenon DEF Finds
<1> QED
  BY <1>2, <1>5, <1>6 DEF Moves

(* A SELECT of the rows of that run.                                        *)
LEMMA ReadMoves ==
  ASSUME KnowledgeInv, NEW r \in RunId, runs[r].kind \in RunKind, NEW sources,
         ReadRows(r, sources)
  PROVE  Moves(r)
<1>0. PICK k, here : k = sources[task[r].at] /\ here = (cites[r][k].run \in published)
  OBVIOUS
<1>1. /\ task[r].step = "rows" /\ cites' = [cites EXCEPT ![r][k].rows = here]
      /\ task' = [task EXCEPT ![r] = At("row", task[r].at + 1)]
      /\ UNCHANGED <<runs, published>>
  BY <1>0 DEF ReadRows, Go
<1>2. /\ \A j \in RunKind : j # k => cites'[r][j] = cites[r][j]
      /\ k \in RunKind => cites'[r][k] = [cites[r][k] EXCEPT !.rows = here]
  BY <1>0, <1>1, OrderTypes
<1>3. k \in RunKind => cites'[r][k].run = cites[r][k].run
  BY <1>2, OrderTypes DEF Citation
<1>4. task'[r] = At("row", task[r].at + 1)
  BY <1>1, OrderTypes
<1>5. ReadsRows(r)
  BY <1>1, <1>2, <1>3, <1>4 DEF ReadsRows, SameCited, At
<1>6. \A s \in RunId \ {r} : task'[s] = task[s] /\ cites'[s] = cites[s]
  BY <1>1, OrderTypes
<1> QED
  BY <1>1, <1>5, <1>6 DEF Moves

(* The commit of a run.                                                     *)
LEMMA PublishMoves ==
  ASSUME KnowledgeInv, NEW r \in RunId, runs[r].kind \in RunKind, PublishRun(r),
         task[r].step = "stored" \/ HasRead(r, SourcesOf(runs[r].kind))
  PROVE  Moves(r)
<1>1. /\ runs' = [runs EXCEPT ![r].status = "SUCCEEDED"] /\ published' = published \cup {r}
      /\ \/ task' = [task EXCEPT ![r] = At("done", 1)]
         \/ task' = [task EXCEPT ![r] = At("failing", 1)]
      /\ cites' = cites
  BY DEF PublishRun, SetStatus, Go
<1>2. runs'[r].kind = runs[r].kind /\ task'[r] \in {At("done", 1), At("failing", 1)}
  BY <1>1, OrderTypes DEF RunRow
<1>3. Publishes(r)
  BY <1>1, <1>2 DEF Publishes, HasRead, SameCited, At
<1> QED
  BY <1>1, <1>2, <1>3, OrderTypes DEF Moves

(* A PDF is stored.                                                         *)
LEMMA StoreMoves ==
  ASSUME KnowledgeInv, NEW r \in RunId, runs[r].kind = "REPORT", StorePdf(r)
  PROVE  Moves(r)
<1>1. /\ task[r].step = "row" /\ task[r].at > Len(SourcesOf("REPORT"))
      /\ task' = [task EXCEPT ![r] = At("stored", 1)]
      /\ UNCHANGED <<runs, published, cites>>
  BY DEF StorePdf, HasRead, Go, SourcesOf
<1>2. Stores(r)
  BY <1>1, OrderTypes DEF Stores, SameCited, At
<1> QED
  BY <1>1, <1>2, OrderTypes DEF Moves, RunKind

(* A run raises or its process is killed.                                   *)
LEMMA StopMoves ==
  ASSUME KnowledgeInv, NEW r \in RunId, RaiseRun(r) \/ CrashRun(r)
  PROVE  Moves(r)
<1>0. runs[r].kind \in RunKind
  BY OrderTypes DEF RaiseRun, CrashRun, KnowledgeInv, RunKnown
<1>1. /\ UNCHANGED <<runs, published>>
      /\ \/ task' = [task EXCEPT ![r] = At("failing", 1)]
         \/ task' = [task EXCEPT ![r] = At("dead", 1)]
      /\ \/ r \notin published /\ cites' = [cites EXCEPT ![r] = NothingRead]
         \/ cites' = [cites EXCEPT ![r] = cites[r]]
      /\ task[r].step \notin {"idle", "done", "dead"}
  BY DEF RaiseRun, CrashRun, Go, KnowledgeInv, RunKnown
<1>2. task'[r] \in {At("failing", 1), At("dead", 1)}
  BY <1>1, OrderTypes
<1>3. \/ r \notin published /\ cites'[r] = NothingRead
      \/ cites'[r] = cites[r]
  BY <1>1, OrderTypes
<1>4. Stops(r)
  BY <1>1, <1>2, <1>3 DEF Stops, SameCited, At, NothingRead, NoCitation
<1> QED
  BY <1>0, <1>1, <1>4, OrderTypes DEF Moves

(* _fail_run.                                                               *)
LEMMA FailMoves ==
  ASSUME KnowledgeInv, NEW r \in RunId, runs[r].kind \in RunKind, FailRun(r)
  PROVE  Moves(r)
<1>1. /\ task[r].step = "failing" /\ runs' = [runs EXCEPT ![r].status = "FAILED"]
      /\ task' = [task EXCEPT ![r] = At("done", 1)] /\ UNCHANGED <<published, cites>>
  BY DEF FailRun, SetStatus, Go
<1>2. /\ runs'[r].kind = runs[r].kind /\ runs'[r].status = "FAILED"
      /\ task'[r] = At("done", 1)
  BY <1>1, OrderTypes DEF RunRow
<1>3. Fails(r)
  BY <1>1, <1>2 DEF Fails, SameCited, At
<1> QED
  BY <1>1, <1>2, <1>3, OrderTypes DEF Moves

(* Every step of the analyses and the reports inserts a run, moves one, or  *)
(* changes none.                                                            *)
LEMMA KnowledgeMoves ==
  ASSUME KnowledgeInv, NEW asked \in SUBSET RunKind, KnowledgeNext(asked)
  PROVE  \/ \E r \in RunId : Moves(r)
         \/ \E r \in RunId, k \in RunKind : Inserts(r, k)
         \/ UNCHANGED <<runs, published, cites, task>>
<1>1. ASSUME NEW c \in Requester, NEW k \in asked, KnowledgeRequest(c, k)
      PROVE  \/ \E r \in RunId : Inserts(r, k)
             \/ UNCHANGED <<runs, published, cites, task>>
  <2>1. CheckNoActive(c, k) \/ InsertRun(c, k) \/ InsertRefused(c, k)
    BY <1>1 DEF KnowledgeRequest, CorrelationRequest, EntityRequest, TimelineRequest,
                IntelligenceRequest, ReportRequest
  <2> QED
    BY <2>1 DEF CheckNoActive, InsertRun, InsertRefused, Inserts
<1>2. ASSUME NEW r \in RunId, CorrelationRun(r)
      PROVE  Moves(r)
  <2>1. SourcesOf("CORRELATION") = CorrelationSources /\ LooksFor("CORRELATION") = Settled
    BY DEF SourcesOf, LooksFor
  <2>2. CASE StartRun(r, "CORRELATION")
    BY <2>2, StartMoves DEF RunKind
  <2>3. CASE runs[r].kind = "CORRELATION" /\ ReadRow(r, CorrelationSources, Settled)
    BY <2>1, <2>3, FindMoves DEF RunKind
  <2>4. CASE runs[r].kind = "CORRELATION" /\ ReadRows(r, CorrelationSources)
    BY <2>4, ReadMoves DEF RunKind
  <2>5. CASE runs[r].kind = "CORRELATION" /\ HasRead(r, CorrelationSources) /\ PublishRun(r)
    BY <2>1, <2>5, PublishMoves DEF RunKind
  <2>6. CASE runs[r].kind = "CORRELATION" /\ CorrelationFail(r)
    BY <2>6, StopMoves, FailMoves DEF CorrelationFail, RunKind
  <2> QED
    BY <1>2, <2>2, <2>3, <2>4, <2>5, <2>6 DEF CorrelationRun, CorrelationBuild
<1>3. ASSUME NEW r \in RunId, EntityRun(r)
      PROVE  Moves(r)
  <2>1. SourcesOf("ENTITIES") = EntitySources /\ LooksFor("ENTITIES") = Settled
    BY DEF SourcesOf, LooksFor
  <2>2. CASE StartRun(r, "ENTITIES")
    BY <2>2, StartMoves DEF RunKind
  <2>3. CASE runs[r].kind = "ENTITIES" /\ ReadRow(r, EntitySources, Settled)
    BY <2>1, <2>3, FindMoves DEF RunKind
  <2>4. CASE runs[r].kind = "ENTITIES" /\ ReadRows(r, EntitySources)
    BY <2>4, ReadMoves DEF RunKind
  <2>5. CASE runs[r].kind = "ENTITIES" /\ HasRead(r, EntitySources) /\ PublishRun(r)
    BY <2>1, <2>5, PublishMoves DEF RunKind
  <2>6. CASE runs[r].kind = "ENTITIES" /\ EntityFail(r)
    BY <2>6, StopMoves, FailMoves DEF EntityFail, RunKind
  <2> QED
    BY <1>3, <2>2, <2>3, <2>4, <2>5, <2>6 DEF EntityRun, IngestCorrelations, IngestTimeline
<1>4. ASSUME NEW r \in RunId, TimelineRun(r)
      PROVE  Moves(r)
  <2>1. SourcesOf("TIMELINE") = <<>>
    BY DEF SourcesOf
  <2>2. CASE StartRun(r, "TIMELINE")
    BY <2>2, StartMoves DEF RunKind
  <2>3. CASE runs[r].kind = "TIMELINE" /\ HasRead(r, <<>>) /\ PublishRun(r)
    BY <2>1, <2>3, PublishMoves DEF RunKind
  <2>4. CASE runs[r].kind = "TIMELINE" /\ TimelineFail(r)
    BY <2>4, StopMoves, FailMoves DEF TimelineFail, RunKind
  <2> QED
    BY <1>4, <2>2, <2>3, <2>4 DEF TimelineRun
<1>5. ASSUME NEW r \in RunId, IntelligenceRun(r)
      PROVE  Moves(r)
  <2>1. SourcesOf("INTELLIGENCE") = <<>>
    BY DEF SourcesOf
  <2>2. CASE StartRun(r, "INTELLIGENCE")
    BY <2>2, StartMoves DEF RunKind
  <2>3. CASE runs[r].kind = "INTELLIGENCE" /\ HasRead(r, <<>>) /\ PublishRun(r)
    BY <2>1, <2>3, PublishMoves DEF RunKind
  <2>4. CASE runs[r].kind = "INTELLIGENCE" /\ IntelligenceFail(r)
    BY <2>4, StopMoves, FailMoves DEF IntelligenceFail, RunKind
  <2> QED
    BY <1>5, <2>2, <2>3, <2>4 DEF IntelligenceRun
<1>6. ASSUME NEW r \in RunId, ReportRun(r)
      PROVE  Moves(r)
  <2>1. SourcesOf("REPORT") = ReportSources /\ LooksFor("REPORT") = AnyStatus
    BY DEF SourcesOf, LooksFor
  <2>2. CASE ReportStart(r)
    BY <2>2, StartMoves DEF ReportStart, RunKind
  <2>3. CASE runs[r].kind = "REPORT" /\ Aggregate(r)
    BY <2>1, <2>3, FindMoves, ReadMoves DEF Aggregate, RunKind
  <2>4. CASE runs[r].kind = "REPORT" /\ (AggregateTimeline(r) \/ ReportFail(r))
    BY <2>4, StopMoves, FailMoves DEF AggregateTimeline, ReportFail, RunKind
  <2>5. CASE runs[r].kind = "REPORT" /\ StorePdf(r)
    BY <2>5, StoreMoves
  <2>6. CASE runs[r].kind = "REPORT" /\ CommitReport(r)
    BY <2>6, PublishMoves DEF CommitReport, RunKind
  <2> QED
    BY <1>6, <2>2, <2>3, <2>4, <2>5, <2>6 DEF ReportRun
<1>7. ASSUME NEW r \in RunId, CrashRun(r)
      PROVE  Moves(r)
  BY <1>7, StopMoves
<1> QED
  BY <1>1, <1>2, <1>3, <1>4, <1>5, <1>6, <1>7 DEF KnowledgeNext, KnowledgeRun

(* The kinds of the runs that exist do not change, nor do citations of runs *)
(* that are published.                                                      *)
LEMMA KindsStay ==
  ASSUME KnowledgeInv, NEW r \in RunId, Moves(r)
  PROVE  /\ \A s \in RunId : runs'[s].kind = runs[s].kind
         /\ \A s \in published : s \in published' /\ SameCited(s)
         /\ \A s \in published : runs'[s].status = "SUCCEEDED" => runs[s].status = "SUCCEEDED"
<1>1. \A s \in RunId : runs'[s].kind = runs[s].kind
  BY DEF Moves
<1>2. ASSUME r \in published
      PROVE  SameCited(r) /\ r \in published'
             /\ (runs'[r].status = "SUCCEEDED" => runs[r].status = "SUCCEEDED")
  <2>1. task[r].step \in {"failing", "done", "dead"}
    BY <1>2 DEF KnowledgeInv, RunKnown
  <2>2. Stops(r) \/ Fails(r)
    BY <2>1 DEF Moves, Starts, Finds, ReadsRows, Stores, Publishes
  <2> QED
    BY <1>2, <2>2 DEF Stops, Fails
<1>3. ASSUME NEW s \in published, s # r
      PROVE  SameCited(s) /\ s \in published' /\ runs'[s] = runs[s]
  BY <1>3, OrderTypes DEF Moves, SameCited
<1> QED
  BY <1>1, <1>2, <1>3

(* Every step of a run keeps the order of runs.                             *)
LEMMA MovesInOrder ==
  ASSUME KnowledgeInv, RunsInOrder, NEW r \in RunId, Moves(r)
  PROVE  RunsInOrder'
<1>1. \A s \in RunId : runs'[s].kind = runs[s].kind
  BY KindsStay
<1>2. \A s \in RunId : task'[s].step \in AtWork => task[s].step \in AtWork
  BY DEF Moves, Starts, Finds, ReadsRows, Stores, Publishes, Stops, Fails, AtWork
<1>3. \A s \in RunId : runs'[s].kind = "NONE" => runs'[s] = NoRun
  BY <1>1, OrderTypes DEF Moves, RunsInOrder, RunKind
<1>4. ASSUME NEW s \in RunId, task'[s].step \in AtWork
      PROVE  runs'[s].status \in RunActive
  <2>1. CASE s = r
    BY <1>2, <1>4, <2>1 DEF Moves, RunsInOrder, Starts, Finds, ReadsRows, Stores, Publishes,
       Stops, Fails, AtWork, RunActive
  <2>2. CASE s # r
    BY <1>2, <1>4, <2>2 DEF Moves, RunsInOrder
  <2> QED
    BY <2>1, <2>2
<1> QED
  BY <1>1, <1>2, <1>3, <1>4 DEF RunsInOrder

(* So does an insert: it finds the run before it no longer active.          *)
LEMMA InsertInOrder ==
  ASSUME KnowledgeInv, RunsInOrder, NEW r \in RunId, NEW k \in RunKind, Inserts(r, k)
  PROVE  RunsInOrder'
<1>1. /\ runs'[r] = [kind |-> k, status |-> "QUEUED"] /\ task'[r].step = "queued"
      /\ \A s \in RunId : s # r => runs'[s] = runs[s] /\ task'[s] = task[s]
  BY OrderTypes DEF Inserts, TaskState
<1>2. runs[r] = NoRun /\ \A s \in 1..(r - 1) : runs[s] # NoRun
  BY DEF Inserts, NextRun
<1>3. \A s \in RunId : s < r => runs[s].kind # "NONE"
  <2>1. \A s \in RunId : s < r => s \in 1..(r - 1)
    BY DEF RunId
  <2> QED
    BY <1>2, <2>1 DEF RunsInOrder
<1>4. \A s \in RunId : r < s => runs[s].kind = "NONE"
  BY <1>2 DEF RunsInOrder, NoRun
<1>5. k # "NONE"
  BY DEF RunKind
<1>6. ASSUME NEW s \in RunId, s < r, runs[s].kind = "REPORT", k = "REPORT"
      PROVE  task[s].step \notin AtWork
  BY <1>6 DEF Inserts, HasActiveRun, RunsInOrder
<1>7. \A s \in RunId : runs'[s].kind = "NONE" => runs'[s] = NoRun
  BY <1>1, <1>5 DEF RunsInOrder
<1>8. ASSUME NEW s \in RunId, NEW u \in RunId, s < u, runs'[u].kind # "NONE"
      PROVE  runs'[s].kind # "NONE"
  BY <1>1, <1>3, <1>4, <1>5, <1>8 DEF RunsInOrder
<1>9. \A s \in RunId : task'[s].step \in AtWork => runs'[s].status \in RunActive
  BY <1>1 DEF RunsInOrder, RunActive
<1>10. ASSUME NEW s \in RunId, NEW u \in RunId, s < u,
              runs'[s].kind = "REPORT", runs'[u].kind = "REPORT"
       PROVE  task'[s].step \notin AtWork
  <2>1. s # r
    BY <1>1, <1>4, <1>10 DEF RunId
  <2>2. CASE u = r
    BY <1>1, <1>6, <1>10, <2>1, <2>2
  <2>3. CASE u # r
    BY <1>1, <1>10, <2>1, <2>3 DEF RunsInOrder
  <2> QED
    BY <2>2, <2>3
<1> QED
  BY <1>7, <1>8, <1>9, <1>10 DEF RunsInOrder

(* What is cited is of the kind it is cited as.                             *)
LEMMA MovesCite ==
  ASSUME KnowledgeInv, CitedKind, NEW r \in RunId, Moves(r)
  PROVE  CitedKind'
<1> SUFFICES ASSUME NEW s \in RunId, NEW k \in RunKind, cites'[s][k].run # 0
             PROVE  k # "REPORT" /\ runs'[cites'[s][k].run].kind = k
  BY DEF CitedKind
<1>1. \A x \in RunId : runs'[x].kind = runs[x].kind
  BY KindsStay
<1>2. CASE cites'[s][k].run = cites[s][k].run
  BY <1>1, <1>2, OrderTypes DEF CitedKind
<1>3. CASE s = r /\ Finds(r) /\ cites'[s][k].run # cites[s][k].run
  <2>1. PICK l \in RunId \cup {0} :
          /\ k = SourcesOf(runs[r].kind)[task[r].at]
          /\ task[r].at \in 1..Len(SourcesOf(runs[r].kind))
          /\ IsLatest(l, k, LooksFor(runs[r].kind))
          /\ cites'[r][k].run = l
    BY <1>3 DEF Finds, SameCited
  <2>2. k # "REPORT"
    BY <2>1, SourcesTyped DEF Moves
  <2>3. runs[l].kind = k
    BY <1>3, <2>1 DEF IsLatest, Candidates
  <2> QED
    BY <1>1, <1>3, <2>1, <2>2, <2>3
<1>4. s # r \/ Finds(r) \/ cites'[s][k].run = cites[s][k].run
  BY DEF Moves, Starts, ReadsRows, Stores, Publishes, Stops, Fails, SameCited
<1> QED
  BY <1>2, <1>3, <1>4 DEF Moves

(* So does an insert.                                                       *)
LEMMA InsertCites ==
  ASSUME KnowledgeInv, CitedKind, NEW r \in RunId, NEW k \in RunKind, Inserts(r, k)
  PROVE  CitedKind'
<1> SUFFICES ASSUME NEW s \in RunId, NEW j \in RunKind, cites'[s][j].run # 0
             PROVE  j # "REPORT" /\ runs'[cites'[s][j].run].kind = j
  BY DEF CitedKind
<1>1. cites' = cites /\ runs' = [runs EXCEPT ![r] = [kind |-> k, status |-> "QUEUED"]]
  BY DEF Inserts
<1>2. j # "REPORT" /\ runs[cites[s][j].run].kind = j /\ cites[s][j].run \in RunId
  BY <1>1, OrderTypes DEF CitedKind
<1>3. runs[r].kind = "NONE" /\ "NONE" \notin RunKind
  BY DEF Inserts, NextRun, NoRun, RunKind
<1> QED
  BY <1>1, <1>2, <1>3, OrderTypes

(* A step after which run s has looked for its i-th source, and before      *)
(* which it had not, looks for that one.                                    *)
LEMMA TakenNow ==
  ASSUME KnowledgeInv, NEW s \in RunId, Moves(s), NEW i \in 1..4, HasTaken(s, i)',
         i <= Len(SourcesOf(runs[s].kind)), ~HasTaken(s, i)
  PROVE  Finds(s) /\ i = task[s].at
<1>1. task[s].at \in 1..5 /\ Len(SourcesOf(runs[s].kind)) \in 0..4
  BY OrderTypes, SourcesTyped DEF Moves
<1>2. ~Starts(s) /\ ~ReadsRows(s) /\ ~Stores(s) /\ ~Stops(s) /\ ~Fails(s)
  BY <1>1 DEF HasTaken, Starts, ReadsRows, Stores, Stops, Fails
<1>3. ~Publishes(s)
  BY <1>1 DEF HasTaken, Publishes
<1>4. CASE Finds(s)
  <2>1. /\ task[s].step = "row" /\ published' = published
        /\ \/ task'[s].step = "row" /\ task'[s].at = task[s].at + 1
           \/ task'[s].step = "rows" /\ task'[s].at = task[s].at
    BY <1>4 DEF Finds
  <2> QED
    BY <1>1, <1>4, <2>1 DEF HasTaken
<1> QED
  BY <1>2, <1>3, <1>4 DEF Moves

(* Every step keeps later reports caught up with earlier ones.              *)
LEMMA MovesCatchUp ==
  ASSUME KnowledgeInv, RunsInOrder, CitedKind, CaughtUp, NEW x \in RunId, Moves(x)
  PROVE  CaughtUp'
<1> SUFFICES ASSUME NEW r \in RunId, NEW s \in RunId, NEW i \in 1..4, r < s,
                    runs'[r].kind = "REPORT", runs'[s].kind = "REPORT",
                    r \in published', HasTaken(s, i)'
             PROVE  cites'[r][ReportSources[i]].run <= cites'[s][ReportSources[i]].run
  BY DEF CaughtUp, ReportSources
<1>1. PICK k \in RunKind : k = ReportSources[i] /\ k # "REPORT"
  BY SourcesKnown
<1>2. runs[r].kind = "REPORT" /\ runs[s].kind = "REPORT" /\ r # s
  BY KindsStay DEF RunId
<1>3. r \in published /\ cites'[r][k].run = cites[r][k].run
  <2>1. r \in published
    <3>1. CASE x = r
      BY <1>2, <3>1 DEF Moves, Starts, Finds, ReadsRows, Stores, Publishes, Stops, Fails,
         RunsInOrder, AtWork
    <3>2. CASE x # r
      BY <3>2 DEF Moves
    <3> QED
      BY <3>1, <3>2
  <2> QED
    BY <2>1, KindsStay DEF SameCited
<1>4. cites[r][k].run \in RunId \cup {0} /\ cites[s][k].run \in RunId \cup {0}
  BY OrderTypes
<1>5. CASE HasTaken(s, i) /\ cites'[s][k].run = cites[s][k].run
  BY <1>1, <1>2, <1>3, <1>5 DEF CaughtUp
<1>6. CASE ~HasTaken(s, i)
  <2>1. x = s
    BY <1>6 DEF Moves, HasTaken
  <2>2. SourcesOf(runs[s].kind) = ReportSources /\ LooksFor(runs[s].kind) = RunStatus
    BY <1>2 DEF SourcesOf, LooksFor, AnyStatus
  <2>3. Finds(s) /\ i = task[s].at
    <3>1. i <= Len(SourcesOf(runs[s].kind)) /\ Moves(s)
      BY <2>1, <2>2, SourcesKnown
    <3> QED
      BY <1>6, <3>1, TakenNow
  <2>4. PICK l \in RunId \cup {0} :
          IsLatest(l, k, RunStatus) /\ (IF l = 0 THEN SameCited(s) ELSE cites'[s][k].run = l)
    BY <1>1, <2>2, <2>3 DEF Finds
  <2>5. cites[r][k].run # 0 => cites[r][k].run \in Candidates(k, RunStatus)
    <3>1. \A y \in RunId : runs[y].status \in RunStatus
      BY OrderTypes DEF RunRow
    <3> QED
      BY <1>4, <3>1 DEF CitedKind, Candidates
  <2>6. CASE l = 0
    <3>1. 0 \notin Candidates(k, RunStatus)
      BY DEF Candidates, RunId
    <3>2. cites[r][k].run = 0
      BY <2>4, <2>5, <2>6, <3>1 DEF IsLatest
    <3>3. cites'[s][k].run = cites[s][k].run
      BY <2>4, <2>6 DEF SameCited
    <3> QED
      BY <1>1, <1>3, <1>4, <3>2, <3>3 DEF RunId
  <2>7. CASE l # 0
    <3>1. cites'[s][k].run = l /\ l \in RunId
      BY <2>4, <2>7
    <3>2. cites[r][k].run # 0 => cites[r][k].run <= l
      BY <2>4, <2>5, <2>7 DEF IsLatest
    <3> QED
      BY <1>1, <1>3, <1>4, <3>1, <3>2 DEF RunId
  <2> QED
    BY <2>6, <2>7
<1>7. CASE HasTaken(s, i) /\ cites'[s][k].run # cites[s][k].run
  <2>1. x = s
    BY <1>7 DEF Moves
  <2>2. Finds(s)
    <3>1. Stops(s) => SameCited(s)
      BY <1>7 DEF Stops, HasTaken
    <3> QED
      BY <1>7, <2>1, <3>1 DEF Moves, Starts, ReadsRows, Stores, Publishes, Fails, SameCited
  <2>3. /\ SourcesOf(runs[s].kind) = ReportSources
        /\ task[s].step = "row" /\ i # task[s].at /\ task[s].at \in 1..4
    <3>1. /\ SourcesOf(runs[s].kind) = ReportSources
          /\ task[s].step = "row" /\ task[s].at \in 1..Len(ReportSources)
      BY <1>2, <2>2 DEF Finds, SourcesOf
    <3>2. s \notin published
      BY <3>1 DEF KnowledgeInv, RunKnown
    <3> QED
      BY <1>7, <3>1, <3>2, SourcesKnown DEF HasTaken
  <2>4. k # ReportSources[task[s].at]
    BY <1>1, <2>3, SourcesKnown
  <2> QED
    BY <1>7, <2>2, <2>3, <2>4 DEF Finds, SameCited
<1> QED
  BY <1>1, <1>5, <1>6, <1>7

(* So does an insert, which changes no published run.                       *)
LEMMA InsertCatchesUp ==
  ASSUME KnowledgeInv, CaughtUp, NEW x \in RunId, NEW k \in RunKind, Inserts(x, k)
  PROVE  CaughtUp'
<1>1. x \notin published
  BY DEF Inserts, NextRun, NoRun, KnowledgeInv, RunKnown
<1>2. /\ UNCHANGED <<published, cites>> /\ task'[x].step = "queued"
      /\ \A s \in RunId : s # x => runs'[s] = runs[s] /\ task'[s] = task[s]
  BY OrderTypes DEF Inserts, TaskState
<1>3. \A s \in RunId, i \in 1..4 : HasTaken(s, i)' => s # x /\ HasTaken(s, i)
  BY <1>1, <1>2 DEF HasTaken
<1> QED
  BY <1>1, <1>2, <1>3 DEF CaughtUp

(* Every step keeps entity resolutions from falling behind.                 *)
LEMMA MovesNotBehind ==
  ASSUME KnowledgeInv, CitedKind, NEW x \in RunId, Moves(x), NEW e \in RunId,
         runs'[e].kind = "ENTITIES", HasTaken(e, 2)',
         runs[e].kind = "ENTITIES" /\ HasTaken(e, 2) => NotBehind(e)
  PROVE  NotBehind(e)'
<1>1. /\ runs[e].kind = "ENTITIES" /\ SourcesOf(runs[e].kind) = EntitySources
      /\ LooksFor(runs[e].kind) = {"SUCCEEDED"}
      /\ {"CORRELATION", "TIMELINE"} \subseteq RunKind
  BY KindsStay DEF SourcesOf, LooksFor, Settled, RunKind
<1>2. PICK c, t : c = cites'[e]["CORRELATION"].run /\ t = cites'[c]["TIMELINE"].run
  OBVIOUS
<1> SUFFICES ASSUME c # 0, t # 0, runs'[t].status = "SUCCEEDED"
             PROVE  t <= cites'[e]["TIMELINE"].run
  BY <1>2 DEF NotBehind
<1>3. \/ /\ c = cites[e]["CORRELATION"].run /\ HasTaken(e, 2)
         /\ cites'[e]["TIMELINE"].run = cites[e]["TIMELINE"].run
      \/ /\ c = cites[e]["CORRELATION"].run
         /\ \E l \in RunId \cup {0} :
              /\ IsLatest(l, "TIMELINE", {"SUCCEEDED"})
              /\ l # 0 => cites'[e]["TIMELINE"].run = l
  <2>1. CASE x = e /\ Finds(e)
    <3>1. task[e].step = "row" /\ published' = published /\ task[e].at \in 1..2
      BY <1>1, <2>1, SourcesKnown DEF Finds
    <3>2. e \notin published'
      BY <3>1 DEF KnowledgeInv, RunKnown
    <3>3. task[e].at # 1
      BY <2>1, <3>1, <3>2 DEF Finds, HasTaken
    <3>4. task[e].at = 2 /\ SourcesOf(runs[e].kind)[2] = "TIMELINE"
      BY <1>1, <3>1, <3>3, SourcesKnown
    <3>5. PICK l \in RunId \cup {0} :
            /\ IsLatest(l, "TIMELINE", {"SUCCEEDED"})
            /\ IF l = 0 THEN SameCited(e)
               ELSE /\ cites'[e]["TIMELINE"].run = l
                    /\ \A j \in RunKind \ {"TIMELINE"} : cites'[e][j].run = cites[e][j].run
      BY <1>1, <2>1, <3>4 DEF Finds
    <3>6. cites'[e]["CORRELATION"].run = cites[e]["CORRELATION"].run
      BY <1>1, <3>5 DEF SameCited
    <3> QED
      BY <1>2, <3>5, <3>6
  <2>2. CASE x = e /\ ~Finds(e)
    <3>1. HasTaken(e, 2)
      <4>1. Len(SourcesOf(runs[e].kind)) = 2 /\ Moves(e)
        BY <1>1, <2>2, SourcesKnown, Zenon
      <4>2. 2 \in 1..4 /\ 2 <= Len(SourcesOf(runs[e].kind))
        BY <4>1
      <4> QED
        BY <2>2, <4>1, <4>2, TakenNow
    <3>2. SameCited(e)
      <4>1. Stops(e) => SameCited(e)
        BY <1>1, <1>2 DEF Stops
      <4> QED
        BY <2>2, <4>1 DEF Moves, Starts, ReadsRows, Stores, Publishes, Fails
    <3> QED
      BY <1>1, <1>2, <3>1, <3>2 DEF SameCited
  <2>3. CASE x # e
    <3>1. cites'[e] = cites[e] /\ task'[e] = task[e] /\ (e \in published' <=> e \in published)
      BY <2>3 DEF Moves
    <3> QED
      BY <1>2, <3>1 DEF HasTaken
  <2> QED
    BY <2>1, <2>2, <2>3
<1>4. c \in RunId /\ c \in published /\ runs[c].kind = "CORRELATION"
  <2>1. c \in RunId /\ runs[c].kind = "CORRELATION"
    BY <1>1, <1>3, OrderTypes DEF CitedKind
  <2>2. CitationKnown(e, "CORRELATION")
    BY <1>1 DEF KnowledgeInv, RunKnown
  <2> QED
    BY <1>1, <1>3, <2>1, <2>2 DEF CitationKnown
<1>5. t = cites[c]["TIMELINE"].run
  BY <1>1, <1>2, <1>4, KindsStay DEF SameCited
<1>6. t \in RunId /\ t \in published /\ runs[t].kind = "TIMELINE"
  <2>1. t \in RunId
    BY <1>1, <1>4, <1>5, OrderTypes
  <2>3. runs[t].kind = "TIMELINE"
    BY <1>1, <1>4, <1>5 DEF CitedKind
  <2>2. CitationKnown(c, "TIMELINE")
    BY <1>1, <1>4 DEF KnowledgeInv, RunKnown
  <2> QED
    BY <1>4, <1>5, <2>1, <2>2, <2>3 DEF CitationKnown
<1>7. runs[t].status = "SUCCEEDED"
  BY <1>6, KindsStay
<1>8. CASE HasTaken(e, 2) /\ cites'[e]["TIMELINE"].run = cites[e]["TIMELINE"].run
           /\ c = cites[e]["CORRELATION"].run
  BY <1>1, <1>5, <1>7, <1>8 DEF NotBehind
<1>9. ASSUME NEW l \in RunId \cup {0}, IsLatest(l, "TIMELINE", {"SUCCEEDED"}),
             l # 0 => cites'[e]["TIMELINE"].run = l
      PROVE  t <= cites'[e]["TIMELINE"].run
  <2>1. t \in Candidates("TIMELINE", {"SUCCEEDED"})
    BY <1>6, <1>7 DEF Candidates
  <2>2. l \in Candidates("TIMELINE", {"SUCCEEDED"}) /\ t <= l
    BY <1>9, <2>1 DEF IsLatest
  <2>3. l # 0
    BY <2>2 DEF Candidates, RunId
  <2> QED
    BY <1>9, <2>2, <2>3
<1> QED
  BY <1>3, <1>8, <1>9

(* So does an insert: it is of no run that another cites.                   *)
LEMMA InsertNotBehind ==
  ASSUME KnowledgeInv, CitedKind, NEW x \in RunId, NEW k \in RunKind, Inserts(x, k),
         NEW e \in RunId, runs'[e].kind = "ENTITIES", HasTaken(e, 2)',
         runs[e].kind = "ENTITIES" /\ HasTaken(e, 2) => NotBehind(e)
  PROVE  NotBehind(e)'
<1>1. x \notin published /\ runs[x] = NoRun
  BY DEF Inserts, NextRun, NoRun, KnowledgeInv, RunKnown
<1>2. /\ UNCHANGED <<published, cites>> /\ task'[x].step = "queued"
      /\ \A s \in RunId : s # x => runs'[s] = runs[s] /\ task'[s] = task[s]
  BY OrderTypes DEF Inserts, TaskState
<1>3. e # x /\ HasTaken(e, 2) /\ runs[e].kind = "ENTITIES"
  BY <1>1, <1>2 DEF HasTaken
<1>4. PICK c, t : c = cites[e]["CORRELATION"].run /\ t = cites[c]["TIMELINE"].run
  OBVIOUS
<1>5. ASSUME c # 0, t # 0
      PROVE  t # x /\ t \in RunId
  <2>1. {"CORRELATION", "TIMELINE"} \subseteq RunKind
    BY DEF RunKind
  <2>2. c \in RunId
    BY <1>4, <1>5, <2>1, OrderTypes
  <2>3. t \in RunId /\ runs[t].kind = "TIMELINE"
    BY <1>4, <1>5, <2>1, <2>2, OrderTypes DEF CitedKind
  <2> QED
    BY <1>1, <2>3 DEF NoRun
<1> QED
  BY <1>2, <1>3, <1>4, <1>5 DEF NotBehind

-----------------------------------------------------------------------------
(* No runs at the start, so none behind another.                            *)
LEMMA OrderStarts == RunInit => OrderInv
<1> SUFFICES ASSUME RunInit PROVE OrderInv
  OBVIOUS
<1>1. /\ runs = [r \in RunId |-> NoRun] /\ published = {}
      /\ \A r \in RunId : task[r].step = "idle" /\ cites[r] = NothingRead
  BY DEF RunInit, Idle
<1>2. RunsInOrder
  BY <1>1 DEF RunsInOrder, NoRun, AtWork
<1>3. CitedKind
  BY <1>1 DEF CitedKind, NothingRead, NoCitation
<1>4. CaughtUp
  BY <1>1 DEF CaughtUp
<1>5. \A e \in RunId : ~HasTaken(e, 2)
  BY <1>1 DEF HasTaken
<1> QED
  BY <1>2, <1>3, <1>4, <1>5 DEF OrderInv

(* The order stays when no run changes.                                     *)
LEMMA OrderApart ==
  ASSUME OrderInv, UNCHANGED <<runs, published, cites, task>>
  PROVE  OrderInv'
<1>1. RunsInOrder' /\ CitedKind'
  BY DEF OrderInv, RunsInOrder, CitedKind
<1>2. \A s \in RunId, i \in 1..4 : HasTaken(s, i)' <=> HasTaken(s, i)
  BY DEF HasTaken
<1>3. CaughtUp'
  BY <1>2 DEF OrderInv, CaughtUp
<1>4. \A e \in RunId : NotBehind(e)' <=> NotBehind(e)
  BY DEF NotBehind
<1>5. \A e \in RunId : runs'[e].kind = "ENTITIES" /\ HasTaken(e, 2)' => NotBehind(e)'
  BY <1>2, <1>4 DEF OrderInv
<1> QED
  BY <1>1, <1>3, <1>5 DEF OrderInv

(* Every step of the analyses and the reports keeps the order.              *)
LEMMA OrderStep ==
  ASSUME KnowledgeInv, OrderInv, NEW asked \in SUBSET RunKind, KnowledgeNext(asked)
  PROVE  OrderInv'
<1>0. RunsInOrder /\ CitedKind /\ CaughtUp
  BY DEF OrderInv
<1>1. ASSUME NEW r \in RunId, Moves(r)
      PROVE  OrderInv'
  <2>1. RunsInOrder' /\ CitedKind' /\ CaughtUp'
    BY <1>0, <1>1, MovesInOrder, MovesCite, MovesCatchUp
  <2>2. ASSUME NEW e \in RunId, runs'[e].kind = "ENTITIES", HasTaken(e, 2)'
        PROVE  NotBehind(e)'
    <3>1. runs[e].kind = "ENTITIES" /\ HasTaken(e, 2) => NotBehind(e)
      BY DEF OrderInv
    <3> QED
      BY <1>0, <1>1, <2>2, <3>1, MovesNotBehind
  <2> QED
    BY <2>1, <2>2 DEF OrderInv
<1>2. ASSUME NEW r \in RunId, NEW k \in RunKind, Inserts(r, k)
      PROVE  OrderInv'
  <2>1. RunsInOrder' /\ CitedKind' /\ CaughtUp'
    BY <1>0, <1>2, InsertInOrder, InsertCites, InsertCatchesUp
  <2>2. ASSUME NEW e \in RunId, runs'[e].kind = "ENTITIES", HasTaken(e, 2)'
        PROVE  NotBehind(e)'
    <3>1. runs[e].kind = "ENTITIES" /\ HasTaken(e, 2) => NotBehind(e)
      BY DEF OrderInv
    <3> QED
      BY <1>0, <1>2, <2>2, <3>1, InsertNotBehind
  <2> QED
    BY <2>1, <2>2 DEF OrderInv
<1>3. CASE UNCHANGED <<runs, published, cites, task>>
  BY <1>3, OrderApart
<1> QED
  BY <1>1, <1>2, <1>3, KnowledgeMoves

(* The order gives what is promised of entity resolutions and of reports:   *)
(* those that are published have looked for every source.                   *)
LEMMA OrderSafe ==
  ASSUME KnowledgeInv, OrderInv
  PROVE  EntitiesCoherent /\ ReportsAdvance
<1>1. \A r \in published : r \in RunId /\ \A i \in 1..4 : HasTaken(r, i)
  BY OrderTypes DEF HasTaken
<1>2. EntitiesCoherent
  <2>1. \A e \in published : runs[e].kind = "ENTITIES" => NotBehind(e)
    BY <1>1 DEF OrderInv
  <2> QED
    BY <2>1, Zenon DEF NotBehind, EntitiesCoherent
<1>3. ASSUME NEW r \in Reports, NEW s \in Reports, r < s, NEW k \in RunKind
      PROVE  cites[r][k].run <= cites[s][k].run
  <2>1. /\ r \in RunId /\ s \in RunId /\ r \in published /\ HasTaken(s, 1)
        /\ HasTaken(s, 2) /\ HasTaken(s, 3) /\ HasTaken(s, 4)
        /\ runs[r].kind = "REPORT" /\ runs[s].kind = "REPORT"
    BY <1>1 DEF Reports
  <2>2. CASE k = "REPORT"
    <3>1. cites[r][k].run = 0 /\ cites[s][k].run = 0
      BY <2>1, <2>2 DEF OrderInv, CitedKind
    <3> QED
      BY <3>1
  <2>3. CASE k # "REPORT"
    <3>1. PICK i \in 1..4 : ReportSources[i] = k
      BY <2>3, SourcesKnown
    <3>2. HasTaken(s, i)
      BY <2>1, <3>1
    <3> QED
      BY <1>3, <2>1, <3>1, <3>2 DEF OrderInv, CaughtUp
  <2> QED
    BY <2>2, <2>3
<1>4. ReportsAdvance
  BY <1>3 DEF ReportsAdvance
<1> QED
  BY <1>2, <1>4
=============================================================================
