# Formal models of AI-FORGE

TLA+ models of the back end (`src/backend/app`): how evidence gets into the system and
jobs turn it into published results, and the services that work on a case afterwards:
derived analyses, reports, fusion, the investigation workflow, collaboration, review, and
what the processes share in Redis. TLC checks small instances; the theorems are checked
by TLAPS for every value of the constants. Paths below are relative to `src/backend/app`
unless they start with `src/`.

## The system

A FastAPI process serves requests; each request has its own database session
(SQLAlchemy, `expire_on_commit=False`, READ COMMITTED). Evidence is uploaded into storage and
registered in the database. A client then asks for jobs on it. A job is a row of
`processing_jobs`; its work runs after the response, as a background task of the
same process (`JOB_QUEUE_MODE=local`, the default) or, for preprocessing only, in a
Celery worker (`redis`/`celery`, with `task_acks_late=True`). Analyses of a case and reports are
runs with tables of their own and the same life. Nothing is scheduled in between: no
sweeper, no retry, no lease. All other handlers read rows, decide, and commit; no row is
locked from the read to the commit, and no version is compared.

| Component | State | Operations | Hard behaviour | What makes it correct |
|---|---|---|---|---|
| Evidence ingestion (`application/services/evidence_service.py`, `infrastructure/storage/local.py`, `infrastructure/database/repositories/evidence.py`) | evidence rows, staged and final objects, number sequence | `ingest` | concurrent uploads of the same bytes, failure between storage and database, clean-up that may fail | a row always has its original; answers agree with the table; no duplicates |
| Preprocessing (`application/services/processing_service.py`) | job row, `evidence.status`, `evidence.metadata_json`, artifacts, custody | `create_job`, `run`, `_fail_job`, `cancel` | check-then-insert, redelivery, stale unit of work, partial failure | one active job per slot; whole result or nothing |
| Extraction (`extraction/service.py`) | the same, without `evidence.status` | `create_job` (idempotent), `run`, `_fail_job` | a repeat racing the first request | no analysis before an extraction |
| Forensic analysis (`forensics/service.py`) | the same, plus `AnalysisRun` and the ANALYZING status | `create_job`, `run`, `_fail_job` | a status that must be undone on failure | ANALYZING is never left behind by a job that ended |
| AI engines, fusion, comparison (`ai/{image,document,video,audio}`, `ai/document/signature`, `fusion`, `comparison`) | job, a run row, artifacts, one metadata section | `create_job`, `run`, `_fail_job` | as above, expired rows in the except clause, a signature that publishes early | as above |
| Fusion's verdict (`fusion/{aggregator,jury,conflicts,policy}.py`) | finding tables, what a run collected | collect, assess, decide | findings published while a run collects | unavailable counts nothing; an accusation stands |
| Case analyses (`correlation`, `entities`, `timeline`, `case_intelligence`) | a run table each, result rows | `create_*`, `run`, `_fail_run` | reading each other while they publish | derived results rest on published, coherent ones |
| What the engines derive (`timeline/engine.py`, `correlation/engine.py`, `entities/resolver.py`) | events and conflicts, correlations, a graph of entities | `build`, `resolve` | a dozen tables read one after the other while services append; two engines that normalise on their own | nothing that was there is missed, nothing is invented; conflicts stand; every relationship has its evidence |
| Reporting (`reporting`) | report rows, PDFs | `create_report`, `run`, `_fail_report` | a snapshot read in many statements; storage before commit | what is shown as finished is shown whole; downloads have their file |
| Runs inside a request (`knowledge_graph`, `interoperability`) | run rows, graph rows, packages | `build_graph`, `export_case`, `import_package` | a failure committed without rollback | a success is complete; a named package exists |
| Workflow (`workflow`) | status, milestones, tasks, reviews | request handlers | lost updates | milestones, times and histories survive them |
| Collaboration (`collaboration`) | members, case stage | request handlers | check-then-act on roles and stages | the last owner stays; the policy is followed |
| Case review (`case_review`) | approvals, stage of the run | `generate`, `record_approval`, `update_checklist_item` | a stage computed from a stale reading | a stage is earned; a rejection stands |
| Locks and limits (`scaling/cache.py`, `security/ratelimit.py`) | keys of Redis, a bucket per process | `distributed_lock`, `allow_request` | multi-command updates, expiry, lost answers | exclusion within leases; counters end |
| Authentication, dashboards, recovery scripts, web client | | | see *Not modelled* | |

How they interact: requests insert job rows; runs read the job and the evidence row,
write artifacts to storage, and publish in one transaction the artifact rows, the
custody events, the metadata section and the job status. The job services never call one
another. They meet in three places: the partial unique index on active jobs, the two
columns `evidence.status` and `evidence.metadata_json` that all of them write, and the
admission checks of extraction and analysis, which read what others committed. Fusion reads
the findings the engines published. The case analyses read each other's newest runs
(entities <- correlation <- timeline) and reports read all of them. Workflow, collaboration and review keep
tables of their own.

`PROJECT.json` lists every component and, under `hazards`, each place where this can go
wrong in a way a test would hardly reach.

## Modules

    EvidenceDatabase      shared state, tables, index, unit-of-work session
      JobRun              the steps all job services have in common
        PreprocessingService  ExtractionService  ForensicService  ImageAIService
        DocumentAIService  VideoAIService  AudioAIService  SignatureService
        FusionService  ComparisonService
          EvidencePipeline    the ten composed, processes, properties
            MCEvidencePipeline        for TLC
            EvidencePipelineProofs    theorems: rows, objects, outcomes
              PipelineProgressProofs  theorems: the course of evidence, refinement
    JobLifecycle          the abstract job table EvidencePipeline implements
    EvidenceIngest        ingest over local storage
      MCEvidenceIngest, EvidenceIngestProofs

    CaseRequests          what an UPDATE of a stale row writes
      CaseRun             the steps the runs of a case have in common
        CaseAnalyses  ReportService
          CaseKnowledge           the five composed, properties
            CaseKnowledgeProofs
      Collaboration  InvestigationWorkflow                  CaseworkProofs
      CaseRecords             the rows the engines read, and how
        TimelineEngine  CorrelationEngine  EntityResolver     EngineProofs
      CaseReview  InlineRuns  DistributedLock  RateLimit  and FusionJury: ServiceProofs
        Platform              all of these composed
          MCPlatform          for TLC
          PlatformProofs      theorems

### Evidence pipeline

One action is one transaction or one storage call, the points where another coroutine
or process can run. A row is read where the code reads it and written where the code
commits, so what a run holds may be stale.

* `jobs`, `evidence`, `artifacts`, `custody`, `analysisRun` are the tables;
  `objects` is storage. `evidence[e].sections` is the set of services whose section is
  in `metadata_json`. Row numbers stand for the order of `created_at`.
* `session[r]` is what the SQLAlchemy session of run `r` has loaded. `Flush` is its
  rule: assigning a value equal to the loaded one writes nothing. `Merged` is
  `{**metadata_json, section}`: the whole document is replaced by the loaded copy plus one
  section, so a section committed in between is lost.
* `pc[r]` is the position of one invocation of `run(job_id)`; a run is a job and a
  delivery, because a job can be dispatched more than once: the endpoint dispatches a
  job that `create_job` returned unchanged (`DispatchAgain`), the broker may deliver a task
  again (`BrokerRedelivers`).
* `client[c]` is a request between its reads and its write: `Admit` (the service's
  checks), `CheckActive` (`get_active`), `Insert` (the commit the index may refuse).

The `try` block goes `pending -> jobRead -> loaded -> running -> started -> done`. The `except`
clause has two entrances. If a transaction is open, the rollback expires what the
session loaded (`Raise`), the run cleans up its artifacts one at a time
(`CleanupArtifact`), and `_fail_job` reads the rows again (`FailLoad`, `CommitFailed`).
If none is open, the rollback does nothing and `_fail_job` works on the rows as they were
loaded long before (`RaiseOutside`). The services that keep a run row read its id
in the except clause; that row is expired after a rollback and cannot be loaded there, so the
clause raises and `_fail_job` is not reached (`LoseRunId`). `Crash` is a killed process, a lost
dispatch, or a database that also refuses `_fail_job`.

What differs between the services is what they pass to these steps: the status that
lets a request in, the status a commit writes, whether custody events and a run row are
written, whether the run is one transaction, and whether a succeeded job is handed back. The signature
service commits its artifact row in the middle of the run (`_execute_verification`), and its except
clause knows of no created artifact; both are in `SignatureService`.

### Ingestion

`EvidenceIngest` follows `ingest` line by line at the same grain: `Stage`, `CheckDuplicate`,
`AllocateNumber`, `CommitObject`, `Register`, then the finally clause, `CleanTemp` and
`CleanFinal`. `number[u] # 0` stands for `final_key is not None`, `registered` for the local
flag of that name. Both dialects are modelled: a PostgreSQL sequence that no rollback
takes back, and the newest row plus one elsewhere. Clean-up may fail and is then logged
(`errors`).

### Analyses of a case and reports

`runs` is the union of the five run tables; `task[r]` is the background task. A task
reads its sources in the order of the code, the run row in one statement (`ReadRow`) and its
result rows in the next (`ReadRows`); `cites[r][k]` is what it saw of kind `k`: which run, with
which status, with its rows or without. Publishing is one commit, whose answer may be lost; then, as in
the code, `_fail_run` sets FAILED over SUCCEEDED. `AggregateTimeline` is the report's access to
a relationship that an async session cannot load lazily (see the finding).

### The engines

What a run derives is in three modules over the rows of a case (`CaseRecords`). `held` is the evidence rows with the
dates in their metadata, `rows` the rows of the other tables, which are only added. `reading[e]` is the build of
engine `e` at work: the items its first SELECT listed, and the rows it has read. Each further SELECT is an action
(`ReadTable`, in the order of `TimelineTables`, `CorrelationTables`, `ResolverTables`), and between any two of them other services commit;
`before` is a history variable, the rows there were when the build began. Publishing is one commit.

* `TimelineEngine`: which dates become events, and the four kinds of conflict that can be reported.
* `CorrelationEngine`: exact groups of extracted texts, pairs of a comparison, and items with events at the same time, the last
  from the newest timeline, which is selected last. The signals of the metadata, file names, logos and scores are left out.
* `EntityResolver`: entities merged by normalised key, and the relationships of three sources: texts, signatures, and the newest
  correlations, taken up last. `earlier` is a history variable, the correlations there were when the build began.

`Text` has spellings and `Folded` what normalisation makes of them; payloads of QR codes are compared as they are by the
correlation engine and folded by the resolver. A signature match is an entity of its own in the code for each run, in the model for each pair.
The dates are written from outside: see *Observations*.

### Handlers on stale rows

In `Collaboration`, `InvestigationWorkflow` and `CaseReview` a request has a record of what it read; its
commit writes the columns that differ from that (`Column` in `CaseRequests`). The history variables
`collabLate`, `flowLate` and `reviewLate` are the requests that another commit *overtook* between
their reading and their own commit. They are not in the code and no guard reads them. They let a
property say exactly what the code promises: with nobody overtaken the rule holds; with
somebody overtaken it may not, and then these requests are the reason.

### Fusion's verdict, runs in a request, Redis

`FusionJury` collects findings modality by modality (`CollectModality`) while analyses publish
(`PublishFindings`), and translates the jury: specialists by scope, the senior judge's rules in their
order, conflicts between modalities and between jurors. The conflict of scores is an input
(`spread`).

In `InlineRuns`, `draft` is the run row in the session and `recorded` what is committed. The except clause commits
without a rollback, so it commits the draft as it is (`HandleError`).

`DistributedLock` has SET NX with expiry, the comparison of the token, and the DELETE as separate
commands; `leaseLost` records that a lease ended between the last two. `RateLimit` has INCR and EXPIRE as separate
commands under one timeout; `cutShort` records a timeout that struck between them, and the request then
falls back to the bucket of its process.

### Platform

`Platform` composes these. No state or check of one of its components is part of another's
(milestones and review plans that look at the rest of the case are inputs of their modules), so a
product of all interleavings would only multiply independent state spaces. A behaviour therefore
has a `workload`, chosen at the start: the kinds of requests that occur in it. Kinds that read each
other's rows are in a workload together. The theorems hold for any set of workloads, including one that
has every kind.

### Abstract specification

`JobLifecycle` is what a reader of the job table may rely on: one active job per slot
(evidence item and type), `QUEUED -> RUNNING -> SUCCEEDED | FAILED`, and the whole result
visible in the step that makes the job SUCCEEDED. `ImplementsLifecycle` maps the pipeline
onto it and is checked as a temporal property.

## Runs

| Run | Instance | Checks |
|---|---|---|
| `pipeline_local` | 1 request at a time, 4 jobs, 2 invocations per job, 2 artifacts, PREPROCESSING + EXTRACTION + ANALYSIS | `TypeOK`, `ArtifactsBacked`, `OutcomeComplete`, `AnalyzingHasRun`, `ReadyWasProcessed`, `NoOrphans`, `ImplementsLifecycle` |
| `pipeline_race` | 2 requests at a time, 4 jobs, 1 invocation per job | `AnalysisAfterExtraction`, `ImplementsLifecycle` |
| `pipeline_broker` | Celery delivery, storage calls that fail half-way, PREPROCESSING + IMAGE_AI_ANALYSIS, 2 jobs | `ActiveUnique`, `ArtifactsBacked` |
| `pipeline_progress` | fair runs, cancellation, storage faults and lost commit answers, PREPROCESSING + EXTRACTION, 2 jobs | `Progress` |
| `pipeline_engines` | 1 request at a time, 3 jobs of eight types: preprocessing, comparison, fusion, and the image, document, video, audio and signature engines; 2 artifacts | `ArtifactsBacked`, `OutcomeComplete`, `ReadyWasProcessed` |
| `ingest` | 3 uploads of 2 contents, both dialects | `TypeOK`, `OriginalPreserved`, `RowsDistinct`, `AnswerTrue`, `NumbersDistinct` |
| `platform` | 17 workloads, 2 requests at a time, all faults | `TypeOK`; analyses and reports: `CitedPublished`, `EntitiesCoherent`, `ReportShowsRows`, `ReportsAdvance`, `PdfBacked`; engines: `BuildsBracketed`, `ConflictsStand`, `GraphExplained`; workflow: `MilestonesCoverStatus`, `ReviewHistoryLegal`; review: `StageEarned`, `RejectionStands`; fusion: `UnavailableNeutral`, `AccusationStands`; runs in a request: `RecordsBacked`; Redis: `LockExclusive`, `CounterExpires`; collaboration: `LastOwnerKept`; stages and statuses: `MovesAlongPolicy` |
| `pipeline_redelivery` | Celery delivery, 1 job | violates `TerminalStable` |
| `pipeline_repeat` | 2 requests at a time | violates `ExtractionNotRepeated` |
| `pipeline_abandoned` | 3 jobs, one of each type | violates `EndRecorded` |
| `ingest_ack_lost` | 1 upload, lost commit answer | violates `OriginalPreserved` |
| `report_timeline` | 1 request, 2 runs, no faults, REPORT + TIMELINE | violates `ReportsComplete` |

The last five are disagreements between the code and its documents; `PROJECT.json`
quotes both sides under `findings`.

**Bounds of the pipeline and of ingestion.** One evidence item is enough: no row, index entry, object or check of one
item mentions another. Four jobs are the shortest history with all three stages and one
repeat (a second preprocessing under an analysis, a second extraction after a failure).
Two invocations of a job are a run and its rival; a third does only what the second can.
Two artifacts make a partly stored result and a partly finished clean-up; where the
number of artifacts is 1, the half-way state is a storage fault instead. With two requests,
every check-then-insert has its competitor. Two jobs suffice in `pipeline_broker`: what is
asked there is whether two runs of one job, and the next job of the same type, disturb each
other. Three in `pipeline_engines`: preprocessing, and two jobs that meet after it. In `ingest`, two
uploads of the same content race while a third takes numbers.

**Bounds of the platform.** Two requesters: each check meets a commit that overtakes it. `MaxRuns = 3`: an
entity resolution with the correlation and the timeline it reads, or two reports around an analysis.
Two users, so that two owners can demote each other, and three member rows, so that one can
be removed and added again. `MaxHistory = 4` entries let a review be reopened and lose an update. Two approver
roles: one approval is not all. `FourModalities` has two modalities of one specialist and one of two others, and
`MaxFindings = 3` gives the senior judge each of his rules. `RequestLimit = 1` and
`MaxCount = 3`: within the limit, at it, beyond it. The engines have two items, which is a pair and an item beside it, and a
reference of another case; `MaxRows = 2` rows, enough for two items to share a text and for one row to come between two
SELECTs; two spellings of one text; `MaxTime = 4` with `Now = 3`, so that dates lie before and after it, and with `Spread = 1`
dates that have drifted apart although each is near the next; `MaxDates = 2`. Three tables stand for the ten, one of each shape
(texts, comparisons, others). The platform has about 2.2 million distinct states.

**Symmetry.** Requests are interchangeable: no constant names one of them, and the properties quantify
over them. (So are users and approver roles, but they occur in few workloads, and TLC would permute every state.) The properties checked under symmetry are invariants and
action properties, no liveness.

Deadlock checking is off because a bounded instance ends: all jobs used, all uploads answered, all
requests away.

**Flags.** `Celery`, `Cancellable`, `StorageFaults` and `AckLoss` say which faults an instance has.
`Cancellable` is only TRUE for `Progress`, because no endpoint calls `cancel`. `AckLoss` is
only TRUE for `Progress` and for the finding; with it, `ArtifactsBacked` is false for the same
reason as in `ingest_ack_lost`: the clean-up follows a commit that took effect.
`NoOrphans` is checked without storage faults: an unlink that fails after the link does
leave an object that no list mentions (`infrastructure/storage/local.py:108-123`).
`RunFaults` is TRUE in `platform` (errors, lost answers, killed processes) and FALSE only in
`report_timeline`, to show that the report fails without any.

**Fairness.** `FairSpec` assumes weak fairness of the steps of each run: the event loop
goes on executing a background task that can run, and a thread or a query returns. No
fairness is assumed of requests, cancellation, redelivery or crashes. `Progress` allows a job
whose process was killed to stay where it is, because that is what the code does.
It is checked for the two services that always reach `_fail_job`; for the others
`EndRecorded` shows that a run can end without a terminal job. `Platform` states no fairness: its
properties are safety properties.

## Theorems

`EvidencePipelineProofs`:

* `PipelineTypeInv`: `TypeInv` is inductive. The types alone are not: a run indexes `jobs` and
  `evidence` by its own job's row, so the strengthening says that a row that exists names an evidence
  item and a type, that a run that is not idle has such a row, and that a request between
  its check and its insert names what it was made for.
* `PipelineTypeCorrect`: `TypeOK` follows.
* `OneActiveJob`: `ActiveUnique`. Each step either leaves all rows as active as they were, or
  changes one row and makes it active only if the index saw no other (`IndexSaw`). There are
  two such places, the insert and the update to RUNNING; publishing, `_fail_job` and `cancel`
  overwrite a status without looking at the stored one, and the proof is that they only write an end.
* `PublishedStaysBacked`: `ArtifactsBacked`, assuming `AckLoss = FALSE`. The inductive invariant
  `BackedInv` relates what a run has published, created and still has to clean up. So a clean-up, which
  touches only keys of its own run, never meets a published key, whatever is redelivered or killed, and
  though a signature publishes before its run ends.
* `OutcomesAreComplete`: `OutcomeComplete`, assuming `AckLoss = FALSE` and `Celery = FALSE`. `OutcomeComplete` says that
  *some* run of a job did all of it; the proof names the run, the first (`SoleRun`: whoever is dispatched after it finds
  the job not QUEUED and does nothing), and says of that one what `OutcomeComplete` says of the job (`Ended`). What shows an end is only
  ever added to (`EndedStays`). `OutcomeInv` makes no claim on a type that a broker hands out again (`Redelivered`).
* `OrphansAreOfTheKilled`: `NoOrphans`, assuming `StorageFaults = FALSE`. Each object is *accounted for* (`OrphanInv`): it has a row, or
  its run is at work with the object on its list, or was killed. It needs no assumption on delivery, cancellation or answers.

`PipelineProgressProofs`, which goes on from there:

* `AnalyzingIsHeld`: `AnalyzingHasRun`, assuming `Cancellable = FALSE`. The status ANALYZING is written by a run and has
  to be taken back by the same one, out of what its session remembers; `AnalysisHeld` says that a run that works, or is about to fail, still
  remembers ANALYZING or has not begun. That is what makes the guarded restore in `_fail_job` enough.
* `EndsAreFinal`: `TerminalStable`, assuming `Celery`, `AckLoss` and `Cancellable` FALSE. It is the counterpart of the finding
  `pipeline_redelivery`: without a broker the test at the beginning of `run` suffices, because there is one run that passes it.
* `AnalysisFollowsExtraction`: `AnalysisAfterExtraction`, assuming `AckLoss` and `Cancellable` FALSE. What a request was admitted for
  stays true until it inserts (`ExtractedInv`): rows are created in order, and no extraction that succeeded is taken back.
* `ReadyIsProcessed`: `ReadyWasProcessed`, with the assumptions of `EndsAreFinal`. `ProcessedInv` says of every session that holds the
  metadata document of a later service that the classification is in it, so replacing the document cannot drop it.
* `PipelineImplementsLifecycle`: `ImplementsLifecycle`, with the same assumptions and `"SIGNATURE_VERIFICATION" \notin Requested`. The initial state maps to the
  initial state; `RequestLifecycle` maps an insert to the creation of a job and every other step of a request to a stutter;
  a step of a run begins, publishes or fails a job, or is a stutter (a step of a run says nothing to readers until it commits);
  `LifecycleInv` has what those need: the status a run tested is still the job's (`RunStatus`). The signature service is left out because it does not
  implement the table: it commits its row with the job RUNNING.

Each of these assumptions is needed: `pipeline_redelivery` and `ingest_ack_lost` show two of them fail, and a cancelled run that
goes on overwrites CANCELLED. `Celery = FALSE` is `JOB_QUEUE_MODE=local`, the mode of `src/.env.example:55`; nothing calls `cancel`.

The ten services share the steps of `JobRun`; `RunStepShape` says so, and the proofs have one case per
shared step rather than one per service.

`EvidenceIngestProofs`:

* `IngestTypeCorrect`: `TypeOK`.
* `RowsAreDistinct`: `RowsDistinct`, from the two unique constraints, whatever the racing checks read.
* `OriginalsArePreserved`: `OriginalPreserved`, assuming `AckLoss = FALSE`; the strengthening says that an
  upload with a row is registered and past its link.
* `AnswersAreTrue`: `AnswerTrue`, assuming `AckLoss = FALSE`: an upload knows, at each position, whether it has a row and which of its
  objects exist.
* `NumbersAreDistinct`: `NumbersDistinct`; the strengthening bounds every number by the sequence.

`PlatformProofs`: `PlatformInvariant` proves `PlatformInv`, the conjunction of one inductive invariant per
component; a step of one component leaves the others' variables alone (the lemmas `...Apart`). From it:

* `CitationsArePublished`, `ReportsShowRows`, `DownloadsAreBacked` (`KnowledgeInv`, in `CaseKnowledgeProofs`): a task that has read
  a SUCCEEDED run cites a published one, and has its rows or is about to read them; a published run is
  never unpublished; a report past `StorePdf` has its PDF.
* `EntitiesKeepUp`, `ReportsOnlyAdvance` (`OrderInv`, at the end of `CaseKnowledgeProofs`) order readings in time without a clock.
  `HasTaken(s, i)` says that run `s` has looked for its i-th source. `CaughtUp`: once a report has, what it cites is at least what any
  report published before it was inserted cites; there is no other, since two reports never work at once (`RunsInOrder`). `NotBehind`: once
  an entity resolution has looked for the timeline, it took none older than the one its correlation took, because that one was published
  when it looked. Every step is one of seven kinds (`Moves`) or an insert, and the proof goes by these.
* `GraphIsExplained`, `TimelineConflictsStand`, `BuildsAreBracketed` (`EnginesInv`, in `EngineProofs`): a build at work has all rows of
  the tables it is past that were there before, and no others than there are (`BuildSound`). Conflicts only grow with items, rows and dates
  (`ConflictsGrow`), so what a published timeline reports, one built on what is there now would, and therefore every later one. Each
  correlation on record by a text or a signature is supported by rows on record (`Supported`), those that were there when the
  resolver began by rows it has read; folding keeps equal signals equal, which gives the entity that rests on both (`GraphWellMade`).
* `MilestonesKeepUp`, `TasksAreTimed`, `HistoriesAreLegal` (`FlowInv`): the row *and what every request has loaded, stale or not,* are
  legal (`TaskTimes`, that an ended task has its time, among it), and no status is its own successor; so whichever of two requests commits last, it writes a
  legal row.
* `LastOwnerStays`, `PolicyIsFollowed` (`CollabInv`, `FlowInv`): what a request that nobody overtook has read is still so; the
  owner it counted besides the one it demotes is still there (`AnotherOwner`, by cardinality). A row id is never given
  twice, which is why a removed and re-added member is not mistaken for the old one.
* `StagesAreEarned`, `RejectionsStand` (`ReviewInv`): approvals only grow, so a stage earned by what a request read stays earned.
* `UnavailableIsNeutral`, `AccusationsStand` (`FusionInv`): what a run gathers includes, for each modality it is past, all that was
  on record when the last verdict was made; and more findings are never a milder verdict (`MoreIsWorse`),
  though the senior judge's rules are not a majority and conflicts turn genuine into inconclusive.
* `RecordsAreBacked` (`InlineInv`): a draft names a package only after it was written.
* `LockIsExclusive` (`LockInv`): a key's holder has its lease, and until a lease is lost between comparison and
  DELETE, a running lease is the key's.
* `CountersExpire` (`LimitInv`), `PlatformTypeCorrect`.

The only assumptions are the named `ASSUME`s of the modules (kinds of the constants; the set of users is
finite, so that owners can be counted; no requester is called "none"), which
TLC evaluates on every run, and the flags that a theorem names in its `ASSUME`.

Every invariant, action property and refinement that a passing run checks is thus proved, for all instances with
the flags it is checked with. Only model-checked: `Progress`, because
liveness under fairness is out of the prover's reach, and the five counterexamples. `ImplementsLifecycle` is proved without the
signature service and is checked without it too. No module uses recursion.

## Observations

Jobs and evidence:

* A run that finds the evidence row gone (`EVIDENCE_NOT_FOUND`) is not modelled: nothing deletes evidence.
* `metadata_json` is rewritten whole. `ReadyWasProcessed` holds because every other service loads the
  document after preprocessing wrote its section; the sections of two services that run at
  the same time can still replace each other.
* A preprocessing run that fails after an analysis finished sets the evidence to FAILED, and an
  analysis that finishes after sets it back: the status says who wrote last.
* The read of an expired run id in the except clause is in the document, video, audio, fusion and comparison
  services as well as in the two that the finding names.

Analyses and reports:

* A report shows the newest run of each analysis even when it is QUEUED, RUNNING or FAILED, then without rows.
* When the answer to the publishing commit is lost, a run is FAILED though its rows are there.
* A killed process leaves a QUEUED or RUNNING row, and every later request of that kind is answered 409.
* A failed report leaves its PDF in storage. `delete_run`, `delete_timeline` and their like are called by no endpoint.
* The timeline lists a report that FAILED as REPORT_GENERATED, and an intelligence run of any status as completed.
* Aggregation reads the metadata sections `image_ai`, `document_ai`, ... (`reporting/aggregation.py:211`), while the services write
  `ai_image_analysis` and the like: a report never shows them.
* Retention (`recovery/retention.py:103`) removes entries of `reports/` by their age without looking at report rows; `PdfBacked`
  is about the service alone.
* A failed knowledge graph may keep part of its rows, because FAILED is committed without a rollback;
  `download_export` does not look at the status.
* No rule of fusion yields *genuine* in practice: it takes two votes, and only the signature specialist can cast one
  (`src/docs/fusion-ai.md:57`). Findings of repeated analyses of one item are all collected.

Engines:

* No service of this commit writes the sections `exif` and `filesystem` that the timeline engine looks for, or a date into `extraction`; tests
  put them there. The model lets them be written from outside (`AddDate`), so that the engine's rules for them are checked;
  with what the services write, no metadata date is ever an event, and the conflicts of several dates do not arise.
* A date that is not ISO 8601, which those of EXIF are not, gives neither an event nor TIMESTAMP_MISSING, although
  `src/docs/timeline-engine.md:60` says that missing timestamps are represented as such.
* TIMEZONE_MISMATCH and DUPLICATE_EVENT can never be reported: timestamps are all normalised to UTC, and event ids contain row ids.
  SAME_HASH cannot occur within a case, whose evidence is unique by hash.
* An item whose signature is compared with itself is correlated with itself; the resolver does not relate it to itself. The reference of a signature
  comparison is looked up by its id alone, so it may be of another case, and the entity then cites evidence the case does not have.
* Only the first value two items share, or the first row, is kept as the support of a correlation.

Case handlers:

* Two requests that race past `count_owners` can leave a case without an owner; `LastOwnerKept` says that nothing else can.
* Activity lists and review histories are rewritten from the loaded value: an entry committed in between is
  lost, although the history that remains reads as a legal one.
* A review read as `approved` can be published over a `revision_required` committed meanwhile.
* `PATCH` of a review to approved does not reach the REPORT_APPROVED milestone; only a review created as approved, or the investigation's
  status, does. An evidence review decided again with its own status writes a history entry and no status.
* `get_workflow` and `update_status` take the workflow and its milestones in different orders, so the database may abort one.
* A case review's BLOCKED or FAIL marks do not stop its approval; a stale recomputation can overwrite REJECTED, and the next request
  that is not overtaken sets it back. PENDING cannot be reached and FINALIZED is never set.
* `run_coordinated_tick`, the user of `distributed_lock`, has no caller.

## Not modelled

* What processors, extractors, detectors, networks and matchers of images compute, and the scores, order, wording and provenance of
  what the engines derive: results are a number of payloads, a run's rows, or an input. They keep no state, and they are most of the back end's lines, together with
  request and response schemas, parsers and renderers.
* Notifications, activity feeds, notes, comments, assignments and audit rows: single inserts that no check reads.
* Authentication and sessions: access control is outside what these models are about; that a request is allowed is an input where
  a handler branches on it (`MayManage`).
* Remote object stores, whose partial failures are decided by vendor SDKs.
* The AI model registry, integrity monitoring, dashboards, decision support: each inserts one result computed in one transaction.
* Backup and restore, which an operator runs while the service is stopped; configuration; the web client.

`PROJECT.json` has each component with its reason.

## What could follow

What remains true of each property of the pipeline *with* a broker, for example that a job which ended has, for each of its runs that
published, all rows of that run; an abstract specification of a case's runs that `CaseKnowledge` implements, with `CaughtUp` and
`NotBehind` among its promises; the jobs of the signature service against a job table that
publishes early; fairness for the background tasks of the case runs, with the liveness that a run
that is not killed ends.
