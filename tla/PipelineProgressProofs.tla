---------------------- MODULE PipelineProgressProofs ----------------------
(***************************************************************************)
(* How evidence goes from upload to ANALYZED, whoever works on it, and     *)
(* that the pipeline implements the job table of JobLifecycle, for every   *)
(* set of evidence items and API requests, and every number of jobs,       *)
(* deliveries and artifacts. Each theorem assumes away only the failures   *)
(* that break it.                                                          *)
(***************************************************************************)
EXTENDS EvidencePipelineProofs

-----------------------------------------------------------------------------
(* Evidence that is being analysed                                          *)

(* What the three commits of a run write into its evidence row.             *)
LEMMA RunStepEvidence ==
  ASSUME TypeInv, NEW r \in Run, NEW t \in JobType, StepOf(r, t)
  PROVE  LET s == session[r]
             old == evidence[EvidenceOf(r)]
             new == evidence'[EvidenceOf(r)]
         IN /\ \A e \in Evidence : e # EvidenceOf(r) => evidence'[e] = evidence[e]
            /\ Begins(r, t) =>
                 /\ new.status = Flush(old.status, s.status, BeginStatus(r, t))
                 /\ new.sections = old.sections
            /\ Publishes(r, t) =>
                 /\ new.status = Flush(old.status, s.status, SuccessStatus(r, t))
                 /\ new.sections = Flush(old.sections, s.sections, s.sections \cup {t})
            /\ Fails(r, t) =>
                 /\ new.status = Flush(old.status, s.status, FailureStatus(r, t))
                 /\ new.sections = old.sections
  <1>1. evidence \in [Evidence -> EvidenceRow] /\ EvidenceOf(r) \in Evidence
    BY RunStepAt DEF TypeInv, TypeOK
  <1>2. ASSUME NEW status, NEW sections,
               evidence' = UpdatedEvidence(EvidenceOf(r), session[r], status, sections)
        PROVE  /\ evidence'[EvidenceOf(r)].status =
                    Flush(evidence[EvidenceOf(r)].status, session[r].status, status)
               /\ evidence'[EvidenceOf(r)].sections =
                    Flush(evidence[EvidenceOf(r)].sections, session[r].sections, sections)
               /\ \A e \in Evidence : e # EvidenceOf(r) => evidence'[e] = evidence[e]
    BY <1>1, <1>2 DEF UpdatedEvidence
  <1>3. ASSUME Begins(r, t)
        PROVE  evidence' = UpdatedEvidence(EvidenceOf(r), session[r], BeginStatus(r, t),
                                           session[r].sections)
    BY <1>3 DEF Begins, CommitRunning
  <1>4. ASSUME Publishes(r, t)
        PROVE  evidence' = UpdatedEvidence(EvidenceOf(r), session[r], SuccessStatus(r, t),
                                           session[r].sections \cup {t})
    BY <1>4 DEF Publishes, CommitSucceeded, Merged
  <1>5. ASSUME Fails(r, t)
        PROVE  evidence' = UpdatedEvidence(EvidenceOf(r), session[r], FailureStatus(r, t),
                                           session[r].sections)
    BY <1>5 DEF Fails, CommitFailed
  <1>6. \A stored, loaded : Flush(stored, loaded, loaded) = stored
    BY DEF Flush
  <1>7. \A e \in Evidence : e # EvidenceOf(r) => evidence'[e] = evidence[e]
    <2>1. Begins(r, t) \/ Publishes(r, t) \/ Fails(r, t) \/ evidence' = evidence
      BY RunStepCommits
    <2> QED
      BY <1>2, <1>3, <1>4, <1>5, <2>1
  <1>8. ASSUME Begins(r, t)
        PROVE  /\ evidence'[EvidenceOf(r)].status =
                    Flush(evidence[EvidenceOf(r)].status, session[r].status,
                          BeginStatus(r, t))
               /\ evidence'[EvidenceOf(r)].sections = evidence[EvidenceOf(r)].sections
    BY <1>2, <1>3, <1>6, <1>8
  <1>9. ASSUME Fails(r, t)
        PROVE  /\ evidence'[EvidenceOf(r)].status =
                    Flush(evidence[EvidenceOf(r)].status, session[r].status,
                          FailureStatus(r, t))
               /\ evidence'[EvidenceOf(r)].sections = evidence[EvidenceOf(r)].sections
    BY <1>2, <1>5, <1>6, <1>9
  <1>10. ASSUME Publishes(r, t)
         PROVE  /\ evidence'[EvidenceOf(r)].status =
                     Flush(evidence[EvidenceOf(r)].status, session[r].status,
                           SuccessStatus(r, t))
                /\ evidence'[EvidenceOf(r)].sections =
                     Flush(evidence[EvidenceOf(r)].sections, session[r].sections,
                           session[r].sections \cup {t})
    BY <1>2, <1>4, <1>10
  <1> QED
    BY <1>7, <1>8, <1>9, <1>10

(* A run has no analysis run row before it made its job RUNNING.            *)
NotBegun == {"idle", "pending", "jobRead", "loaded"}
RowAfterBegin == \A r \in Run : pc[r] \in NotBegun => analysisRun[r] = "NONE"

(* Where a step takes a run that has not begun, and whence one may clean up.*)
LEMMA RunStepMoves ==
  ASSUME TypeInv, NEW r \in Run, NEW t \in JobType, StepOf(r, t)
  PROVE  /\ pc'[r] = "jobRead" => ReadJob(r, t) /\ jobs[JobOf(r)].status = "QUEUED"
         /\ pc'[r] = "loaded" => pc[r] \in {"jobRead", "loaded"}
         /\ pc'[r] \in {"running", "started"} =>
              \/ Begins(r, t)
              \/ /\ pc[r] \in {"running", "started"}
                 /\ session'[r].status = session[r].status
                 /\ session'[r].job = session[r].job
         /\ pc'[r] = "cleanup" => pc[r] \in {"loaded", "running", "started", "cleanup"}
         /\ pc'[r] = "failing" =>
              \/ pc[r] = "started" /\ session'[r] = session[r]
              \/ Reloads(r, t)
  <1>1. /\ pc \in [Run -> RunPc] /\ session \in [Run -> SessionState]
        /\ pc[r] \in Unfinished
    BY RunStepAt DEF TypeInv, TypeOK
  <1>2. CASE ReadJob(r, t) \/ LoadEvidence(r, t)
    BY <1>1, <1>2 DEF ReadJob, LoadEvidence, IsQueued, At, Goto
  <1>3. CASE Begins(r, t) \/ Publishes(r, t) \/ Fails(r, t)
    <2>1. \/ Begins(r, t) /\ pc'[r] \in {"running", "started"}
          \/ pc[r] = "started" /\ pc'[r] \in {"done", "cleanup"}
          \/ pc'[r] = "done"
      BY <1>1, <1>3 DEF Begins, CommitRunning, Publishes, CommitSucceeded, Fails,
         CommitFailed, At, Goto
    <2> QED
      BY <2>1
  <1>4. CASE RunningConflict(r, t) \/ RecordStarted(r, t) \/ Raise(r, t)
    BY <1>1, <1>4 DEF RunningConflict, RecordStarted, Raise, At, Goto
  <1>5. CASE RaiseOutside(r, t) \/ LoseRunId(r, t)
    BY <1>1, <1>5 DEF RaiseOutside, LoseRunId, At, Goto
  <1>6. CASE Stores(r, t)
    BY <1>1, <1>6 DEF Stores, StoreArtifact, At, Goto, SessionState
  <1>7. CASE CleansUp(r, t)
    BY <1>1, <1>7 DEF CleansUp, CleanupArtifact, At
  <1>8. CASE Reloads(r, t)
    <2>1. pc'[r] = "failing"
      BY <1>1, <1>8 DEF Reloads, FailLoad, Goto
    <2> QED
      BY <1>8, <2>1
  <1> QED
    BY <1>2, <1>3, <1>4, <1>5, <1>6, <1>7, <1>8 DEF StepOf

(* A step of a run makes its analysis run row with RUNNING.                 *)
LEMMA RunStepRowAfterBegin ==
  ASSUME TypeInv, RowAfterBegin, NEW r \in Run, NEW t \in JobType, StepOf(r, t)
  PROVE  RowAfterBegin'
  <1> SUFFICES ASSUME NEW s \in Run, pc'[s] \in NotBegun
               PROVE  analysisRun'[s] = "NONE"
    BY DEF RowAfterBegin
  <1>1. CASE s # r
    BY <1>1, RunStepFrame, RunStepRows DEF RowAfterBegin
  <1>2. CASE s = r
    <2>1. pc[r] \in NotBegun
      BY <1>2, RunStepMoves, RunStepAt DEF NotBegun, ReadJob, At
    <2>2. UNCHANGED analysisRun
      BY <1>2, RunStepCommits DEF NotBegun
    <2> QED
      BY <1>2, <2>1, <2>2 DEF RowAfterBegin
  <1> QED
    BY <1>1, <1>2

(* While it works, the analysis of an item shows it as ANALYZING, in a      *)
(* status the run has written and remembers; before that, its job is QUEUED.*)
AnalysisHeld ==
  \A r \in Run : TypeOf(r) = "ANALYSIS" =>
    LET queued == jobs[JobOf(r)].status = "QUEUED"
        holds  == session[r].status = "ANALYZING"
    IN /\ pc[r] \in {"jobRead", "loaded"} => queued
       /\ pc[r] = "cleanup" /\ analysisRun[r] = "NONE" => queued
       /\ pc[r] \in {"running", "started"} => holds /\ analysisRun[r] # "NONE"
       /\ pc[r] = "failing" => holds \/ queued

(* An analysis that has begun holds its job through the steps of all runs.  *)
LEMMA RunStepHeld ==
  ASSUME TypeInv, SoleRun, RowAfterBegin, AnalysisHeld,
         NEW r \in Run, NEW t \in JobType, StepOf(r, t)
  PROVE  AnalysisHeld'
  <1> SUFFICES ASSUME NEW s \in Run, jobs'[JobOf(s)].type = "ANALYSIS"
               PROVE  LET queued == jobs'[JobOf(s)].status = "QUEUED"
                          holds  == session'[s].status = "ANALYZING"
                      IN /\ pc'[s] \in {"jobRead", "loaded"} => queued
                         /\ pc'[s] = "cleanup" /\ analysisRun'[s] = "NONE" => queued
                         /\ pc'[s] \in {"running", "started"} =>
                              holds /\ analysisRun'[s] # "NONE"
                         /\ pc'[s] = "failing" => holds \/ queued
    BY DEF AnalysisHeld, TypeOf, JobOf
  <1>1. /\ JobOf(s) \in Job /\ TypeOf(s) = "ANALYSIS" /\ ~Redelivered(TypeOf(s))
        /\ pc \in [Run -> RunPc] /\ session \in [Run -> SessionState]
        /\ analysisRun \in [Run -> AnalysisRunStatus]
    BY RunStepFrame DEF TypeInv, TypeOK, TypeOf, JobOf, Run, Redelivered
  <1>2. CASE s # r
    <2>1. pc'[s] = pc[s] /\ session'[s] = session[s] /\ analysisRun'[s] = analysisRun[s]
      BY <1>2, RunStepFrame, RunStepRows
    <2>2. pc[s] \in Executing => jobs'[JobOf(s)] = jobs[JobOf(s)]
      BY <1>1, <1>2, OthersKeepOurJob
    <2> QED
      BY <1>1, <2>1, <2>2 DEF AnalysisHeld, Executing
  <1>3. CASE s = r
    <2>0. t = "ANALYSIS" /\ pc[r] \in Unfinished
      BY <1>1, <1>3, RunStepAt
    <2>1. CASE Begins(r, t)
      <3>1. /\ pc' = [pc EXCEPT ![r] = "running"] \/ pc' = [pc EXCEPT ![r] = "started"]
            /\ session' = [session EXCEPT ![r].job = "RUNNING", ![r].status = "ANALYZING"]
            /\ analysisRun' = [analysisRun EXCEPT ![r] = "RUNNING"]
        BY <2>0, <2>1 DEF Begins, CommitRunning, BeginStatus, Goto
      <3> QED
        BY <1>1, <1>3, <3>1 DEF SessionState
    <2>2. CASE Publishes(r, t)
      <3>1. /\ pc' = [pc EXCEPT ![r] = "done"] \/ pc' = [pc EXCEPT ![r] = "cleanup"]
            /\ analysisRun' = [analysisRun EXCEPT ![r] = "SUCCEEDED"]
        BY <2>0, <2>2 DEF Publishes, CommitSucceeded, Goto
      <3> QED
        BY <1>1, <1>3, <3>1
    <2>3. CASE Fails(r, t)
      BY <1>1, <1>3, <2>3 DEF Fails, CommitFailed, Goto
    <2>4. CASE Reloads(r, t)
      <3>1. /\ pc[r] = "cleanup" /\ pc'[r] = "failing" /\ analysisRun[r] = "NONE"
            /\ jobs' = jobs
        BY <1>1, <2>0, <2>4 DEF Reloads, FailLoad, Goto, At
      <3> QED
        BY <1>1, <1>3, <3>1 DEF AnalysisHeld
    <2>5. CASE /\ UNCHANGED <<jobs, analysisRun>>
               /\ ~Begins(r, t) /\ ~Reloads(r, t)
      BY <1>1, <1>3, <2>5, RunStepMoves DEF AnalysisHeld, RowAfterBegin, NotBegun
    <2> QED
      BY <2>1, <2>2, <2>3, <2>4, <2>5, RunStepCommits
  <1> QED
    BY <1>2, <1>3

(* Requests, redeliveries and crashes make no analysis run row.             *)
LEMMA OthersRowAfterBegin ==
  ASSUME TypeInv, RowAfterBegin,
         RequestStep \/ \E r \in Run : BrokerRedelivers(r) \/ Crash(r)
  PROVE  RowAfterBegin'
  BY OthersEffect DEF RowAfterBegin, NotBegun

(* They take no job from an analysis that has begun.                        *)
LEMMA OthersHeld ==
  ASSUME Cancellable = FALSE, TypeInv, AnalysisHeld,
         RequestStep \/ \E r \in Run : BrokerRedelivers(r) \/ Crash(r)
  PROVE  AnalysisHeld'
  <1>1. ASSUME NEW r \in Run, pc'[r] \notin {"idle", "pending", "dead"}
        PROVE  /\ pc'[r] = pc[r] /\ session'[r] = session[r]
               /\ jobs'[JobOf(r)] = jobs[JobOf(r)]
    <2>1. pc'[r] = pc[r] /\ session'[r] = session[r]
      BY <1>1, OthersEffect
    <2> QED
      BY <1>1, <2>1, BegunHasRow, OthersEffect
  <1> QED
    BY <1>1, OthersEffect DEF AnalysisHeld, TypeOf, JobOf

(* A run step that leaves an item ANALYZING is that of an analysis which    *)
(* begins, or finds it so and does not end the analysis that holds it.      *)
LEMMA RunStepAnalyzing ==
  ASSUME TypeInv, SoleRun, AnalysisHeld, AnalyzingHasRun,
         NEW r \in Run, NEW t \in JobType, StepOf(r, t)
  PROVE  AnalyzingHasRun'
  <1> SUFFICES ASSUME NEW e \in Evidence, evidence'[e].status = "ANALYZING"
               PROVE  \E j \in Job : /\ jobs'[j].evidence = e
                                     /\ jobs'[j].type = "ANALYSIS"
                                     /\ jobs'[j].status = "RUNNING"
    BY DEF AnalyzingHasRun, JobsOf
  <1>1. /\ JobOf(r) \in Job /\ TypeOf(r) = t
        /\ \A j \in Job : /\ jobs'[j].evidence = jobs[j].evidence
                          /\ jobs'[j].type = jobs[j].type
    BY RunStepAt, RunStepFrame DEF EvidenceOf, TypeOf
  <1>2. CASE Begins(r, t) /\ t = "ANALYSIS" /\ e = EvidenceOf(r)
    <2>1. jobs'[JobOf(r)].status = "RUNNING"
      BY <1>1, <1>2 DEF Begins, CommitRunning, TypeInv, TypeOK, JobRow
    <2> QED
      BY <1>1, <1>2, <2>1 DEF EvidenceOf, TypeOf
  <1>3. CASE ~(Begins(r, t) /\ t = "ANALYSIS" /\ e = EvidenceOf(r))
    <2>1. /\ evidence[e].status = "ANALYZING"
          /\ Publishes(r, t) => t # "ANALYSIS" \/ e # EvidenceOf(r)
          /\ Fails(r, t) => \/ t # "ANALYSIS" \/ e # EvidenceOf(r)
                            \/ session[r].status # "ANALYZING"
      <3>1. CASE e # EvidenceOf(r)
        BY <3>1, RunStepEvidence
      <3>2. CASE e = EvidenceOf(r) /\ Begins(r, t)
        <4>1. evidence'[e].status =
                Flush(evidence[e].status, session[r].status, BeginStatus(r, t))
          BY <3>2, RunStepEvidence
        <4>2. ~Publishes(r, t) /\ ~Fails(r, t)
          BY <3>2 DEF Begins, CommitRunning, Publishes, CommitSucceeded, Fails,
             CommitFailed, At
        <4> QED
          BY <1>3, <3>2, <4>1, <4>2 DEF BeginStatus, Flush
      <3>3. CASE e = EvidenceOf(r) /\ Publishes(r, t)
        <4>1. evidence'[e].status =
                Flush(evidence[e].status, session[r].status, SuccessStatus(r, t))
          BY <3>3, RunStepEvidence
        <4>2. ~Fails(r, t)
          BY <3>3 DEF Publishes, CommitSucceeded, Fails, CommitFailed, At
        <4>3. t = "ANALYSIS" => session[r].status = "ANALYZING"
          BY <1>1, <3>3 DEF AnalysisHeld, Publishes, CommitSucceeded, At
        <4> QED
          BY <1>3, <3>3, <4>1, <4>2, <4>3 DEF SuccessStatus, Flush
      <3>4. CASE e = EvidenceOf(r) /\ Fails(r, t)
        <4>1. evidence'[e].status =
                Flush(evidence[e].status, session[r].status, FailureStatus(r, t))
          BY <3>4, RunStepEvidence
        <4>2. ~Publishes(r, t)
          BY <3>4 DEF Publishes, CommitSucceeded, Fails, CommitFailed, At
        <4> QED
          BY <4>1, <4>2 DEF FailureStatus, Flush, StatusAfterPreprocessingFailure,
             StatusAfterAnalysisFailure
      <3>5. CASE ~Begins(r, t) /\ ~Publishes(r, t) /\ ~Fails(r, t)
        BY <3>5, RunStepCommits
      <3> QED
        BY <3>1, <3>2, <3>3, <3>4, <3>5
    <2>2. PICK j \in Job : /\ jobs[j].evidence = e
                          /\ jobs[j].type = "ANALYSIS"
                          /\ jobs[j].status = "RUNNING"
      BY <2>1 DEF AnalyzingHasRun, JobsOf
    <2>3. CASE r # FirstRun(j)
      BY <1>1, <2>2, <2>3, OthersKeepJob DEF Redelivered
    <2>4. CASE r = FirstRun(j)
      <3>1. JobOf(r) = j /\ t = "ANALYSIS" /\ e = EvidenceOf(r)
        BY <1>1, <2>2, <2>4 DEF FirstRun, JobOf, TypeOf, EvidenceOf
      <3>2. ~Publishes(r, t)
        BY <2>1, <3>1
      <3>3. ~Fails(r, t)
        <4>1. Fails(r, t) => pc[r] = "failing"
          BY DEF Fails, CommitFailed, At
        <4> QED
          BY <1>1, <2>1, <2>2, <3>1, <4>1 DEF AnalysisHeld
      <3> QED
        BY <1>1, <2>2, <3>1, <3>2, <3>3, RunStepCommits
    <2> QED
      BY <2>3, <2>4
  <1> QED
    BY <1>2, <1>3

(* They leave evidence that is being analysed as it is.                     *)
LEMMA OthersAnalyzing ==
  ASSUME Cancellable = FALSE, TypeInv, AnalyzingHasRun,
         RequestStep \/ \E r \in Run : BrokerRedelivers(r) \/ Crash(r)
  PROVE  AnalyzingHasRun'
  BY OthersEffect DEF AnalyzingHasRun, JobsOf

AnalyzingInv == SoleRun /\ RowAfterBegin /\ AnalysisHeld /\ AnalyzingHasRun

(* Evidence shows ANALYZING only while an analysis of it has not ended, so  *)
(* that no item is shown as being analysed for ever after its analysis has  *)
(* failed. In every mode of dispatch and with lost answers to a COMMIT; a   *)
(* cancellation, which nothing calls, would break it.                       *)
THEOREM AnalyzingIsHeld ==
  ASSUME Cancellable = FALSE
  PROVE  Spec => []AnalyzingHasRun
  <1>1. Init => AnalyzingInv
    BY DEF Init, AnalyzingInv, SoleRun, RowAfterBegin, AnalysisHeld, AnalyzingHasRun
  <1>2. TypeInv /\ AnalyzingInv /\ [Next]_vars => AnalyzingInv'
    <2> SUFFICES ASSUME TypeInv, AnalyzingInv, [Next]_vars PROVE AnalyzingInv'
      OBVIOUS
    <2>1. CASE RequestStep
      BY <2>1, RequestSole, OthersRowAfterBegin, OthersHeld, OthersAnalyzing
         DEF AnalyzingInv
    <2>2. ASSUME NEW r \in Run, NEW t \in JobType, StepOf(r, t)
          PROVE  AnalyzingInv'
      BY <2>2, RunStepSole, RunStepRowAfterBegin, RunStepHeld, RunStepAnalyzing
         DEF AnalyzingInv
    <2>3. ASSUME NEW r \in Run, BrokerRedelivers(r) \/ Crash(r)
          PROVE  AnalyzingInv'
      BY <2>3, ExternalSole, OthersRowAfterBegin, OthersHeld, OthersAnalyzing
         DEF AnalyzingInv
    <2>4. CASE UNCHANGED vars
      BY <2>4 DEF vars, AnalyzingInv, SoleRun, RowAfterBegin, AnalysisHeld,
         AnalyzingHasRun, JobsOf, TypeOf, JobOf, Redelivered
    <2> QED
      BY <2>1, <2>2, <2>3, <2>4, NextShape DEF TypeInv
  <1>3. AnalyzingInv => AnalyzingHasRun
    BY DEF AnalyzingInv
  <1> QED
    BY <1>1, <1>2, <1>3, PipelineTypeInv, PTL DEF Spec

-----------------------------------------------------------------------------
(* Analyses and extractions                                                 *)

(* What a request step may leave a request with.                            *)
LEMMA ClientEffect ==
  ASSUME TypeInv, RequestStep, NEW c \in Client, client'[c].at \in {"admitted", "checked"}
  PROVE  \/ /\ client[c].at \in {"admitted", "checked"}
            /\ client'[c].evidence = client[c].evidence /\ client'[c].type = client[c].type
         \/ /\ client'[c].evidence \in Evidence /\ client'[c].type \in Requested
            /\ Admissible(client'[c].evidence, client'[c].type)
  <1>1. client \in [Client -> ClientState]
    BY DEF TypeInv, TypeOK
  <1>2. ASSUME NEW d \in Client, NEW e \in Evidence, NEW t \in JobType,
               Admissible(e, t), Admit(d, e, t)
        PROVE  \/ client'[c] = client[c]
               \/ client'[c].evidence = e /\ client'[c].type = t /\ t \in Requested
    BY <1>1, <1>2 DEF Admit
  <1>3. ASSUME NEW d \in Client, NEW t \in JobType, CheckActive(d, t)
        PROVE  \/ client'[c] = client[c]
               \/ client'[c] = IdleClient
               \/ /\ client[c].at = "admitted"
                  /\ client'[c].evidence = client[c].evidence
                  /\ client'[c].type = client[c].type
    BY <1>1, <1>3 DEF CheckActive, Answer, ClientState
  <1>4. ASSUME NEW d \in Client, NEW t \in JobType, Insert(d, t)
        PROVE  client'[c] = client[c] \/ client'[c] = IdleClient
    BY <1>1, <1>4 DEF Insert, Answer
  <1>5. ASSUME NEW e \in Evidence, NEW t \in JobType, DispatchAgain(e, t)
        PROVE  client'[c] = client[c]
    BY <1>5 DEF DispatchAgain
  <1>6. ASSUME NEW d \in Client, Cancel(d)
        PROVE  client'[c] = client[c] \/ client'[c].at \in {"idle", "cancelling"}
    <2>1. CASE CancelCommit(d)
      BY <1>1, <2>1 DEF CancelCommit, Answer, IdleClient
    <2>2. ASSUME NEW j \in Job, CancelRead(d, j)
          PROVE  client'[c] = client[c] \/ client'[c].at = "cancelling"
      BY <1>1, <2>2 DEF CancelRead, IdleClient
    <2> QED
      BY <1>6, <2>1, <2>2 DEF Cancel
  <1>7. \/ \E d \in Client, e \in Evidence, t \in JobType : Admissible(e, t) /\ Admit(d, e, t)
        \/ \E d \in Client, t \in JobType : CheckActive(d, t) \/ Insert(d, t)
        \/ \E e \in Evidence, t \in JobType : DispatchAgain(e, t)
        \/ \E d \in Client : Cancel(d)
    BY DEF RequestStep
  <1>8. CASE \E d \in Client, e \in Evidence, t \in JobType : Admissible(e, t) /\ Admit(d, e, t)
    BY <1>2, <1>8
  <1>9. CASE \E d \in Client, t \in JobType : CheckActive(d, t) \/ Insert(d, t)
    BY <1>3, <1>4, <1>9 DEF IdleClient
  <1>10. CASE \/ \E e \in Evidence, t \in JobType : DispatchAgain(e, t)
              \/ \E d \in Client : Cancel(d)
    BY <1>5, <1>6, <1>10
  <1> QED
    BY <1>7, <1>8, <1>9, <1>10

(* A job that has ended has ended: nothing redelivers or cancels it.        *)
LEMMA EndedFinal ==
  ASSUME Cancellable = FALSE, TypeInv, SoleRun, OutcomeInv, [Next]_vars,
         NEW j \in Job, ~Redelivered(jobs[j].type),
         jobs[j].status \in {"SUCCEEDED", "FAILED"}
  PROVE  jobs'[j] = jobs[j]
  <1>1. ASSUME NEW r \in Run, NEW t \in JobType, StepOf(r, t)
        PROVE  jobs'[j] = jobs[j]
    <2>1. pc[FirstRun(j)] = "done"
      BY DEF OutcomeInv, Ended
    <2>2. r # FirstRun(j)
      BY <1>1, <2>1, RunStepAt DEF Unfinished, Executing
    <2> QED
      BY <1>1, <2>2, OthersKeepJob
  <1>2. CASE RequestStep \/ \E r \in Run : BrokerRedelivers(r) \/ Crash(r)
    BY <1>2, OthersEffect
  <1>3. CASE UNCHANGED vars
    BY <1>3 DEF vars
  <1> QED
    BY <1>1, <1>2, <1>3, NextShape DEF TypeInv


-----------------------------------------------------------------------------
(* Jobs that have ended                                                     *)

NoneCancelled == \A j \in Job : jobs[j].status # "CANCELLED"

(* Nothing else makes a job CANCELLED.                                      *)
LEMMA StepNoneCancelled ==
  ASSUME Cancellable = FALSE, TypeInv, NoneCancelled, [Next]_vars
  PROVE  NoneCancelled'
  <1>1. ASSUME NEW r \in Run, NEW t \in JobType, StepOf(r, t)
        PROVE  NoneCancelled'
    <2>1. JobOf(r) \in Job
      BY <1>1, RunStepAt
    <2>2. jobs'[JobOf(r)].status
            \in {"RUNNING", "SUCCEEDED", "FAILED", jobs[JobOf(r)].status}
      BY <1>1, RunStepCommits DEF Flush
    <2> QED
      BY <1>1, <2>1, <2>2, RunStepFrame DEF NoneCancelled
  <1>2. CASE RequestStep \/ \E r \in Run : BrokerRedelivers(r) \/ Crash(r)
    BY <1>2, OthersEffect DEF NoneCancelled
  <1>3. CASE UNCHANGED vars
    BY <1>3 DEF vars, NoneCancelled
  <1> QED
    BY <1>1, <1>2, <1>3, NextShape DEF TypeInv

(* Where jobs run in the API process and are never cancelled, a job that    *)
(* shows how it ended shows it for good. pipeline_redelivery shows what     *)
(* redelivery does to this; a cancellation is overwritten by the run.       *)
THEOREM EndsAreFinal ==
  ASSUME Celery = FALSE, AckLoss = FALSE, Cancellable = FALSE
  PROVE  Spec => TerminalStable
  <1>1. Init => NoneCancelled
    BY DEF Init, NoneCancelled, NoJob
  <1>2. TypeInv /\ NoneCancelled /\ [Next]_vars => NoneCancelled'
    BY StepNoneCancelled
  <1>3. TypeInv /\ OutcomeIInv /\ NoneCancelled /\ [Next]_vars
          => [\A j \in Job : jobs[j].status \in TerminalStatus =>
                jobs'[j].status = jobs[j].status]_jobs
    BY EndedFinal DEF NoneCancelled, OutcomeIInv, TerminalStatus, Redelivered
  <1> QED
    BY <1>1, <1>2, <1>3, PipelineTypeInv, OutcomesHold, PTL DEF Spec, TerminalStable

-----------------------------------------------------------------------------
Extracted(e) == \E i \in JobsOf(e, "EXTRACTION") : jobs[i].status = "SUCCEEDED"

(* Rows are created in order.                                               *)
RowsInOrder ==
  \A i, j \in Job : i < j /\ jobs[j].status # "ABSENT" => jobs[i].status # "ABSENT"

ExtractedInv ==
  /\ RowsInOrder
  /\ \A c \in Client :
       client[c].at \in {"admitted", "checked"} /\ client[c].type = "ANALYSIS" =>
         Extracted(client[c].evidence)
  /\ AnalysisAfterExtraction

(* An extraction that succeeded stays so.                                   *)
LEMMA ExtractedStays ==
  ASSUME Cancellable = FALSE, TypeInv, SoleRun, OutcomeInv, [Next]_vars,
         NEW e, Extracted(e)
  PROVE  Extracted(e)'
  BY EndedFinal DEF Extracted, JobsOf, Redelivered

(* Every step keeps analyses behind extractions.                            *)
LEMMA StepExtracted ==
  ASSUME Cancellable = FALSE, TypeInv, SoleRun, OutcomeInv, ExtractedInv, [Next]_vars
  PROVE  ExtractedInv'
  <1> USE DEF ExtractedInv
  <1>1. \/ \E r \in Run, t \in JobType : StepOf(r, t)
        \/ RequestStep \/ \E r \in Run : BrokerRedelivers(r) \/ Crash(r)
        \/ UNCHANGED vars
    BY NextShape DEF TypeInv
  <1>2. \/ \E k \in Job, c \in Client :
             /\ client[c].at = "checked" /\ RequestStep
             /\ Inserted(k, client[c].evidence, client[c].type)
        \/ \A j \in Job : /\ jobs'[j].evidence = jobs[j].evidence
                          /\ jobs'[j].type = jobs[j].type
                          /\ jobs'[j].status = "ABSENT" <=> jobs[j].status = "ABSENT"
    <2>1. CASE \E r \in Run, t \in JobType : StepOf(r, t)
      BY <2>1, RunStepAt, RunStepFrame DEF EvidenceOf, TypeOf
    <2>2. CASE RequestStep
      BY <2>2, RequestEffect DEF DispatchedAgain, Cancelled
    <2>3. CASE \E r \in Run : BrokerRedelivers(r) \/ Crash(r)
      BY <2>3, ExternalEffect
    <2>4. CASE UNCHANGED vars
      BY <2>4 DEF vars
    <2> QED
      BY <1>1, <2>1, <2>2, <2>3, <2>4
  <1>3. \A c \in Client :
          client'[c].at \in {"admitted", "checked"} /\ client'[c].type = "ANALYSIS" =>
            Extracted(client'[c].evidence)
    <2>1. CASE RequestStep
      BY <2>1, ClientEffect DEF Admissible, ExtractionDone, LatestSucceeded, LatestIs,
         Extracted
    <2>2. CASE client' = client
      BY <2>2
    <2> QED
      BY <1>1, <2>1, <2>2, RunStepFrame, ExternalEffect DEF vars
  <1>4. \A c \in Client :
          client'[c].at \in {"admitted", "checked"} /\ client'[c].type = "ANALYSIS" =>
            Extracted(client[c].evidence)'
    BY <1>3, ExtractedStays
  <1>5. ASSUME NEW k \in Job, NEW c \in Client, client[c].at = "checked",
               Inserted(k, client[c].evidence, client[c].type)
        PROVE  RowsInOrder' /\ AnalysisAfterExtraction'
    <2>1. /\ jobs[k].status = "ABSENT"
          /\ \A i \in Job : i < k => jobs[i].status # "ABSENT"
          /\ \A j \in Job : j # k => jobs'[j] = jobs[j]
          /\ jobs'[k].status = "QUEUED" /\ jobs'[k].type = client[c].type
          /\ jobs'[k].evidence = client[c].evidence
      BY <1>5 DEF Inserted, TypeInv, TypeOK
    <2>2. RowsInOrder'
      BY <2>1 DEF RowsInOrder
    <2>3. ASSUME NEW j \in Job, jobs'[j].type = "ANALYSIS"
          PROVE  \E i \in Job : /\ jobs'[i].evidence = jobs'[j].evidence
                                /\ jobs'[i].type = "EXTRACTION"
                                /\ i < j /\ jobs'[i].status = "SUCCEEDED"
      <3>1. CASE j # k
        <4>1. PICK i \in JobsOf(jobs[j].evidence, "EXTRACTION") :
                i < j /\ jobs[i].status = "SUCCEEDED"
          BY <2>1, <2>3, <3>1 DEF AnalysisAfterExtraction
        <4> QED
          BY <2>1, <3>1, <4>1 DEF JobsOf
      <3>2. CASE j = k
        <4>1. PICK i \in JobsOf(client[c].evidence, "EXTRACTION") :
                jobs[i].status = "SUCCEEDED"
          BY <1>5, <2>1, <2>3, <3>2 DEF Extracted
        <4>2. i \in Job /\ i # k /\ ~(k < i)
          BY <2>1, <4>1 DEF RowsInOrder, JobsOf
        <4>3. i < k
          BY <4>2 DEF Job
        <4> QED
          BY <2>1, <3>2, <4>1, <4>2, <4>3 DEF JobsOf
      <3> QED
        BY <3>1, <3>2
    <2> QED
      BY <2>2, <2>3 DEF AnalysisAfterExtraction, JobsOf
  <1>6. ASSUME \A j \in Job : /\ jobs'[j].evidence = jobs[j].evidence
                              /\ jobs'[j].type = jobs[j].type
                              /\ jobs'[j].status = "ABSENT" <=> jobs[j].status = "ABSENT"
        PROVE  RowsInOrder' /\ AnalysisAfterExtraction'
    <2>1. RowsInOrder'
      BY <1>6 DEF RowsInOrder
    <2>2. AnalysisAfterExtraction'
      <3> SUFFICES ASSUME NEW j \in Job, jobs'[j].type = "ANALYSIS"
                   PROVE  \E i \in Job : /\ jobs'[i].evidence = jobs'[j].evidence
                                         /\ jobs'[i].type = "EXTRACTION"
                                         /\ i < j /\ jobs'[i].status = "SUCCEEDED"
        BY DEF AnalysisAfterExtraction, JobsOf
      <3>1. PICK i \in Job : /\ jobs[i].evidence = jobs[j].evidence
                            /\ jobs[i].type = "EXTRACTION"
                            /\ i < j /\ jobs[i].status = "SUCCEEDED"
        BY <1>6 DEF AnalysisAfterExtraction, JobsOf
      <3>2. jobs'[i] = jobs[i]
        BY <3>1, EndedFinal DEF Redelivered
      <3> QED
        BY <1>6, <3>1, <3>2
    <2> QED
      BY <2>1, <2>2
  <1> QED
    BY <1>2, <1>4, <1>5, <1>6 DEF Extracted

(* What is admitted or queued for analysis was extracted.                   *)
LEMMA ExtractedHolds ==
  ASSUME AckLoss = FALSE, Cancellable = FALSE
  PROVE  Spec => []ExtractedInv
  <1>1. Init => ExtractedInv
    BY DEF Init, ExtractedInv, RowsInOrder, AnalysisAfterExtraction, NoJob, IdleClient
  <1>2. TypeInv /\ OutcomeIInv /\ ExtractedInv /\ [Next]_vars => ExtractedInv'
    BY StepExtracted DEF OutcomeIInv
  <1> QED
    BY <1>1, <1>2, OutcomesHold, PipelineTypeInv, PTL DEF Spec

(* An analysis comes after a successful extraction, although the evidence   *)
(* is looked at in another transaction than the one that inserts the job:   *)
(* no extraction that succeeded is ever taken back, unless it is cancelled  *)
(* or the answer to a COMMIT is lost.                                       *)
THEOREM AnalysisFollowsExtraction ==
  ASSUME AckLoss = FALSE, Cancellable = FALSE
  PROVE  Spec => []AnalysisAfterExtraction
  <1>1. ExtractedInv => AnalysisAfterExtraction
    BY DEF ExtractedInv
  <1> QED
    BY <1>1, ExtractedHolds, PTL

-----------------------------------------------------------------------------
Succeeded(e) == \E j \in JobsOf(e, "PREPROCESSING") : jobs[j].status = "SUCCEEDED"
Classified(e) == "PREPROCESSING" \in evidence[e].sections
Processed(e) == Succeeded(e) /\ Classified(e)

Open == {"READY_FOR_ANALYSIS", "ANALYZING", "ANALYZED"}

(* A run that works has loaded the document, and wrote nothing yet.         *)
Loaded == {"loaded", "running", "started", "failing"}

(* Whatever is open, or asked for, or worked on after preprocessing was     *)
(* processed; and a session that holds the classification did not make it   *)
(* up.                                                                      *)
ProcessedInv ==
  \A e \in Evidence :
    /\ \/ evidence[e].status \in Open
       \/ \E c \in Client : /\ client[c].at \in {"admitted", "checked"}
                            /\ client[c].type # "PREPROCESSING"
                            /\ client[c].evidence = e
       \/ \E j \in Job : /\ jobs[j].type \notin {"PREPROCESSING", "NONE"}
                         /\ jobs[j].evidence = e
       => Processed(e)
    /\ \A r \in Run : pc[r] \in Loaded /\ EvidenceOf(r) = e =>
         /\ TypeOf(r) # "PREPROCESSING" => "PREPROCESSING" \in session[r].sections
         /\ "PREPROCESSING" \in session[r].sections => Classified(e)

(* Only the commit that publishes writes the document, and it keeps the     *)
(* classification.                                                          *)
LEMMA ClassifiedStays ==
  ASSUME TypeInv, ProcessedInv, NEW r \in Run, NEW t \in JobType, StepOf(r, t),
         NEW e \in Evidence
  PROVE  /\ Classified(e) => Classified(e)'
         /\ Publishes(r, t) => "PREPROCESSING" \in evidence'[EvidenceOf(r)].sections
  <1>1. TypeOf(r) = t /\ EvidenceOf(r) \in Evidence
    BY RunStepAt
  <1>2. ASSUME Publishes(r, t)
        PROVE  "PREPROCESSING" \in evidence'[EvidenceOf(r)].sections
    <2>1. evidence'[EvidenceOf(r)].sections =
            Flush(evidence[EvidenceOf(r)].sections, session[r].sections,
                  session[r].sections \cup {t})
      BY <1>2, RunStepEvidence
    <2>2. pc[r] \in Loaded
      BY <1>2 DEF Publishes, CommitSucceeded, At, Loaded
    <2>3. /\ t # "PREPROCESSING" => "PREPROCESSING" \in session[r].sections
          /\ "PREPROCESSING" \in session[r].sections =>
               "PREPROCESSING" \in evidence[EvidenceOf(r)].sections
      BY <1>1, <2>2 DEF ProcessedInv, Classified
    <2> QED
      BY <2>1, <2>3 DEF Flush
  <1>3. CASE e = EvidenceOf(r) /\ ~Publishes(r, t)
    <2>1. evidence'[e].sections = evidence[e].sections
      BY <1>3, RunStepEvidence, RunStepCommits
    <2> QED
      BY <1>3, <2>1 DEF Classified
  <1>4. CASE e # EvidenceOf(r)
    BY <1>2, <1>4, RunStepEvidence DEF Classified
  <1>5. CASE e = EvidenceOf(r) /\ Publishes(r, t)
    BY <1>2, <1>5 DEF Classified
  <1> QED
    BY <1>3, <1>4, <1>5, <1>2

(* Processed evidence stays processed.                                      *)
LEMMA ProcessedStays ==
  ASSUME Celery = FALSE, Cancellable = FALSE, TypeInv, SoleRun, OutcomeInv, ProcessedInv,
         [Next]_vars, NEW e \in Evidence, Processed(e)
  PROVE  Processed(e)'
  <1>1. Succeeded(e)'
    BY EndedFinal DEF Processed, Succeeded, JobsOf, Redelivered
  <1>2. Classified(e)'
    <2>1. CASE \E r \in Run, t \in JobType : StepOf(r, t)
      BY <2>1, ClassifiedStays DEF Processed
    <2>2. CASE evidence' = evidence
      BY <2>2 DEF Processed, Classified
    <2> QED
      BY <2>1, <2>2, NextShape, OthersEffect DEF TypeInv, vars
  <1> QED
    BY <1>1, <1>2 DEF Processed

(* A run step opens an item only when it has processed it, or works on an   *)
(* item that was processed.                                                 *)
LEMMA RunStepOpen ==
  ASSUME Celery = FALSE, Cancellable = FALSE, TypeInv, SoleRun, OutcomeInv, ProcessedInv,
         NEW r \in Run, NEW t \in JobType, StepOf(r, t), Next,
         NEW e \in Evidence, evidence'[e].status \in Open
  PROVE  Processed(e)'
  <1>1. /\ JobOf(r) \in Job /\ TypeOf(r) = t /\ EvidenceOf(r) \in Evidence
        /\ jobs'[JobOf(r)].evidence = EvidenceOf(r) /\ jobs'[JobOf(r)].type = t
    BY RunStepAt, RunStepFrame
  <1>2. CASE Processed(e)
    BY <1>2, ProcessedStays
  <1>3. CASE ~Processed(e)
    <2>1. evidence[e].status \notin Open
      BY <1>3 DEF ProcessedInv
    <2>2. e = EvidenceOf(r) /\ t = "PREPROCESSING"
      <3>1. e = EvidenceOf(r)
        BY <2>1, RunStepEvidence
      <3>2. t # "PREPROCESSING" => Processed(EvidenceOf(r))
        BY <1>1 DEF ProcessedInv, JobType, TypeOf, EvidenceOf
      <3> QED
        BY <1>3, <3>1, <3>2
    <2>3. Publishes(r, t)
      <3>1. CASE Begins(r, t)
        <4>1. evidence'[e].status =
                Flush(evidence[e].status, session[r].status, session[r].status)
          BY <2>2, <3>1, RunStepEvidence DEF BeginStatus
        <4> QED
          BY <2>1, <4>1 DEF Flush
      <3>2. CASE Fails(r, t)
        <4>1. evidence'[e].status = Flush(evidence[e].status, session[r].status, "FAILED")
          BY <2>2, <3>2, RunStepEvidence DEF FailureStatus, StatusAfterPreprocessingFailure
        <4> QED
          BY <2>1, <4>1 DEF Flush, Open
      <3>3. CASE evidence' = evidence
        BY <2>1, <3>3
      <3> QED
        BY <3>1, <3>2, <3>3, RunStepCommits
    <2>4. jobs'[JobOf(r)].status = "SUCCEEDED"
      BY <1>1, <2>3 DEF Publishes, CommitSucceeded, TypeInv, TypeOK, JobRow
    <2>5. Succeeded(e)'
      BY <1>1, <2>2, <2>4 DEF Succeeded, JobsOf
    <2>6. Classified(e)'
      BY <2>2, <2>3, ClassifiedStays DEF Classified
    <2> QED
      BY <2>5, <2>6 DEF Processed
  <1> QED
    BY <1>2, <1>3

(* The document a working run holds is the one it held, or the stored one.  *)
LEMMA SessionSections ==
  ASSUME TypeInv, NEW r \in Run, NEW t \in JobType, StepOf(r, t), pc'[r] \in Loaded
  PROVE  \/ session'[r].sections = evidence[EvidenceOf(r)].sections
         \/ pc[r] \in Loaded /\ session'[r].sections = session[r].sections
  <1>1. pc \in [Run -> RunPc] /\ session \in [Run -> SessionState]
    BY DEF TypeInv, TypeOK
  <1>2. CASE LoadEvidence(r, t)
    BY <1>1, <1>2 DEF LoadEvidence, SessionState
  <1>3. CASE Reloads(r, t)
    <2>1. session' = [session EXCEPT
               ![r].job = jobs[JobOf(r)].status,
               ![r].status = evidence[EvidenceOf(r)].status,
               ![r].sections = evidence[EvidenceOf(r)].sections]
      BY <1>3 DEF Reloads, FailLoad
    <2> QED
      BY <1>1, <2>1 DEF SessionState
  <1>4. CASE Begins(r, t)
    <2>1. pc[r] = "loaded"
          /\ session' = [session EXCEPT ![r].job = "RUNNING",
                                        ![r].status = BeginStatus(r, t)]
      BY <1>4 DEF Begins, CommitRunning, At
    <2> QED
      BY <1>1, <2>1 DEF SessionState, Loaded
  <1>5. CASE ReadJob(r, t) \/ RunningConflict(r, t) \/ RecordStarted(r, t) \/ Raise(r, t)
    BY <1>1, <1>5 DEF ReadJob, RunningConflict, RecordStarted, Raise, At, Goto, Loaded
  <1>6. CASE RaiseOutside(r, t) \/ LoseRunId(r, t)
    BY <1>1, <1>6 DEF RaiseOutside, LoseRunId, At, Goto, Loaded
  <1>7. CASE Stores(r, t)
    BY <1>1, <1>7 DEF Stores, StoreArtifact, At, Goto, SessionState, Loaded
  <1>8. CASE CleansUp(r, t)
    BY <1>1, <1>8 DEF CleansUp, CleanupArtifact, At, Loaded
  <1>9. CASE Publishes(r, t) \/ Fails(r, t)
    <2>1. \/ pc' = [pc EXCEPT ![r] = "done"]
          \/ pc' = [pc EXCEPT ![r] = "cleanup"]
      BY <1>9 DEF Publishes, CommitSucceeded, Fails, CommitFailed, Goto
    <2> QED
      BY <1>1, <2>1 DEF Loaded
  <1> QED
    BY <1>2, <1>3, <1>4, <1>5, <1>6, <1>7, <1>8, <1>9 DEF StepOf

(* The steps of runs keep what preprocessing wrote.                         *)
LEMMA RunStepProcessed ==
  ASSUME Celery = FALSE, Cancellable = FALSE, TypeInv, SoleRun, OutcomeInv, ProcessedInv,
         Next, NEW r \in Run, NEW t \in JobType, StepOf(r, t)
  PROVE  ProcessedInv'
  <1>1. \A j \in Job : jobs'[j].evidence = jobs[j].evidence /\ jobs'[j].type = jobs[j].type
    BY RunStepAt, RunStepFrame DEF EvidenceOf, TypeOf
  <1> SUFFICES ASSUME NEW e \in Evidence
               PROVE  /\ \/ evidence'[e].status \in Open
                         \/ \E c \in Client : /\ client'[c].at \in {"admitted", "checked"}
                                              /\ client'[c].type # "PREPROCESSING"
                                              /\ client'[c].evidence = e
                         \/ \E j \in Job : /\ jobs'[j].type \notin {"PREPROCESSING", "NONE"}
                                           /\ jobs'[j].evidence = e
                         => Processed(e)'
                      /\ \A s \in Run : pc'[s] \in Loaded /\ jobs'[JobOf(s)].evidence = e =>
                           /\ jobs'[JobOf(s)].type # "PREPROCESSING" =>
                                "PREPROCESSING" \in session'[s].sections
                           /\ "PREPROCESSING" \in session'[s].sections => Classified(e)'
    BY DEF ProcessedInv, TypeOf, EvidenceOf, JobOf
  <1>2. \/ evidence'[e].status \in Open
        \/ \E c \in Client : /\ client'[c].at \in {"admitted", "checked"}
                             /\ client'[c].type # "PREPROCESSING"
                             /\ client'[c].evidence = e
        \/ \E j \in Job : /\ jobs'[j].type \notin {"PREPROCESSING", "NONE"}
                          /\ jobs'[j].evidence = e
        => Processed(e)'
    <2>1. CASE evidence'[e].status \in Open
      BY <2>1, RunStepOpen
    <2>2. CASE \/ \E c \in Client : /\ client[c].at \in {"admitted", "checked"}
                                    /\ client[c].type # "PREPROCESSING"
                                    /\ client[c].evidence = e
               \/ \E j \in Job : /\ jobs[j].type \notin {"PREPROCESSING", "NONE"}
                                 /\ jobs[j].evidence = e
      <3>1. Processed(e)
        BY <2>2 DEF ProcessedInv
      <3> QED
        BY <3>1, ProcessedStays
    <2> QED
      BY <1>1, <2>1, <2>2, RunStepFrame
  <1>3. ASSUME NEW s \in Run, pc'[s] \in Loaded, jobs'[JobOf(s)].evidence = e
        PROVE  /\ jobs'[JobOf(s)].type # "PREPROCESSING" =>
                    "PREPROCESSING" \in session'[s].sections
               /\ "PREPROCESSING" \in session'[s].sections => Classified(e)'
    <2>1. /\ JobOf(s) \in Job /\ e = EvidenceOf(s) /\ TypeOf(s) \in JobType
          /\ jobs'[JobOf(s)].type = TypeOf(s)
      <3>1. pc[s] # "idle"
        BY <1>3, RunStepAt, RunStepFrame DEF Loaded, Unfinished, Executing
      <3> QED
        BY <1>1, <1>3, <3>1, BegunHasRow DEF TypeOf, EvidenceOf
    <2>2. Classified(e) => Classified(e)'
      BY ClassifiedStays
    <2>3. TypeOf(s) # "PREPROCESSING" => Classified(e)
      BY <2>1 DEF ProcessedInv, Processed, TypeOf, EvidenceOf, JobType
    <2>4. \/ session'[s].sections = evidence[e].sections
          \/ pc[s] \in Loaded /\ session'[s].sections = session[s].sections
      BY <1>3, <2>1, SessionSections, RunStepFrame
    <2>5. CASE session'[s].sections = evidence[e].sections
      BY <2>1, <2>2, <2>3, <2>5 DEF Classified
    <2>6. CASE pc[s] \in Loaded /\ session'[s].sections = session[s].sections
      BY <2>1, <2>2, <2>6 DEF ProcessedInv
    <2> QED
      BY <2>4, <2>5, <2>6
  <1> QED
    BY <1>2, <1>3

(* So do requests, redeliveries and crashes.                                *)
LEMMA OthersProcessed ==
  ASSUME Celery = FALSE, Cancellable = FALSE, TypeInv, SoleRun, OutcomeInv, ProcessedInv,
         Next, RequestStep \/ \E r \in Run : BrokerRedelivers(r) \/ Crash(r)
  PROVE  ProcessedInv'
  <1> SUFFICES ASSUME NEW e \in Evidence
               PROVE  /\ \/ evidence'[e].status \in Open
                         \/ \E c \in Client : /\ client'[c].at \in {"admitted", "checked"}
                                              /\ client'[c].type # "PREPROCESSING"
                                              /\ client'[c].evidence = e
                         \/ \E j \in Job : /\ jobs'[j].type \notin {"PREPROCESSING", "NONE"}
                                           /\ jobs'[j].evidence = e
                         => Processed(e)'
                      /\ \A s \in Run : pc'[s] \in Loaded /\ jobs'[JobOf(s)].evidence = e =>
                           /\ jobs'[JobOf(s)].type # "PREPROCESSING" =>
                                "PREPROCESSING" \in session'[s].sections
                           /\ "PREPROCESSING" \in session'[s].sections => Classified(e)'
    BY DEF ProcessedInv, TypeOf, EvidenceOf, JobOf
  <1>1. evidence' = evidence
    BY OthersEffect
  <1>2. ASSUME evidence'[e].status \in Open
        PROVE  Processed(e)
    BY <1>1, <1>2 DEF ProcessedInv
  <1>3. ASSUME NEW c \in Client, client'[c].at \in {"admitted", "checked"},
               client'[c].type # "PREPROCESSING", client'[c].evidence = e
        PROVE  Processed(e)
    <2>1. CASE RequestStep
      BY <1>3, <2>1, ClientEffect DEF Admissible, ProcessedInv, Open
    <2>2. CASE client' = client
      BY <1>3, <2>2 DEF ProcessedInv
    <2> QED
      BY <2>1, <2>2, ExternalEffect
  <1>4. ASSUME NEW j \in Job, jobs'[j].type \notin {"PREPROCESSING", "NONE"},
               jobs'[j].evidence = e
        PROVE  Processed(e)
    <2>1. CASE jobs'[j].type = jobs[j].type /\ jobs'[j].evidence = jobs[j].evidence
      BY <1>4, <2>1 DEF ProcessedInv
    <2>2. ASSUME NEW c \in Client, client[c].at = "checked",
                 Inserted(j, client[c].evidence, client[c].type)
          PROVE  Processed(e)
      <3>1. jobs'[j].type = client[c].type /\ jobs'[j].evidence = client[c].evidence
        BY <2>2 DEF Inserted, TypeInv, TypeOK
      <3> QED
        BY <1>4, <2>2, <3>1 DEF ProcessedInv
    <2>3. \/ jobs'[j].type = jobs[j].type /\ jobs'[j].evidence = jobs[j].evidence
          \/ \E c \in Client : /\ client[c].at = "checked"
                               /\ Inserted(j, client[c].evidence, client[c].type)
      <3>1. jobs \in [Job -> JobRow]
        BY DEF TypeInv, TypeOK
      <3>2. CASE RequestStep
        BY <3>1, <3>2, RequestEffect DEF Inserted, DispatchedAgain, Cancelled, JobRow
      <3> QED
        BY <3>2, ExternalEffect
    <2> QED
      BY <2>1, <2>2, <2>3
  <1>5. ASSUME NEW s \in Run, pc'[s] \in Loaded, jobs'[JobOf(s)].evidence = e
        PROVE  /\ jobs'[JobOf(s)].type # "PREPROCESSING" =>
                    "PREPROCESSING" \in session'[s].sections
               /\ "PREPROCESSING" \in session'[s].sections => Classified(e)'
    <2>1. pc'[s] = pc[s] /\ session'[s] = session[s] /\ pc[s] # "idle"
      BY <1>5, OthersEffect DEF Loaded
    <2>2. jobs'[JobOf(s)] = jobs[JobOf(s)]
      BY <2>1, BegunHasRow, OthersEffect
    <2>3. Classified(e)' = Classified(e)
      BY <1>1 DEF Classified
    <2> QED
      BY <1>5, <2>1, <2>2, <2>3 DEF ProcessedInv, TypeOf, EvidenceOf
  <1> QED
    BY <1>2, <1>3, <1>4, <1>5, ProcessedStays

(* Evidence open for analysis was preprocessed, and keeps what              *)
(* preprocessing wrote about it.                                            *)
THEOREM ReadyIsProcessed ==
  ASSUME Celery = FALSE, AckLoss = FALSE, Cancellable = FALSE
  PROVE  Spec => []ReadyWasProcessed
  <1>1. Init => ProcessedInv
    <2> SUFFICES ASSUME Init, NEW e \in Evidence
                 PROVE  /\ evidence[e].status \notin Open
                        /\ \A c \in Client : client[c].at = "idle"
                        /\ \A j \in Job : jobs[j].type = "NONE"
                        /\ \A r \in Run : pc[r] \notin Loaded
      BY DEF ProcessedInv
    <2> QED
      BY DEF Init, Open, Loaded, NoJob, IdleClient
  <1>2. TypeInv /\ OutcomeIInv /\ ProcessedInv /\ [Next]_vars => ProcessedInv'
    <2> SUFFICES ASSUME TypeInv, OutcomeIInv, ProcessedInv, [Next]_vars PROVE ProcessedInv'
      OBVIOUS
    <2>1. CASE Next
      BY <2>1, NextShape, RunStepProcessed, OthersProcessed DEF TypeInv, OutcomeIInv
    <2>2. CASE UNCHANGED vars
      BY <2>2 DEF vars, ProcessedInv, Processed, Succeeded, Classified, JobsOf, TypeOf,
         EvidenceOf, JobOf
    <2> QED
      BY <2>1, <2>2
  <1>3. ProcessedInv => ReadyWasProcessed
    BY DEF ProcessedInv, Processed, Succeeded, Classified, ReadyWasProcessed, Open
  <1> QED
    BY <1>1, <1>2, <1>3, OutcomesHold, PipelineTypeInv, PTL DEF Spec

-----------------------------------------------------------------------------
(* What a run knows of its job                                              *)

(* Every job is of a type that is asked for.                                *)
RequestedOnly ==
  /\ \A j \in Job : jobs[j].type \in Requested \cup {"NONE"}
  /\ \A c \in Client : client[c].at \in {"admitted", "checked"} =>
       client[c].type \in Requested

(* Every step leaves only jobs of types that are asked for.                 *)
LEMMA StepRequested ==
  ASSUME TypeInv, RequestedOnly, [Next]_vars
  PROVE  RequestedOnly'
  <1>1. jobs \in [Job -> JobRow]
    BY DEF TypeInv, TypeOK
  <1>2. CASE RequestStep
    <2>1. ASSUME NEW j \in Job, NEW c \in Client, client[c].at = "checked",
                 Inserted(j, client[c].evidence, client[c].type)
          PROVE  \A i \in Job : jobs'[i].type \in Requested \cup {"NONE"}
      BY <1>1, <2>1 DEF Inserted, RequestedOnly
    <2>2. \A i \in Job : jobs'[i].type \in Requested \cup {"NONE"}
      BY <1>1, <1>2, <2>1, RequestEffect DEF DispatchedAgain, Cancelled, JobRow,
         RequestedOnly
    <2> QED
      BY <1>2, <2>2, ClientEffect DEF RequestedOnly
  <1>3. ASSUME NEW r \in Run, NEW t \in JobType, StepOf(r, t)
        PROVE  RequestedOnly'
    BY <1>3, RunStepAt, RunStepFrame DEF RequestedOnly, TypeOf
  <1>4. CASE UNCHANGED <<jobs, client>>
    BY <1>4 DEF RequestedOnly
  <1> QED
    BY <1>2, <1>3, <1>4, NextShape, ExternalEffect DEF TypeInv, vars

(* A run knows the status of its job, and has an analysis run that          *)
(* succeeded only when it is over.                                          *)
RunStatus ==
  \A r \in Run :
    LET s == jobs[JobOf(r)].status
    IN /\ pc[r] \in {"jobRead", "loaded"} => s = "QUEUED"
       /\ pc[r] \in {"running", "started"} => s = "RUNNING" /\ session[r].job = "RUNNING"
       /\ pc[r] = "cleanup" => s \in ActiveStatus
       /\ pc[r] = "failing" => s \in ActiveStatus /\ session[r].job = s
       /\ analysisRun[r] = "SUCCEEDED" => pc[r] = "done"

(* A run knows the status of its job through the steps of all runs.         *)
LEMMA RunStepStatus ==
  ASSUME Celery = FALSE, AckLoss = FALSE, TypeInv, SoleRun, RunStatus,
         NEW r \in Run, NEW t \in JobType, StepOf(r, t)
  PROVE  RunStatus'
  <1> SUFFICES ASSUME NEW s \in Run
               PROVE  LET status == jobs'[JobOf(s)].status
                      IN /\ pc'[s] \in {"jobRead", "loaded"} => status = "QUEUED"
                         /\ pc'[s] \in {"running", "started"} =>
                              status = "RUNNING" /\ session'[s].job = "RUNNING"
                         /\ pc'[s] = "cleanup" => status \in ActiveStatus
                         /\ pc'[s] = "failing" =>
                              status \in ActiveStatus /\ session'[s].job = status
                         /\ analysisRun'[s] = "SUCCEEDED" => pc'[s] = "done"
    BY DEF RunStatus, JobOf, ActiveStatus
  <1>1. /\ JobOf(s) \in Job
        /\ pc \in [Run -> RunPc] /\ session \in [Run -> SessionState]
        /\ analysisRun \in [Run -> AnalysisRunStatus] /\ jobs \in [Job -> JobRow]
    BY DEF TypeInv, TypeOK, JobOf, Run
  <1>2. CASE s # r
    <2>1. pc'[s] = pc[s] /\ session'[s] = session[s] /\ analysisRun'[s] = analysisRun[s]
      BY <1>2, RunStepFrame, RunStepRows
    <2>2. pc[s] \in Executing => jobs'[JobOf(s)] = jobs[JobOf(s)]
      BY <1>2, OthersKeepOurJob DEF Redelivered
    <2> QED
      BY <2>1, <2>2 DEF RunStatus, Executing
  <1>3. CASE s = r
    <2>0. pc[r] \in Unfinished
      BY RunStepAt
    <2>1. CASE Begins(r, t)
      <3>1. /\ pc' = [pc EXCEPT ![r] = "running"] \/ pc' = [pc EXCEPT ![r] = "started"]
            /\ session' = [session EXCEPT ![r].job = "RUNNING",
                                          ![r].status = BeginStatus(r, t)]
            /\ jobs' = [jobs EXCEPT ![JobOf(r)].status = "RUNNING"]
            /\ \E run \in {"NONE", "RUNNING"} :
                 analysisRun' = [analysisRun EXCEPT ![r] = run]
        BY <2>1 DEF Begins, CommitRunning, Goto
      <3> QED
        BY <1>1, <1>3, <3>1 DEF SessionState, JobRow
    <2>2. CASE Publishes(r, t)
      <3>1. pc'[r] = "done"
        BY <1>1, <2>2 DEF Publishes, CommitSucceeded, Goto
      <3> QED
        BY <1>3, <3>1
    <2>3. CASE Fails(r, t)
      <3>1. pc'[r] = "done"
        BY <1>1, <2>3 DEF Fails, CommitFailed, Goto
      <3> QED
        BY <1>3, <3>1
    <2>4. CASE Reloads(r, t)
      <3>1. /\ pc[r] = "cleanup" /\ pc'[r] = "failing"
            /\ session'[r].job = jobs[JobOf(r)].status
            /\ UNCHANGED <<jobs, analysisRun>>
        <4>1. /\ pc[r] = "cleanup" /\ pc' = [pc EXCEPT ![r] = "failing"]
              /\ session' = [session EXCEPT
                   ![r].job = jobs[JobOf(r)].status,
                   ![r].status = evidence[EvidenceOf(r)].status,
                   ![r].sections = evidence[EvidenceOf(r)].sections]
              /\ UNCHANGED <<jobs, analysisRun>>
          BY <2>4 DEF Reloads, FailLoad, Goto, At
        <4> QED
          BY <1>1, <4>1 DEF SessionState
      <3> QED
        BY <1>1, <1>3, <3>1 DEF RunStatus
    <2>5. CASE /\ UNCHANGED <<jobs, analysisRun>>
               /\ ~Begins(r, t) /\ ~Reloads(r, t)
      <3>1. analysisRun[r] # "SUCCEEDED"
        BY <2>0 DEF RunStatus, Unfinished, Executing
      <3> QED
        BY <1>1, <1>3, <2>5, <3>1, RunStepMoves DEF RunStatus, ActiveStatus
    <2> QED
      BY <2>1, <2>2, <2>3, <2>4, <2>5, RunStepCommits
  <1> QED
    BY <1>2, <1>3

(* And through requests, redeliveries and crashes.                          *)
LEMMA OthersStatus ==
  ASSUME Cancellable = FALSE, TypeInv, RowAfterBegin, RunStatus,
         RequestStep \/ \E r \in Run : BrokerRedelivers(r) \/ Crash(r)
  PROVE  RunStatus'
  <1> SUFFICES ASSUME NEW s \in Run
               PROVE  LET status == jobs'[JobOf(s)].status
                      IN /\ pc'[s] \in {"jobRead", "loaded"} => status = "QUEUED"
                         /\ pc'[s] \in {"running", "started"} =>
                              status = "RUNNING" /\ session'[s].job = "RUNNING"
                         /\ pc'[s] = "cleanup" => status \in ActiveStatus
                         /\ pc'[s] = "failing" =>
                              status \in ActiveStatus /\ session'[s].job = status
                         /\ analysisRun'[s] = "SUCCEEDED" => pc'[s] = "done"
    BY DEF RunStatus, JobOf, ActiveStatus
  <1>1. /\ analysisRun' = analysisRun
        /\ \/ pc'[s] = pc[s] /\ session'[s] = session[s]
           \/ pc[s] = "idle" /\ pc'[s] = "pending" /\ session'[s] = session[s]
           \/ pc[s] \in Unfinished /\ pc'[s] = "dead" /\ session'[s] = NewSession
    BY OthersEffect
  <1>2. pc[s] # "idle" => jobs'[JobOf(s)] = jobs[JobOf(s)]
    BY BegunHasRow, OthersEffect
  <1> QED
    BY <1>1, <1>2 DEF RunStatus, Unfinished, Executing

-----------------------------------------------------------------------------
(* The refinement                                                           *)

Slots == [j \in Job |-> <<jobs[j].evidence, jobs[j].type>>]
Statuses == [j \in Job |-> jobs[j].status]
Published(j) == \E r \in RunsOf(j) : Rows(r) # {} \/ analysisRun[r] = "SUCCEEDED"

(* Only the commit that publishes shows a result.                           *)
LEMMA PublishedStays ==
  ASSUME AckLoss = FALSE, TypeInv, RequestedOnly, RunStatus, RowAfterBegin,
         "SIGNATURE_VERIFICATION" \notin Requested,
         NEW r \in Run, NEW t \in JobType, StepOf(r, t), ~Publishes(r, t), NEW j \in Job
  PROVE  Published(j)' = Published(j)
  <1>1. t \in Transactional
    BY RunStepAt DEF RequestedOnly, TypeOf, Transactional, JobType
  <1>2. artifacts' = artifacts
    <2>1. CASE Begins(r, t)
      BY <1>1, <2>1 DEF Begins, CommitRunning
    <2>2. CASE ~Begins(r, t)
      <3>1. artifacts' = artifacts
        BY <2>2, RunStepCommits
      <3> QED
        BY <3>1
    <2> QED
      BY <2>1, <2>2
  <1>3. \A s \in Run : analysisRun'[s] = "SUCCEEDED" <=> analysisRun[s] = "SUCCEEDED"
    <2>1. analysisRun[r] # "SUCCEEDED"
      BY RunStepAt DEF RunStatus, Unfinished, Executing
    <2>2. analysisRun \in [Run -> AnalysisRunStatus]
      BY DEF TypeInv, TypeOK
    <2>3. analysisRun'[r] # "SUCCEEDED"
      <3>1. CASE Begins(r, t)
        BY <2>2, <3>1 DEF Begins, CommitRunning
      <3>2. CASE Fails(r, t)
        BY <2>1, <2>2, <3>2 DEF Fails, CommitFailed
      <3>3. CASE UNCHANGED analysisRun
        BY <2>1, <3>3
      <3> QED
        BY <3>1, <3>2, <3>3, RunStepCommits
    <2> QED
      BY <2>1, <2>3, RunStepRows
  <1> QED
    BY <1>2, <1>3 DEF Published, Rows, RunsOf, JobOf

(* A run that publishes shows a result of its job, and of no other.         *)
LEMMA PublishShows ==
  ASSUME TypeInv, NEW r \in Run, NEW t \in JobType, StepOf(r, t), Publishes(r, t),
         NEW j \in Job
  PROVE  IF j = JobOf(r) THEN Published(j)' ELSE Published(j)' = Published(j)
  <1>1. CASE j = JobOf(r)
    <2>1. r \in RunsOf(j) /\ TypeOf(r) = t
      BY <1>1, RunStepAt DEF RunsOf
    <2>2. CASE t = "MULTIMODAL_FUSION"
      <3>1. analysisRun'[r] = "SUCCEEDED"
        BY <2>2 DEF Publishes, CommitSucceeded, TypeInv, TypeOK
      <3> QED
        BY <1>1, <2>1, <3>1 DEF Published, RunsOf, JobOf
    <2>3. CASE t # "MULTIMODAL_FUSION"
      <3>1. 1 \in Payloads(t)
        BY <2>3, NumPayloadsAssumption DEF Payloads, Payload
      <3>2. <<r, 1>> \in artifacts'
        BY <2>1, <3>1 DEF Publishes, CommitSucceeded, StoredAll, StagedRows
      <3> QED
        BY <1>1, <2>1, <3>2 DEF Published, Rows, RunsOf, JobOf
    <2> QED
      BY <1>1, <2>2, <2>3
  <1>2. CASE j # JobOf(r)
    <2>1. \A s \in RunsOf(j) : s \in Run /\ s # r
      BY <1>2 DEF RunsOf
    <2>2. \A s \in RunsOf(j) : /\ analysisRun'[s] = analysisRun[s]
                               /\ \A k \in artifacts' :
                                    k[1] = s <=> (k \in artifacts /\ k[1] = s)
      BY <2>1, RunStepRows
    <2>3. \A s \in RunsOf(j) : Rows(s)' = Rows(s)
      BY <2>1, <2>2, RunStepRows DEF Rows
    <2> QED
      BY <1>2, <2>2, <2>3 DEF Published, RunsOf, JobOf
  <1> QED
    BY <1>1, <1>2

LifecycleInv == SoleRun /\ RowAfterBegin /\ RequestedOnly /\ RunStatus

(* What a step of a request is to the job table: an insert creates a job    *)
(* where none is active, and nothing else shows.                            *)
LEMMA RequestLifecycle ==
  ASSUME Cancellable = FALSE, TypeInv, RequestStep
  PROVE  [Lifecycle!Next]_(Lifecycle!vars)
  <1>1. jobs \in [Job -> JobRow] /\ UNCHANGED <<artifacts, analysisRun>>
    BY RequestEffect DEF TypeInv, TypeOK
  <1>2. {j \in Job : Published(j)}' = {j \in Job : Published(j)}
    BY <1>1 DEF Published, Rows, RunsOf, JobOf
  <1>3. CASE UNCHANGED jobs
    BY <1>2, <1>3 DEF Lifecycle!vars, Published
  <1>4. ASSUME NEW j \in Job, NEW c \in Client, client[c].at = "checked",
               Inserted(j, client[c].evidence, client[c].type)
        PROVE  Lifecycle!Next
    <2>1. PICK s \in Evidence \X JobType : s = <<client[c].evidence, client[c].type>>
      BY <1>4 DEF TypeInv, RequestsNamed
    <2>2. jobs[j].status = "ABSENT"
      BY <1>4 DEF Inserted
    <2>3. \A i \in Job : jobs[i].status \in ActiveStatus =>
            <<jobs[i].evidence, jobs[i].type>> # s
      BY <1>4, <2>1, <2>2 DEF Inserted, IndexAllows, ActiveJobs, JobsOf, ActiveStatus
    <2>4. Slots' = [Slots EXCEPT ![j] = s]
      BY <1>1, <1>4, <2>1 DEF Inserted, Slots
    <2>5. Statuses' = [Statuses EXCEPT ![j] = "QUEUED"]
      BY <1>1, <1>4 DEF Inserted, Statuses
    <2>6. Lifecycle!Create(j, s)
      BY <1>2, <2>2, <2>3, <2>4, <2>5 DEF Lifecycle!Create, Lifecycle!Active, Slots,
         Statuses, Published, ActiveStatus
    <2> QED
      BY <2>6 DEF Lifecycle!Next
  <1> QED
    BY <1>3, <1>4, RequestEffect DEF DispatchedAgain, Cancelled

(* What a step of a run is to the job table.                                *)
LEMMA RunStepLifecycle ==
  ASSUME Celery = FALSE, AckLoss = FALSE, "SIGNATURE_VERIFICATION" \notin Requested,
         TypeInv, LifecycleInv, NEW r \in Run, NEW t \in JobType, StepOf(r, t)
  PROVE  [Lifecycle!Next]_(Lifecycle!vars)
  <1> DEFINE j == JobOf(r)
  <1>1. jobs \in [Job -> JobRow] /\ j \in Job
    BY RunStepAt DEF TypeInv, TypeOK
  <1>2. \/ jobs' = jobs
        \/ \E status : jobs' = [jobs EXCEPT ![j].status = status]
    <2>1. CASE Begins(r, t)
      BY <2>1 DEF Begins, CommitRunning
    <2>2. CASE Publishes(r, t)
      BY <2>2 DEF Publishes, CommitSucceeded
    <2>3. CASE Fails(r, t)
      BY <2>3 DEF Fails, CommitFailed
    <2> QED
      BY <2>1, <2>2, <2>3, RunStepCommits
  <1>3. Slots' = Slots /\ Statuses' = [Statuses EXCEPT ![j] = jobs'[j].status]
    <2>1. CASE jobs' = jobs
      BY <1>1, <2>1 DEF Slots, Statuses
    <2>2. ASSUME NEW status, jobs' = [jobs EXCEPT ![j].status = status]
          PROVE  Slots' = Slots /\ Statuses' = [Statuses EXCEPT ![j] = jobs'[j].status]
      <3>1. \A i \in Job : /\ jobs'[i].evidence = jobs[i].evidence
                           /\ jobs'[i].type = jobs[i].type
                           /\ i # j => jobs'[i].status = jobs[i].status
        BY <1>1, <2>2 DEF JobRow
      <3>2. Slots' = Slots
        BY <3>1 DEF Slots
      <3>3. Statuses' = [Statuses EXCEPT ![j] = jobs'[j].status]
        BY <1>1, <3>1 DEF Statuses
      <3> QED
        BY <3>2, <3>3
    <2> QED
      BY <1>2, <2>1, <2>2
  <1>4. ASSUME ~Publishes(r, t)
        PROVE  {i \in Job : Published(i)}' = {i \in Job : Published(i)}
    BY <1>4, PublishedStays DEF LifecycleInv
  <1>5. CASE Begins(r, t)
    <2>1. jobs[j].status = "QUEUED" /\ jobs'[j].status = "RUNNING" /\ ~Publishes(r, t)
      <3>1. pc[r] = "loaded" /\ jobs' = [jobs EXCEPT ![j].status = "RUNNING"]
        BY <1>5 DEF Begins, CommitRunning, At
      <3>2. ~Publishes(r, t)
        BY <3>1 DEF Publishes, CommitSucceeded, At
      <3> QED
        BY <1>1, <3>1, <3>2 DEF LifecycleInv, RunStatus, JobRow
    <2>2. Lifecycle!Start(j)
      BY <1>1, <1>3, <1>4, <2>1 DEF Lifecycle!Start, Slots, Statuses, Published
    <2> QED
      BY <1>1, <2>2 DEF Lifecycle!Next
  <1>6. CASE Publishes(r, t)
    <2>1. jobs[j].status = "RUNNING" /\ jobs'[j].status = "SUCCEEDED"
      <3>1. pc[r] = "started" /\ jobs' = [jobs EXCEPT ![j].status = "SUCCEEDED"]
        BY <1>6 DEF Publishes, CommitSucceeded, At
      <3> QED
        BY <1>1, <3>1 DEF LifecycleInv, RunStatus, JobRow
    <2>2. {i \in Job : Published(i)}' = {i \in Job : Published(i)} \cup {j}
      BY <1>1, <1>6, PublishShows
    <2>3. Lifecycle!Succeed(j)
      BY <1>1, <1>3, <2>1, <2>2 DEF Lifecycle!Succeed, Slots, Statuses, Published
    <2> QED
      BY <1>1, <2>3 DEF Lifecycle!Next
  <1>7. CASE Fails(r, t)
    <2>1. jobs[j].status \in ActiveStatus /\ jobs'[j].status = "FAILED" /\ ~Publishes(r, t)
      <3>1. pc[r] = "failing" /\ jobs' = [jobs EXCEPT ![j].status =
                                   Flush(jobs[j].status, session[r].job, "FAILED")]
        BY <1>7 DEF Fails, CommitFailed, At, FailedStatus
      <3>2. jobs[j].status \in ActiveStatus /\ session[r].job = jobs[j].status
        BY <3>1 DEF LifecycleInv, RunStatus
      <3>3. ~Publishes(r, t)
        BY <3>1 DEF Publishes, CommitSucceeded, At
      <3> QED
        BY <1>1, <3>1, <3>2, <3>3 DEF Flush, ActiveStatus, JobRow
    <2>2. Lifecycle!Fail(j)
      BY <1>1, <1>3, <1>4, <2>1 DEF Lifecycle!Fail, Lifecycle!Active, Slots, Statuses,
         Published, ActiveStatus
    <2> QED
      BY <1>1, <2>2 DEF Lifecycle!Next
  <1>8. CASE ~Begins(r, t) /\ ~Publishes(r, t) /\ ~Fails(r, t)
    <2>1. jobs' = jobs
      BY <1>8, RunStepCommits
    <2> QED
      BY <1>4, <1>8, <2>1 DEF Lifecycle!vars, Published
  <1> QED
    BY <1>5, <1>6, <1>7, <1>8

(* The pipeline implements the job table: its services, with all the        *)
(* interleavings of requests, runs, crashes and repeated dispatches, show   *)
(* only created jobs that start, and succeed in the step that publishes or  *)
(* fail with nothing published. Where jobs run in the API process, are      *)
(* never cancelled and no answer to a COMMIT is lost; the signature service *)
(* is left out, because it publishes its row before it succeeds.            *)
THEOREM PipelineImplementsLifecycle ==
  ASSUME Celery = FALSE, AckLoss = FALSE, Cancellable = FALSE,
         "SIGNATURE_VERIFICATION" \notin Requested
  PROVE  Spec => ImplementsLifecycle
  <1>1. Init => Lifecycle!Init
    BY DEF Init, Lifecycle!Init, NoJob, RunsOf, Rows
  <1>2. Init => LifecycleInv
    BY DEF Init, LifecycleInv, SoleRun, RowAfterBegin, RequestedOnly, RunStatus, NoJob,
       IdleClient
  <1>3. TypeInv /\ LifecycleInv /\ [Next]_vars => LifecycleInv'
    <2> SUFFICES ASSUME TypeInv, LifecycleInv, [Next]_vars PROVE LifecycleInv'
      OBVIOUS
    <2>1. CASE RequestStep
      BY <2>1, RequestSole, OthersRowAfterBegin, OthersStatus, StepRequested
         DEF LifecycleInv
    <2>2. ASSUME NEW r \in Run, NEW t \in JobType, StepOf(r, t)
          PROVE  LifecycleInv'
      BY <2>2, RunStepSole, RunStepRowAfterBegin, RunStepStatus, StepRequested
         DEF LifecycleInv
    <2>3. ASSUME NEW r \in Run, BrokerRedelivers(r) \/ Crash(r)
          PROVE  LifecycleInv'
      BY <2>3, ExternalSole, OthersRowAfterBegin, OthersStatus, StepRequested
         DEF LifecycleInv
    <2>4. CASE UNCHANGED vars
      BY <2>4 DEF vars, LifecycleInv, SoleRun, RowAfterBegin, RequestedOnly, RunStatus,
         TypeOf, JobOf, Redelivered
    <2> QED
      BY <2>1, <2>2, <2>3, <2>4, NextShape DEF TypeInv
  <1>4. TypeInv /\ LifecycleInv /\ [Next]_vars => [Lifecycle!Next]_(Lifecycle!vars)
    <2> SUFFICES ASSUME TypeInv, LifecycleInv, [Next]_vars
                 PROVE  [Lifecycle!Next]_(Lifecycle!vars)
      OBVIOUS
    <2>1. ASSUME NEW r \in Run, BrokerRedelivers(r) \/ Crash(r)
          PROVE  UNCHANGED Lifecycle!vars
      BY <2>1, ExternalEffect DEF Lifecycle!vars, RunsOf, Rows, JobOf
    <2>2. CASE UNCHANGED vars
      BY <2>2 DEF vars, Lifecycle!vars, RunsOf, Rows, JobOf
    <2> QED
      BY <2>1, <2>2, RequestLifecycle, RunStepLifecycle, NextShape DEF TypeInv
  <1> QED
    BY <1>1, <1>2, <1>3, <1>4, PipelineTypeInv, PTL
       DEF Spec, ImplementsLifecycle, Lifecycle!Spec
=============================================================================
