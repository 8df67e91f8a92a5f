---------------------------- MODULE CaseAnalyses ----------------------------
(***************************************************************************)
(* The four services that derive an analysis of a case: correlation,       *)
(* entity resolution, timeline and case intelligence.  What they compute   *)
(* is left out; what they read from each other, and when, is not.          *)
(***************************************************************************)
EXTENDS CaseRun

(* A plausible bug: a run that has started is taken for one that is done.   *)
RunningTooM == {"RUNNING", "SUCCEEDED"}

(* A derived analysis is read only when it has SUCCEEDED.                   *)
Settled == {"SUCCEEDED"}

(* CorrelationService: the engine takes the events of the latest timeline.  *)
CorrelationSources == <<"TIMELINE">>

CorrelationRequest(c) ==
  CheckNoActive(c, "CORRELATION") \/ InsertRun(c, "CORRELATION")
    \/ InsertRefused(c, "CORRELATION")

CorrelationBuild(r) ==
  ReadRow(r, CorrelationSources, Settled) \/ ReadRows(r, CorrelationSources)

CorrelationFail(r) == (RunFaults /\ RaiseRun(r)) \/ FailRun(r)

CorrelationRun(r) ==
  \/ StartRun(r, "CORRELATION")
  \/ /\ runs[r].kind = "CORRELATION"
     /\ \/ CorrelationBuild(r)
        \/ HasRead(r, CorrelationSources) /\ PublishRun(r)
        \/ CorrelationFail(r)

(* A plausible bug: the timeline is ingested before the correlations.       *)
TimelineFirstM == <<"TIMELINE", "CORRELATION">>

(* EntityResolutionService: the resolver takes the pairs of the latest      *)
(* correlation first, and the events of the latest timeline after.          *)
EntitySources == <<"CORRELATION", "TIMELINE">>

EntityRequest(c) ==
  CheckNoActive(c, "ENTITIES") \/ InsertRun(c, "ENTITIES") \/ InsertRefused(c, "ENTITIES")

IngestCorrelations(r) ==
  task[r].at = 1 /\ (ReadRow(r, EntitySources, Settled) \/ ReadRows(r, EntitySources))

IngestTimeline(r) ==
  task[r].at = 2 /\ (ReadRow(r, EntitySources, Settled) \/ ReadRows(r, EntitySources))

EntityFail(r) == (RunFaults /\ RaiseRun(r)) \/ FailRun(r)

EntityRun(r) ==
  \/ StartRun(r, "ENTITIES")
  \/ /\ runs[r].kind = "ENTITIES"
     /\ \/ IngestCorrelations(r) \/ IngestTimeline(r)
        \/ HasRead(r, EntitySources) /\ PublishRun(r)
        \/ EntityFail(r)

(* TimelineService: the engine lists every intelligence run and report of   *)
(* the case with the status it has; nothing is cited.                       *)
TimelineRequest(c) ==
  CheckNoActive(c, "TIMELINE") \/ InsertRun(c, "TIMELINE") \/ InsertRefused(c, "TIMELINE")

TimelineFail(r) == (RunFaults /\ RaiseRun(r)) \/ FailRun(r)

TimelineRun(r) ==
  \/ StartRun(r, "TIMELINE")
  \/ /\ runs[r].kind = "TIMELINE"
     /\ (HasRead(r, <<>>) /\ PublishRun(r)) \/ TimelineFail(r)

(* CaseIntelligenceService: it reads the fusion results of the evidence.    *)
IntelligenceRequest(c) ==
  CheckNoActive(c, "INTELLIGENCE") \/ InsertRun(c, "INTELLIGENCE")
    \/ InsertRefused(c, "INTELLIGENCE")

IntelligenceFail(r) == (RunFaults /\ RaiseRun(r)) \/ FailRun(r)

IntelligenceRun(r) ==
  \/ StartRun(r, "INTELLIGENCE")
  \/ /\ runs[r].kind = "INTELLIGENCE"
     /\ (HasRead(r, <<>>) /\ PublishRun(r)) \/ IntelligenceFail(r)
=============================================================================
