SPECIFICATION Spec
CONSTANTS
  Evidence = {e1}
  NoEvidence = NoEvidence
  Client = {c1}
  MaxJobs = 4
  Delivery = {1, 2}
  FirstDelivery = 1
  NumPayloads = 2
  Requested = {"PREPROCESSING", "EXTRACTION", "ANALYSIS"}
  Celery = FALSE
  Cancellable = FALSE
  StorageFaults = FALSE
  AckLoss = FALSE
INVARIANTS TypeOK ArtifactsBacked OutcomeComplete AnalyzingHasRun ReadyWasProcessed NoOrphans
PROPERTIES ImplementsLifecycle
CHECK_DEADLOCK FALSE
