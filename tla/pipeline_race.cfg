SPECIFICATION Spec
CONSTANTS
  Evidence = {e1}
  NoEvidence = NoEvidence
  Client = {c1, c2}
  MaxJobs = 4
  Delivery = {1}
  FirstDelivery = 1
  NumPayloads = 2
  Requested = {"PREPROCESSING", "EXTRACTION", "ANALYSIS"}
  Celery = FALSE
  Cancellable = FALSE
  StorageFaults = FALSE
  AckLoss = FALSE
SYMMETRY ClientSymmetry
INVARIANTS AnalysisAfterExtraction
PROPERTIES ImplementsLifecycle
CHECK_DEADLOCK FALSE
