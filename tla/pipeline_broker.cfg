SPECIFICATION Spec
CONSTANTS
  Evidence = {e1}
  NoEvidence = NoEvidence
  Client = {c1}
  MaxJobs = 2
  Delivery = {1, 2}
  FirstDelivery = 1
  NumPayloads = 1
  Requested = {"PREPROCESSING", "IMAGE_AI_ANALYSIS"}
  Celery = TRUE
  Cancellable = FALSE
  StorageFaults = TRUE
  AckLoss = FALSE
INVARIANTS ActiveUnique ArtifactsBacked
CHECK_DEADLOCK FALSE
