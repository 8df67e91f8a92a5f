SPECIFICATION Spec
CONSTANTS
  Evidence = {e1}
  NoEvidence = NoEvidence
  Client = {c1}
  MaxJobs = 3
  Delivery = {1, 2}
  FirstDelivery = 1
  NumPayloads = 1
  Requested = {"PREPROCESSING", "EXTRACTION", "ANALYSIS"}
  Celery = FALSE
  Cancellable = FALSE
  StorageFaults = FALSE
  AckLoss = FALSE
INVARIANTS EndRecorded
CHECK_DEADLOCK FALSE
