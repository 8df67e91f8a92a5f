SPECIFICATION FairSpec
CONSTANTS
  Evidence = {e1}
  NoEvidence = NoEvidence
  Client = {c1}
  MaxJobs = 2
  Delivery = {1, 2}
  FirstDelivery = 1
  NumPayloads = 2
  Requested = {"PREPROCESSING", "EXTRACTION"}
  Celery = FALSE
  Cancellable = TRUE
  StorageFaults = TRUE
  AckLoss = TRUE
PROPERTIES Progress
CHECK_DEADLOCK FALSE
