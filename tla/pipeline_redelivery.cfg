SPECIFICATION Spec
CONSTANTS
  Evidence = {e1}
  NoEvidence = NoEvidence
  Client = {c1}
  MaxJobs = 1
  Delivery = {1, 2}
  FirstDelivery = 1
  NumPayloads = 1
  Requested = {"PREPROCESSING"}
  Celery = TRUE
  Cancellable = FALSE
  StorageFaults = FALSE
  AckLoss = FALSE
PROPERTIES TerminalStable
CHECK_DEADLOCK FALSE
