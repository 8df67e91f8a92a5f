SPECIFICATION Spec
CONSTANTS
  Evidence = {e1}
  NoEvidence = NoEvidence
  Client = {c1}
  MaxJobs = 3
  Delivery = {1}
  FirstDelivery = 1
  NumPayloads = 2
  Requested = {"PREPROCESSING", "COMPARISON", "IMAGE_AI_ANALYSIS", "DOCUMENT_AI_ANALYSIS", "SIGNATURE_VERIFICATION", "VIDEO_AI_ANALYSIS", "AUDIO_AI_ANALYSIS", "MULTIMODAL_FUSION"}
  Celery = FALSE
  Cancellable = FALSE
  StorageFaults = FALSE
  AckLoss = FALSE
INVARIANTS ArtifactsBacked OutcomeComplete ReadyWasProcessed
CHECK_DEADLOCK FALSE
