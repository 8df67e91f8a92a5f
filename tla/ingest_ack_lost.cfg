SPECIFICATION Spec
CONSTANTS
  Upload = {u1}
  Content = {a}
  MaxNumber <- OnePerUpload
  AckLoss = TRUE
INVARIANTS OriginalPreserved
CHECK_DEADLOCK FALSE
