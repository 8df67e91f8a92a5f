SPECIFICATION Spec
CONSTANTS
  Upload = {u1, u2, u3}
  Content = {a, b}
  MaxNumber <- OnePerUpload
  AckLoss = FALSE
INVARIANTS TypeOK OriginalPreserved RowsDistinct AnswerTrue NumbersDistinct
SYMMETRY Interchangeable
CHECK_DEADLOCK FALSE
