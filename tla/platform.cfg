SPECIFICATION Spec
CONSTANTS
  Requester = {c1, c2}
  MaxRuns = 3
  RunFaults = TRUE
  User = {u1, u2}
  MaxMemberRows = 3
  MaxHistory = 4
  ApproverRole = {r1, r2}
  Collected <- FourModalities
  MaxFindings = 3
  MaxItem = 2
  MaxTime = 4
  Now = 3
  Spread = 1
  Table = {"extraction", "signature_ai", "custody"}
  TextType = {"email", "qr_code"}
  Text = {"x", "X"}
  Folded <- Lowercase
  MaxDates = 2
  MaxRows = 2
  RequestLimit = 1
  MaxCount = 3
  Workloads <- AllWorkloads
SYMMETRY Symmetry
INVARIANTS
  TypeOK
  CitedPublished
  EntitiesCoherent
  ReportShowsRows
  ReportsAdvance
  PdfBacked
  MilestonesCoverStatus
  ReviewHistoryLegal
  StageEarned
  UnavailableNeutral
  RecordsBacked
  LockExclusive
  
  
PROPERTIES
  LastOwnerKept
  RejectionStands
  AccusationStands
  
  
  BuildsBracketed
CHECK_DEADLOCK FALSE
