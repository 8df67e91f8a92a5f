SPECIFICATION Spec
CONSTANTS
  Requester = {c1}
  MaxRuns = 2
  RunFaults = FALSE
  User = {u1}
  MaxMemberRows = 0
  MaxHistory = 1
  ApproverRole = {r1}
  Collected <- FourModalities
  MaxFindings = 0
  MaxItem = 2
  MaxTime = 4
  Now = 3
  Spread = 1
  Table = {"extraction", "signature_ai", "custody"}
  TextType = {"email", "qr_code"}
  Text = {"x", "X"}
  Folded <- Lowercase
  MaxDates = 2
  MaxRows = 2
  RequestLimit = 0
  MaxCount = 0
  Workloads <- ReportsOnTimelines
INVARIANTS ReportsComplete
CHECK_DEADLOCK FALSE
