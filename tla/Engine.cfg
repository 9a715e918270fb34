SPECIFICATION Spec
CONSTANTS
  Off = Off
  Requests = {q1, q2}
  Datasets = {p1, p2}
  Engines = {1, 2}
  MaxRuns = 2
  BuiltIn = {"built_in"}
  Learned = {"learned"}
  Minimum = 1
  MaxDocuments = 1
  Similar <- AlikeKeys
  Bars <- KeyBars
  Length <- KeyLength
  Fees <- FeeKeys
  Units <- UnitTable
  Days <- DueDays
  Usual <- NoCourse
  PhysicalUnits = {"kg", "each"}
  Dealings <- DealingDocuments
  MaxDealt = 4
  Disputes <- DisputeDocuments
  MaxDisputed = 3
  MaxChanges = 1
SYMMETRY Symmetry
CHECK_DEADLOCK FALSE
INVARIANTS
  ApprovalsAreCurrent
  RulesAreObeyed
  ClearPaysWhatIsOwed
  AllowedIsSound
  JudgedIsCurrent
PROPERTIES
  ApprovedIsNotHidden
