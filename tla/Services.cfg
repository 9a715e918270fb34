SPECIFICATION Spec
CONSTANTS
  r1 = r1
  r2 = r2
  q1 = q1
  q2 = q2
  p1 = p1
  p2 = p2
  f1 = f1
  u1 = u1
  u2 = u2
  Off = Off
  Requests = {q1, q2}
  Configs = {p1, p2, f1}
  Limit = 2
  Window = 3
  MaxDelay = 1
  MaxTime = 7
  PilotPractices = {p1, p2}
  Findings = {f1}
  Critical = {f1}
  MinPractices = 1
  MaxEvents = 4
  PracticeRequests = {r1, r2}
  Deleters = {r1}
  Uploads = {p1}
  Users = {u1, u2}
  Logins = {r1}
  Changers = {r2}
  Credentials = {p1}
  MaxVersion = 2
  Documents = {p1, p2}
  Launchers = {u1, u2}
  Programs = {1, 2, 3}
  Keep = 2
  MaxData = 1
  Blind = {p1, p2}
  Packs <- PackChoices
  Qualified = {"p"}
  MaxClock = 6
  Readers = {q1, q2}
  Reviewers = {r1}
  Contents = {r1, f1}
  Archives <- ArchiveChoices
  Foreign = r2
  Unreadable = {f1}
  Rival = r1
  MaxAttempts = 2
SYMMETRY Symmetry
CHECK_DEADLOCK FALSE
INVARIANTS
  TypesOK
  OriginalsAreKept
  SealedIsServed
  ResultRestsOnFreeze
  AdminRemains
  SessionsEndWithChanges
  VersionsAreConsistent
  BackupsAreComplete
  RestoreIsAllOrNothing
  WindowsTellTheTruth
  TwiceTheLimit
  EvaluatedIsBlind
  ReadingsReplace
  BatchesAreTrue
PROPERTIES
  UpgradesAreBackedUp
