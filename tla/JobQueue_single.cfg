SPECIFICATION FairSpec
CONSTANTS
  j1 = j1
  j2 = j2
  Jobs = {j1, j2}
  Ingest = {j1, j2}
  Rank <- SameRank
  Workers = {w1}
  Clerks = {c1}
  Reviewers = {c1}
  Keys = {}
  NoKey = NoKey
  NoWorker = NoWorker
  NoJob = NoJob
  MaxAttempts = 2
  Weathers = {"storm"}
INVARIANTS TypeOK OneVerdict
PROPERTIES ImplementsLifecycle Settles
