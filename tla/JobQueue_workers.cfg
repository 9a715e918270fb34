SPECIFICATION WeatherSpec
CONSTANTS
  j1 = j1
  j2 = j2
  k1 = k1
  Jobs = {j1, j2}
  Ingest = {j1}
  Rank <- UploadsFirst
  Workers = {w1, w2}
  Clerks = {c1, c2}
  Reviewers = {c1}
  Keys = {k1}
  NoKey = NoKey
  NoWorker = NoWorker
  NoJob = NoJob
  MaxAttempts = 2
  Weathers = {"storm", "calm", "quiet"}
INVARIANTS AttemptsBounded IngestedOnce WorkedOnce InputIsKept
