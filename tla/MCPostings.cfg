SPECIFICATION MCSpec
CONSTANTS
  x = x
  y = y
  Searches = {"all"}
  Postings = {1, 2}
  Passes = {x, y}
  Checks = {"c"}
  Limit = 1
  MaxTime = 4
  MaxEvents = 1
  PageUrls <- MCUrls
  StartUrl <- MCStart
  Pages <- MCPages
  MaxPages = 4
  MaxJobs = 5
  Sources <- MCSources
  Contents = {"a", "b"}
  Urls = {"x"}
  Texts = {"s", "t", "u"}
  Distance <- MCDistance
  NoUrl = "none"
  Unknown = "none"
  MaxBatch = 3
  Likeness <- MCLikeness
  Jobs = {1, 2, 3, 4}
  Window = 3
  Limits = {1}
  Factor = 2
  MaxAnswers = 3
  Users = {"a", "b", "c"}
  Runs = {x, y}
  MaxFailures = 1
  MaxDeletions = 1
  Listed = {1, 2}
  Batches = {"b"}
  Askers = {"q"}
  BatchSize = 2
  EmbedSize = 1
  MaxCalls = 3
SYMMETRY Symmetry
\* Every part comes to an end.
CHECK_DEADLOCK FALSE
INVARIANTS AlertsExplained CrawlIsComplete DuplicatesExplained AllOrNobody EnrichmentExplained
