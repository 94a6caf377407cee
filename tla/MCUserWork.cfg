SPECIFICATION MCSpec
CONSTANTS
  i1 = i1
  i2 = i2
  q1 = q1
  q2 = q2
  r1 = r1
  r2 = r2
  r3 = r3
  Apps = {i1, i2}
  NoApp = "none"
  Actors = {q1, q2}
  Nobody = "nobody"
  Messages = {}
  NoMessage = "nothing"
  MaxRows = 3
  Ids = {i1, i2}
  Emails = {"a", "b"}
  Passwords = {"p", "q"}
  Requests = {q1, q2}
  MaxVersion = 2
  Applications = {1, 2, 3}
  Nameless = {3}
  Recorders = {r1, r2, r3}
  Facts <- MCFacts
  Grain = 6
  MaxEdits = 1
  Questions = {0, 1}
  Answers = {"x", "y"}
  Scores <- MCScores
  Evaluations = {r1, r2, r3}
  Versions = {"a", "b"}
  Editors = {r1, r2, r3}
  Researches = {"s"}
  Offers = {"o"}
  Briefs = {"b"}
  Ttl = 1
  MaxTime = 2
  Accounts = {i1, i2}
  Connects = {q1, q2}
  Clicks = {"r"}
  Visits = {"w"}
  MaxTokens = 3
  MaxEvents = 1
  Rules = {"a", "b"}
  Profiles = {"p", "q"}
  Postings = {"x"}
  Criteria <- MCCriteria
  Priority <- MCPriority
  Switchers = {q1, q2}
  Batches = {"b"}
  MaxChanges = 2
CONSTRAINT Bounded
SYMMETRY Symmetry
\* A request may be the last one.
CHECK_DEADLOCK FALSE
INVARIANTS
  ApplicationsAgree AccountsHold InsightExplained
  EvaluationsExplained FlagsExplained SalaryExplained AddressMatchesTokens
