SPECIFICATION MCSpec
CONSTANTS
  Apps = {"a"}
  NoApp = "none"
  Actors = {"w", "g", "r", "u"}
  Hooks = {"w"}
  Syncs = {"g", "r"}
  Asked = {"r"}
  Nobody = "nobody"
  Messages = {"interview", "rejection", "newsletter"}
  NoMessage = "nothing"
  Action <- MCAction
  Sure <- MCSure
  About <- MCAbout
  Forwarded = {"interview"}
  PageSize = 2
  MaxRows = 1
  Wishes = {"withdrawn"}
  MaxFaults = 2
INVARIANTS MailIsAccounted HealthyMeansRead
PROPERTIES PipelineSpec PageIsRead
