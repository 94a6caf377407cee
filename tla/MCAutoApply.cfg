SPECIFICATION MCSpec
CONSTANTS
  Jobs = {"l", "g"}
  NoJob = "none"
  Lever <- MCLever
  Stale = {}
  Company <- MCCompany
  NoName = ""
  UrlAts <- MCUrlAts
  PageAts <- MCPageAts
  NoAts = ""
  PerHour <- MCPerHour
  Batchers = {"b"}
  Singles = {"s"}
  KnownBefore = {}
  DailyLimit = 3
  BatchCap = 2
  MaxLosses = 1
  Sites <- FormSites
  Profiles <- FormProfiles
  Tier1 <- FormTier1
  Mappings <- FormMappings
  LetterIds <- FormLetters
  Wizards <- MCWizards
  WizardProfiles <- MCOwners
  MaxPages = 3
INVARIANTS RecordsHold LimitsHold BrowserRunsAreTold
PROPERTY EveryActorEnds
