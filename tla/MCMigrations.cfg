SPECIFICATION MigrationsSpec
CONSTANTS
  ann = ann
  bob = bob
  job1 = job1
  job2 = job2
  key1 = key1
  key2 = key2
  NoKey = NoKey
  Nobody = Nobody
  NoJob = NoJob
  Users = {ann, bob}
  Leaving = {ann}
  Ids = {job1, job2}
  Keys = {key1, key2}
  Items <- MCItems
  Batches <- MCBatches
  Kinds = {"referral", "application"}
  Sessions = {1, 2}
  MaxScrapes = 2
  MaxNotes = 1
  MaxErasures = 1
INVARIANT HeadIsWhatTheModelsDeclare
PROPERTY CommandsArePredictable
