SPECIFICATION MCSpec
CONSTANTS
  Syncers = {enqueuer, hook}
  Hooks = {hook}
  Fields = {"queue_job_completed_total"}
  KeyExpires = TRUE
  MaxEvents = 1
  BeatTtl = 2
  HashTtl = 4
  MaxQueued = 1
  MaxDown = 3
  Queues = {"scraping", "ops"}
  Samples <- MCSamples
  Interval = 3
  Slack = 1
  WebhookTimeout = 1
  MaxFaults = 2
  MaxTroubles = 1
  MaxHolds = 1
  Held <- MCHeld
  MaxWait = 7
INVARIANTS LossesExplained DeathIsSeen RunsStayApart
PROPERTIES AlarmsHold RuntimeGoesOn
\* The scheduler's loop may be dead, and then nothing happens until somebody restarts it.
CHECK_DEADLOCK FALSE
