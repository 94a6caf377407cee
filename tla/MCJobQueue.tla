------------------------------ MODULE MCJobQueue ------------------------------
\* Instances of one lane: a plain retryable job, a plain job with one try (like
\* auto_apply_batch), a user's enrichment batch and a scheduled one.
EXTENDS JobQueue

CONSTANTS plain, once, byUser, bySchedule

McMaxTries == [j \in Jobs |-> IF j = once THEN 1 ELSE 2]
===============================================================================
