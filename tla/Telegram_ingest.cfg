\* Five updates, one of them untranslatable, restarts and failed publishes.
SPECIFICATION FairTelegramSpec
CONSTANTS
  MaxUpdate = 5
  Untranslatable = {2}
  MaxStops = 2
  MaxFailures = 1
INVARIANTS ForgottenIsPublished RepeatedOnlyByRestarts
PROPERTY UpdatesArePublished
CHECK_DEADLOCK FALSE
