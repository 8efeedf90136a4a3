\* A patient user and hasty ones; failures and lost replies.
CONSTANTS
  Items <- TwoItems
  Found <- OneSearch
  NoSearch <- All
  NoData = null
  PageSizes <- Sizes
  Conditions <- PatientAndHasty
  MaxInFlight = 2
  MaxEntries = 2
  MaxPosts = 2
  MaxRepeats = 2
SPECIFICATION Spec
INVARIANTS TypeOK OrderedOnce ConfirmedIsCleared SettledShowsQuery PageExists LockedMeansDue
