SPECIFICATION FairSpec
CONSTANTS
  Users = {alice, bob}
  None = none
  Unsure = unsure
  Slots = {r1, r2}
  Keys = {k1, k2}
  Budgets <- Mixes
INVARIANTS SessionIsAsChosen SubmittedOnce
PROPERTIES LateAnswersAreDropped RestingDataIsShown EverySubmissionEnds
CHECK_DEADLOCK FALSE
