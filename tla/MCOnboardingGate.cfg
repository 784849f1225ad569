SPECIFICATION OnboardingSpec
CONSTANTS
  MaxBreaks = 1
  MaxEdits = 2
  Edited <- MCEdited
INVARIANT GateIsForUnfinished
