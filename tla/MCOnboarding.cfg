SPECIFICATION OnboardingSpec
CONSTANTS
  MaxBreaks = 1
  MaxEdits = 2
  Edited <- MCEdited
INVARIANTS OnboardingTypeOK NumbersArePaidFor LiveHasNumber PurchasesAreExplained StepIsSaved
PROPERTIES LoadedSettingsSurvive PhoneStepEnds
