SPECIFICATION OnboardingSpec
CONSTANTS
  Statement <- MCStatement
  Generic = {"sell"}
  Contentless = {"sell", "things"}
  None = None
  MaxSteps = 12
  MaxBreaks = 1
INVARIANTS AnswersOnce ListedHasEvidence AnnouncedOnce
