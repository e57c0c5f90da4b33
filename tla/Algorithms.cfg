\* The path index, the calendar, durations and documents.
CONSTANTS
  Pool <- Paths12
  Degrees = {2, 3}
  Slash = "/"
  Years <- Years400
SPECIFICATION Spec
INVARIANTS IndexShape IndexIsSet ListsDirectory TimesAreRight DocumentLaws
CHECK_DEADLOCK FALSE
