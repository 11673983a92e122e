SPECIFICATION Spec
CONSTANTS
    Visits <- MCVisits
    MaxFiles = 2
INVARIANTS OwnChangesAreShown OnePressOneChange
PROPERTIES AnswersKeepTheirOrder ButtonsComeBack
CHECK_DEADLOCK FALSE
