SPECIFICATION Spec
CONSTANTS
  FULL_AT = 2
  HIGH = 1
INVARIANTS CountNeverAhead WaiterHeard
PROPERTY FlushMeansExecuted CardAnswers EveryCommandExecuted
CHECK_DEADLOCK FALSE
