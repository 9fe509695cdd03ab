SPECIFICATION ListsSpec
PROPERTY DoneIsDone
CHECK_DEADLOCK FALSE
