SPECIFICATION Spec
INVARIANTS StoppedInTime QuietExit AllReleased
CHECK_DEADLOCK FALSE
