SPECIFICATION Spec
CHECK_DEADLOCK FALSE
INVARIANT FailedRunHasErrorCode
