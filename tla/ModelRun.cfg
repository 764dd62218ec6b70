SPECIFICATION FairSpec
CHECK_DEADLOCK FALSE
INVARIANTS TypeOK RuntimeIsThere ModelIsThere ServiceFollowsRun TraceSpansRun ConsoleTellsTruth
PROPERTIES ImplementsRunReport FailedRunIsReported MenuComesBack
