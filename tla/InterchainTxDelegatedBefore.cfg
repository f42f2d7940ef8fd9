SPECIFICATION IcaSpec
INVARIANT DelegatedBefore
CHECK_DEADLOCK FALSE
