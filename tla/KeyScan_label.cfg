SPECIFICATION Spec
INVARIANT KeysFollowLabel
CHECK_DEADLOCK FALSE
