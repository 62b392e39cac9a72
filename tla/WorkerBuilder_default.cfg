CONSTANTS
  Sizes = {0, 1, 2, 3}
  Unset = Unset
SPECIFICATION Spec
INVARIANT PrefetchFollowsConcurrency
CHECK_DEADLOCK FALSE
