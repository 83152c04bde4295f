SPECIFICATION Spec
CONSTANTS
    Streams = {s1}
    Watchers = {w1}
    MaxAttempts = 3
INVARIANT SettledIsPushed
CHECK_DEADLOCK FALSE
