SPECIFICATION Spec
CONSTANTS
    BatchSize = 3
    Interval = 2
INVARIANT FlushedWithinInterval
