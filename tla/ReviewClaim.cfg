SPECIFICATION Spec
CONSTANTS
    Jobs <- MCJobs
    PageSize = 2
    NewestFirst = FALSE
    MaxComments = 4
INVARIANT OneStickyComment
CHECK_DEADLOCK FALSE
