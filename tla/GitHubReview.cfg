SPECIFICATION Spec
CONSTANTS
    Jobs <- MCJobs
    PageSize = 1
    NewestFirst = FALSE
    MaxComments = 4
INVARIANTS
    TypeOK
    DuplicatesNeedInterference
    LatestReviewShows
PROPERTIES
    PeopleKeepTheirWords
    JobsEnd
CHECK_DEADLOCK FALSE
