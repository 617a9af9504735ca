SPECIFICATION FairSpec
CONSTANTS
    LISTING <- MCListing
    TIER <- MCTier
    SOURCES <- MCSources
    PROJECT <- MCProject
    FILTERS <- MCFilters
    LISTED = {"pg"}
    NAMED = {"pg", "new"}
    SCHEMAS = {"public", "audit"}
    TABLES = {1, 2}
    SIMILAR <- MCSimilar
    PAGE_SIZE = 2
    TABLE_LIMIT = 1
    CANDIDATE_FETCH_LIMIT = 1
    CANDIDATE_CAP = 1
    MaxRows = 2
    MaxChanges = 2
INVARIANTS
    TypeOK
    NeverAPick
    ReplicaFirst
    RefusalIsTrue
    TruncatedIsExact
    TableIsTheOne
PROPERTY
    LookupEnds
