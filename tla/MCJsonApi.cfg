SPECIFICATION Spec
CONSTANTS
    r1 = r1
    r2 = r2
    Requests = {r1, r2}
    Urls <- MCUrls
    Nobody = Nobody
    CacheExpiration = 1
    FillTime = 1
    MaxVersion = 1
    MaxTime = 3
INVARIANTS TypeOK BoundedStaleness AnswersMatch
PROPERTIES AnsweredIfClientsRead
CHECK_DEADLOCK FALSE
