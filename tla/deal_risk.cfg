SPECIFICATION Spec
CONSTANTS
    j1 = j1
    j2 = j2
    j3 = j3
    s1 = s1
    s2 = s2
    s3 = s3
    Jobs = {j1, j2, j3}
    Stakeholders = {s1, s2, s3}
    Target <- TargetOf
    Extraction <- ExtractionOf
    MaxRetries = 1
INVARIANTS
    TypeOK
    CoverageTellsContacts
    BuyerIsCounted
    ComparedWithLatest
CHECK_DEADLOCK FALSE
