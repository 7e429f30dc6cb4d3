SPECIFICATION RecordSpec
CONSTANTS
    s1 = s1
    s2 = s2
    Nothing = Nothing
    Builds <- ThreeBuilds
    Codes = {c1}
    Signers <- TwoSigners
    SearchLimit = 2
    LateUploads = TRUE
    Retries = 1
    Looks = 2
    MaxPages = 3
    MaxMoves = 1
INVARIANT CompensationIsExact
INVARIANT RecordsNameWhatWasServed
PROPERTY RecordsKeepHistory
