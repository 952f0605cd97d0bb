SPECIFICATION FairSpec
CONSTANTS
    MaxRows = 3
INVARIANTS TypeOK AllOrNothing ReportIsTrue
PROPERTIES EveryUploadEnds
