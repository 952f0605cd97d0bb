SPECIFICATION FairSpec
CONSTANTS
    Session = {s1, s2}
INVARIANTS TypeOK RevisionTellsSchema UpgradeAlwaysWorks
PROPERTIES CommitsFromWhatItRead EveryCommandEnds
