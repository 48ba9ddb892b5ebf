SPECIFICATION FairSpec
CONSTANTS
    Inodes = {i1, i2, i3}
    NoFile = NoFile
    NoKey = NoKey
    Versions <- SomeVersions
    Drafts <- CutLines
    MaxEdits = 3
INVARIANT TypeOK
INVARIANT DeafOnlyIfUnarmed
INVARIANT NoSaveMissed
PROPERTY LastSaveInForce
PROPERTY StatsResume
CHECK_DEADLOCK FALSE
