SPECIFICATION FairSpec
CONSTANTS
    Inodes = {i1, i2}
    NoFile = NoFile
    NoKey = NoKey
    Versions <- OnOff
    Drafts = {}
    MaxEdits = 1
PROPERTY HotStatsReported
CHECK_DEADLOCK FALSE
