CONSTANTS
    Sources <- MCSources
    StatSources <- MCSources
    SeqMod <- MCSeqMod
    WindowSize <- MCWindowSize
    CrcEnabled = TRUE
    Datagrams <- MCDatagrams
    MaxFrames = 4
SPECIFICATION FairSpec
INVARIANT TypeOK
INVARIANT CauseBeforeEffect
INVARIANT SequenceAccounting
PROPERTY StopHonoured
PROPERTY HealthNeverImproves
CHECK_DEADLOCK FALSE
