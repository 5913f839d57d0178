CONSTANTS
    Sources <- MCSources
    StatSources <- MCSources
    SeqMod <- MCSeqMod
    WindowSize <- MCWindowSize
    CrcEnabled = TRUE
    Datagrams <- MCDatagrams
    MaxFrames = 2
SPECIFICATION MainSpec
PROPERTY CtrlCStops
CHECK_DEADLOCK FALSE
