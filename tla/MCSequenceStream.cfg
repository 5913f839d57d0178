CONSTANTS
    Sources <- MCSources
    SeqMod <- MCSeqMod
    WindowSize <- MCWindowSize
SPECIFICATION StreamSpec
INVARIANT LossReportedAsGap
CHECK_DEADLOCK FALSE
