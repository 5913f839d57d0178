CONSTANTS
    Sources <- MCSources
    SeqMod <- MCSeqMod
    WindowSize <- MCWindowSize
SPECIFICATION TrkSpec
PROPERTY NoFalseDuplicate
