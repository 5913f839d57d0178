CONSTANTS
    Messages <- MCDesyncMessages
    MaxChunk = 5
    MaxFrameLen <- MCMaxFrameLen
SPECIFICATION FramerSpec
PROPERTY FramerRefinesStream
CHECK_DEADLOCK FALSE
