SPECIFICATION FairSpec
CONSTANTS
    Bytes <- AllBytes
    NewLine = "nl"
    Echo <- EchoWord
    Help <- HelpWord
    Exit <- ExitWord
    Stop <- StopWord
    Banner <- Text
    HelpText <- Text
    UnknownText <- Text
    Lines <- AllLines
    Patient = TRUE
    ReadBlock = 4
    MaxLines = 4
PROPERTIES
    ServesLines
    EveryLineAnswered
CHECK_DEADLOCK FALSE
