SPECIFICATION Spec
CONSTANTS
    Gap = " "
    NewLine = "nl"
    Comment = "#"
    Garbage = "?"
    PortOptions = {"port", "serverport"}
    TextOptions = {"serverpassword"}
    ChoiceOptions <- Nullclients
    OtherNames <- SecondNames
    FreeOptions = {"serverloops"}
    Number <- NumberOf
    Numerals = {"6666", "7000", "65536", "-1", "1055242"}
    IntRange = 1048576
    PortEnd = 65536
    Default <- Defaults
    LineSize = 10
    Texts <- PlainTexts
PROPERTIES
    ReadsAsWritten
CHECK_DEADLOCK FALSE
