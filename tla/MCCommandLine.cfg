CONSTANTS
    d1 = d1
    d2 = d2
    showA = showA
    showB = showB
    showC = showC
    json = json
    text = text
    Devices = {d1, d2}
    Lab = {d2}
    Commands = {showA, showB, showC}
    Formats = {json}
    SafeName <- MCSafeName
    None = None
SPECIFICATION Spec
INVARIANTS
    ExitZeroMeansGood
    NoSilentOverwrite
    NoSilentDevice
CHECK_DEADLOCK FALSE
