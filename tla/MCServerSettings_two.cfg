CONSTANTS
    page1 = page1 page2 = page2 motd = motd pvp = pvp a = a b = b
    Pages <- MCPages
    Keys <- MCKeys
    Values <- MCValues
    Default = a
    NoLine = NoLine
    MaxSaves = 2
    MaxEdits = 2
    MaxStops = 1
SPECIFICATION Spec
SYMMETRY Symmetry
CHECK_DEADLOCK FALSE
INVARIANTS
    TypeOK SavesAreSerial LinesSurvive ShownIsStored
