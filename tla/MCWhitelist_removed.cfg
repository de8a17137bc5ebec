CONSTANTS
    page1 = page1 page2 = page2 steve = steve alex = alex
    Pages <- MCPages
    Names <- MCNames
    NoFile = NoFile
    Nothing = Nothing
    Garbled = Garbled
    NoName = NoName
    MaxTyped = 1
    MaxSaves = 1
    MaxStops = 0
SPECIFICATION Spec
SYMMETRY Symmetry
CHECK_DEADLOCK FALSE
INVARIANTS
    RemovedIsGone
