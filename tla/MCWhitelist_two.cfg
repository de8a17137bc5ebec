CONSTANTS
    page1 = page1 page2 = page2 steve = steve alex = alex
    Pages <- MCPages
    Names <- MCNames
    NoFile = NoFile
    Nothing = Nothing
    Garbled = Garbled
    NoName = NoName
    MaxTyped = 2
    MaxSaves = 2
    MaxStops = 1
SPECIFICATION Spec
SYMMETRY Symmetry
CONSTRAINT OneHarm
CHECK_DEADLOCK FALSE
INVARIANTS
    TypeOK SavesAreStored ListIsUsable
