CONSTANTS
    Byte = {0, 1}
    InitialCapacity = 1
    MaxLen = 1
    Spares = {0}
    Absent = Absent
    DirtyTimeout = 1
    MaxTime = 4
    Handles = {h1, h2}
    FlagChoices <- MCFlagChoices
SPECIFICATION AdbFileSpec
PROPERTY CreatedOnOpen
