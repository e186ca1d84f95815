CONSTANTS
    Byte = {0, 1}
    InitialCapacity = 3
    MaxLen = 3
    Spares = {0, 7}
SPECIFICATION Spec
INVARIANTS
    TypeOK
    ReadsCoverTheFile
PROPERTIES
    FileUntilPartialShrink
    WriteIsLocal
