SPECIFICATION AutomountSpec
CONSTANTS
    Keys = {s1}
    Goroutines = {g1}
    NoProcess = NoProcess
    MaxEvents = 2
INVARIANT ConnectedIsTried
