SPECIFICATION AutomountSpec
CONSTANTS
    Keys = {s1, s2}
    Goroutines = {g1, g2}
    NoProcess = NoProcess
    MaxEvents = 2
INVARIANTS AutomountTypeOK OneProcessPerKey SweepNeverPanics NoAdbfsAfterExit MountpointsAreOwned
PROPERTIES StopsWhenTold ImplementsDeviceMounts
