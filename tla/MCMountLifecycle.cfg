SPECIFICATION Spec
CONSTANTS
    Main = Main
    Watcher = Watcher
    Requests = {r1, r2}
INVARIANTS TypeOK UnmountedOnce NeverPanics ExitLeavesNoMount
PROPERTY DisconnectEnds
