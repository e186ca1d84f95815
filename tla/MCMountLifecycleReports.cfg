SPECIFICATION Spec
CONSTANTS
    Main = Main
    Watcher = Watcher
    Requests = {r1, r2}
PROPERTY AnyCallEnds
