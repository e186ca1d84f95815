--------------------------- MODULE MountLifecycle ---------------------------
(***************************************************************************)
(* The life of one mount (src/cmd/adbfs/main.go): main mounts, serves and  *)
(* unmounts, while the device watcher and the device clients of FUSE       *)
(* requests (src/device_client.go) report disconnections, each from its    *)
(* own goroutine.  Two AtomicBools keep them apart.                        *)
(*                                                                         *)
(* The kernel, go-fuse and the adb server are external.  Unmount may fail, *)
(* as it does on a busy mount; its error is dropped.                       *)
(***************************************************************************)
EXTENDS Naturals

CONSTANTS
    Main,     \* the main goroutine
    Watcher,  \* the goroutine of watchForDeviceDisconnected
    Requests  \* FUSE requests that call a device client

ASSUME ActorsAssumption == Main # Watcher /\ {Main, Watcher} \cap Requests = {}

Handlers == {Watcher} \cup Requests
Actors == {Main} \cup Handlers

VARIABLES
    mounted, unmounted,  \* the two AtomicBools
    created,     \* server is not nil
    kernelMount, \* the kernel has the filesystem mounted
    serving,     \* what the goroutine of startServer does
    pc,          \* what an actor is doing
    connected,   \* the device is there
    reported,    \* the watcher has an event to take: the device went offline
    watching,    \* the channel of the watcher is open
    unmounts,    \* history: calls of server.Unmount
    failed,      \* history: one of them left the filesystem mounted
    panicked     \* unmountServer has panicked

bools == <<mounted, unmounted>>
serverVars == <<created, kernelMount, serving>>
deviceVars == <<connected, reported, watching>>
history == <<unmounts, failed, panicked>>
vars == <<bools, serverVars, pc, deviceVars, history>>

MainPCs == {"mounting", "starting", "ready", "announced", "loop", "exited", "died"}
HandlerPCs == {"idle", "called", "checked", "unreported"}

(* The calls of goadbDeviceClient; ListDirEntries ends with a ReadAll.       *)
DeviceCalls == {"Stat", "OpenRead", "ListDirEntries", "ReadAll", "OpenWrite", "RunCommand"}

(* Those that call handleDeviceNotFound.                                    *)
ReportingCalls == {"Stat", "OpenRead", "ListDirEntries"}

UnmountPCs == {"enter", "swap", "unmounting"}

TypeOK ==
    /\ mounted \in BOOLEAN /\ unmounted \in BOOLEAN
    /\ created \in BOOLEAN /\ kernelMount \in BOOLEAN
    /\ serving \in {"no", "serving", "done"}
    /\ pc \in [Actors -> MainPCs \cup HandlerPCs \cup DeviceCalls \cup UnmountPCs]
    /\ pc[Main] \in MainPCs \cup UnmountPCs
    /\ pc[Watcher] \in HandlerPCs \cup UnmountPCs
    /\ \A r \in Requests : pc[r] \in HandlerPCs \cup DeviceCalls \cup UnmountPCs
    /\ connected \in BOOLEAN /\ reported \in BOOLEAN /\ watching \in BOOLEAN
    /\ unmounts \in Nat
    /\ failed \in BOOLEAN /\ panicked \in BOOLEAN

Init ==
    /\ mounted = FALSE /\ unmounted = FALSE
    /\ created = FALSE /\ kernelMount = FALSE /\ serving = "no"
    /\ pc = [a \in Actors |-> IF a = Main THEN "mounting" ELSE "idle"]
    /\ connected = TRUE /\ reported = FALSE /\ watching = TRUE
    /\ unmounts = 0 /\ failed = FALSE /\ panicked = FALSE

-----------------------------------------------------------------------------

(* The process runs: no goroutine outlives main, a Fatal or a panic.        *)
Running == pc[Main] \notin {"exited", "died"} /\ ~panicked

Goes(a, from, to) ==
    /\ Running
    /\ pc[a] = from
    /\ pc' = [pc EXCEPT ![a] = to]

(* nodefs.MountRoot, and startServer's goroutine that serves.               *)
MountRoot ==
    /\ Goes(Main, "mounting", "starting")
    /\ created' = TRUE /\ kernelMount' = TRUE /\ serving' = "serving"
    /\ UNCHANGED <<bools, deviceVars, history>>

(* WaitMount returned in time.                                              *)
ServerReady ==
    /\ Goes(Main, "starting", "ready")
    /\ UNCHANGED <<bools, serverVars, deviceVars, history>>

(* A Fatal (the mount failed, the server ended or did not start in time), or *)
(* a signal before Notify: nothing deferred is run.                         *)
Dies ==
    /\ \E from \in {"mounting", "starting", "ready", "announced"} : Goes(Main, from, "died")
    /\ UNCHANGED <<bools, serverVars, deviceVars, history>>

SetMounted ==
    /\ Goes(Main, "ready", "announced")
    /\ mounted' = TRUE
    /\ UNCHANGED <<unmounted, serverVars, deviceVars, history>>

(* The deferred unmountServer and signal.Notify are in place.               *)
Notify ==
    /\ Goes(Main, "announced", "loop")
    /\ UNCHANGED <<bools, serverVars, deviceVars, history>>

(* Mutant of Signal: a signal exits without running what is deferred.        *)
SignalExits ==
    /\ Goes(Main, "loop", "exited")
    /\ UNCHANGED <<bools, serverVars, deviceVars, history>>

(* A signal, or the server is done: main returns, through unmountServer.    *)
Signal ==
    /\ Goes(Main, "loop", "enter")
    /\ UNCHANGED <<bools, serverVars, deviceVars, history>>

ServerDone ==
    /\ serving = "done"
    /\ Goes(Main, "loop", "enter")
    /\ UNCHANGED <<bools, serverVars, deviceVars, history>>

(* Mutant of ServeEnds: serverDone is never closed.                          *)
ServeEndsSilently ==
    /\ Running
    /\ serving = "serving" /\ ~kernelMount
    /\ serving' = "no"
    /\ UNCHANGED <<bools, created, kernelMount, pc, deviceVars, history>>

(* Serve returns when the filesystem is no longer mounted, and serverDone is *)
(* closed.                                                                  *)
ServeEnds ==
    /\ Running
    /\ serving = "serving" /\ ~kernelMount
    /\ serving' = "done"
    /\ UNCHANGED <<bools, created, kernelMount, pc, deviceVars, history>>

-----------------------------------------------------------------------------
(* unmountServer, of any actor.                                             *)

(* Mutant of Done: the handler of a request is left as main is.              *)
DoneExits(a) == "exited"

Done(a) == IF a = Main THEN "exited" ELSE "idle"

CheckMounted(a) ==
    /\ Goes(a, "enter", IF created /\ mounted THEN "swap" ELSE Done(a))
    /\ panicked' = ~(created /\ mounted)
    /\ UNCHANGED <<bools, serverVars, deviceVars, unmounts, failed>>

(* Mutant of Swap: unmounted is set without looking at what it was.          *)
SwapUnchecked(a) ==
    /\ Goes(a, "swap", "unmounting")
    /\ unmounted' = TRUE
    /\ UNCHANGED <<mounted, serverVars, deviceVars, history>>

(* The CompareAndSwap: one actor gets to unmount.                           *)
Swap(a) ==
    /\ Goes(a, "swap", IF unmounted THEN Done(a) ELSE "unmounting")
    /\ unmounted' = TRUE
    /\ UNCHANGED <<mounted, serverVars, deviceVars, history>>

(* server.Unmount, which fails if the mount is busy or gone.  Only in the    *)
(* first case is the filesystem still mounted.                              *)
Unmount(a, ok) ==
    /\ Goes(a, "unmounting", Done(a))
    /\ ok => kernelMount
    /\ kernelMount' = (kernelMount /\ ~ok)
    /\ unmounts' = unmounts + 1
    /\ failed' = (failed \/ kernelMount')
    /\ UNCHANGED <<bools, created, serving, deviceVars, panicked>>

-----------------------------------------------------------------------------
(* handleDeviceDisconnected, of a handler.  It reads the two flags one after *)
(* the other.                                                               *)

(* The watcher takes the event that its device went offline.                *)
WatcherReports ==
    /\ reported
    /\ Goes(Watcher, "idle", "called")
    /\ reported' = FALSE
    /\ UNCHANGED <<bools, serverVars, connected, watching, history>>

(* A FUSE request calls its device client.                                  *)
CallDevice(r, call) ==
    /\ serving = "serving" /\ kernelMount
    /\ Goes(r, "idle", call)
    /\ UNCHANGED <<bools, serverVars, deviceVars, history>>

(* The call returns, with an error of another kind or without; the entries  *)
(* of a directory are still to be read.                                     *)
CallReturns(r) ==
    /\ pc[r] \in DeviceCalls
    /\ \E next \in {"idle"} \cup (IF pc[r] = "ListDirEntries" THEN {"ReadAll"} ELSE {}) :
           Goes(r, pc[r], next)
    /\ UNCHANGED <<bools, serverVars, deviceVars, history>>

(* The call returns DeviceNotFound, to the handler or past it.              *)
CallFindsNoDevice(r) ==
    /\ pc[r] \in DeviceCalls
    /\ ~connected
    /\ Goes(r, pc[r], IF pc[r] \in ReportingCalls THEN "called" ELSE "unreported")
    /\ UNCHANGED <<bools, serverVars, deviceVars, history>>

(* The request ends with the error, and nobody else has heard of it.         *)
ReturnUnreported(r) ==
    /\ Goes(r, "unreported", "idle")
    /\ UNCHANGED <<bools, serverVars, deviceVars, history>>

(* Mutant of ReadMounted: handleDeviceDisconnected does not look at mounted. *)
ReadMountedNot(h) ==
    /\ Goes(h, "called", "checked")
    /\ UNCHANGED <<bools, serverVars, deviceVars, history>>

ReadMounted(h) ==
    /\ Goes(h, "called", IF mounted THEN "checked" ELSE "idle")
    /\ UNCHANGED <<bools, serverVars, deviceVars, history>>

ReadUnmounted(h) ==
    /\ Goes(h, "checked", IF unmounted THEN "idle" ELSE "enter")
    /\ UNCHANGED <<bools, serverVars, deviceVars, history>>

-----------------------------------------------------------------------------
(* The world.                                                               *)

(* The device comes and goes; the watcher hears when it goes.               *)
DeviceChanges ==
    /\ connected' = ~connected
    /\ reported' = (reported \/ (watching /\ connected))
    /\ UNCHANGED <<bools, serverVars, pc, watching, history>>

(* The watcher's channel is closed.  The break leaves the select, not the    *)
(* loop, so the goroutine stays and does nothing any more.                  *)
WatcherCloses ==
    /\ watching /\ ~reported /\ pc[Watcher] = "idle"
    /\ watching' = FALSE
    /\ UNCHANGED <<bools, serverVars, pc, connected, reported, history>>

(* Someone else unmounts the filesystem.                                    *)
UserUnmounts ==
    /\ kernelMount
    /\ kernelMount' = FALSE
    /\ UNCHANGED <<bools, created, serving, pc, deviceVars, history>>

-----------------------------------------------------------------------------

UnmountServer(a) ==
    CheckMounted(a) \/ Swap(a) \/ \E ok \in BOOLEAN : Unmount(a, ok)

HandleDeviceDisconnected(h) == ReadMounted(h) \/ ReadUnmounted(h) \/ UnmountServer(h)

MainGoes == MountRoot \/ ServerReady \/ SetMounted \/ Notify \/ ServerDone \/ UnmountServer(Main)

Next ==
    \/ MainGoes \/ Dies \/ Signal
    \/ ServeEnds
    \/ WatcherReports
    \/ \E r \in Requests :
        \/ \E call \in DeviceCalls \ {"ReadAll"} : CallDevice(r, call)
        \/ CallReturns(r) \/ CallFindsNoDevice(r) \/ ReturnUnreported(r)
    \/ \E h \in Handlers : HandleDeviceDisconnected(h)
    \/ DeviceChanges \/ WatcherCloses \/ UserUnmounts

(* Goroutines get to run, and Serve and Unmount return.  Devices, signals    *)
(* and users owe nothing.                                                   *)
Fairness ==
    /\ WF_vars(MainGoes)
    /\ WF_vars(ServeEnds)
    /\ WF_vars(WatcherReports)
    /\ \A h \in Handlers : WF_vars(HandleDeviceDisconnected(h))
    /\ \A r \in Requests : WF_vars(ReturnUnreported(r))

Spec == Init /\ [][Next]_vars /\ Fairness

-----------------------------------------------------------------------------

(* main.go:37: "Prevents trying to unmount the server multiple times." The   *)
(* watcher, any number of requests and main may all want to (main.go,        *)
(* unmountServer).                                                          *)
UnmountedOnce == unmounts <= 1

(* No disconnection is so early that it meets a server that is not there     *)
(* yet: neither panic of unmountServer is reached (main.go,                  *)
(* handleDeviceDisconnected and unmountServer).                              *)
NeverPanics == ~panicked

(* When main returns, the filesystem is unmounted, unless an Unmount failed, *)
(* or a handler had won the right to unmount and main did not wait for it    *)
(* (main.go, main and unmountServer).                                        *)
ExitLeavesNoMount ==
    pc[Main] = "exited" /\ kernelMount =>
        failed \/ \E h \in Handlers : pc[h] = "unmounting"

(* A disconnection that the watcher, or a device client, reports while the   *)
(* filesystem is served ends the process, unless the filesystem could not be *)
(* unmounted (main.go, watchForDeviceDisconnected, handleDeviceDisconnected, *)
(* startServer, main; device_client.go, handleDeviceNotFound).               *)
DisconnectEnds ==
    mounted /\ (reported \/ \E r \in Requests : pc[r] = "called") ~> ~Running \/ failed

(* device_client.go:24: "It also detects when any operations return an error *)
(* indicating that the device was disconnected, and calls                    *)
(* deviceDisconnectedHandler".  So any call that finds no device ends the    *)
(* process, as one that reports does (device_client.go, OpenWrite and        *)
(* ListDirEntries).                                                          *)
AnyCallEnds ==
    mounted /\ (\E r \in Requests : pc[r] \in {"called", "unreported"}) ~> ~Running \/ failed
=============================================================================
