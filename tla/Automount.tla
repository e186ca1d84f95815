----------------------------- MODULE Automount -----------------------------
(***************************************************************************)
(* adbfs-automount (src/cmd/adbfs-automount/main.go): main waits for       *)
(* devices and gives each to a process of the ProcessTracker; mountDevice  *)
(* makes a mountpoint (src/internal/cli/mountpoint.go), runs an adbfs on   *)
(* it and cleans up after it.                                              *)
(*                                                                         *)
(* The adbfs it runs, the kernel and the device watcher are external.  An  *)
(* adbfs that is killed leaves its mount behind, or not: kernels differ.   *)
(* Handlers are processes of their own and change nothing here.            *)
(***************************************************************************)
EXTENDS ProcessTracker, Sequences

CONSTANT MaxEvents  \* bound: device events that wait for main

ASSUME MaxEventsAssumption == MaxEvents \in Nat \ {0}

VARIABLES
    online,    \* the devices that are connected
    events,    \* what deviceWatcher.C() will deliver: <<serial, came online>>
    stage,     \* where mountDevice is
    child,     \* the adbfs that mountDevice started
    killer,    \* goroutines of mountDevice that wait to kill the adbfs
    dirs,      \* serials whose mountpoint directory exists
    mounts,    \* serials with a filesystem mounted on their mountpoint
    attempted  \* history: a mount was tried since the device came online

worldVars == <<online, events>>
mountVars == <<stage, child, killer, dirs, mounts>>
automountVars == <<trackerVars, worldVars, mountVars, attempted>>

Serials == Keys

(* main: its loop, its deferred Shutdown, its exit.                         *)
Looping == shutdown = "no"
Exited == shutdown = "done"

AutomountTypeOK ==
    /\ TrackerTypeOK
    /\ online \subseteq Serials
    /\ events \in Seq(Serials \X BOOLEAN)
    /\ Len(events) <= MaxEvents
    /\ stage \in [Goroutines -> {"none", "info", "mkdir", "start", "wait", "remove"}]
    /\ child \in [Goroutines -> {"none", "starting", "mounted", "gone"}]
    /\ killer \subseteq Goroutines
    /\ dirs \subseteq Serials
    /\ mounts \subseteq dirs
    /\ attempted \subseteq Serials

AutomountInit ==
    /\ TrackerInit
    /\ online = {}
    /\ events = <<>>
    /\ stage = [g \in Goroutines |-> "none"]
    /\ child = [g \in Goroutines |-> "none"]
    /\ killer = {}
    /\ dirs = {}
    /\ mounts = {}
    /\ attempted = {}

-----------------------------------------------------------------------------

(* A device comes or goes, and the watcher tells main, in order.            *)
Plug(s) ==
    /\ Len(events) < MaxEvents
    /\ online' = IF s \in online THEN online \ {s} ELSE online \cup {s}
    /\ events' = Append(events, <<s, s \in online'>>)
    /\ attempted' = attempted \ {s}
    /\ UNCHANGED <<trackerVars, mountVars>>

(* main takes an event.  It drops the error of Go, and does nothing about    *)
(* a device that went offline.                                              *)
HandleEvent ==
    /\ Looping
    /\ events # <<>>
    /\ events' = Tail(events)
    /\ LET s == Head(events)[1]
           cameOnline == Head(events)[2]
       IN  \/ /\ cameOnline
              /\ \E g \in Goroutines :
                    /\ g \notin killer
                    /\ Go(s, g)
                    /\ stage' = [stage EXCEPT ![g] = "info"]
                    /\ child' = [child EXCEPT ![g] = "none"]
              /\ attempted' = IF s \in online THEN attempted \cup {s} ELSE attempted
              /\ UNCHANGED <<online, killer, dirs, mounts>>
           \/ /\ cameOnline
              /\ GoFails(s)
              /\ UNCHANGED <<online, mountVars, attempted>>
           \/ /\ ~cameOnline
              /\ UNCHANGED <<trackerVars, online, mountVars, attempted>>

(* A signal, or the device watcher gives up: main returns, and its deferred  *)
(* call shuts the tracker down.                                             *)
Stop == Shutdown /\ UNCHANGED <<worldVars, mountVars, attempted>>
Exit == ShutdownReturns /\ UNCHANGED <<worldVars, mountVars, attempted>>

(* adbfs-automount is started again: the directory of mountpoints is what    *)
(* it was, and the watcher reports every connected device.                   *)
Restart ==
    /\ Exited
    /\ processesByKey' = [k \in Keys |-> NoProcess]
    /\ processWaiter' = 0
    /\ state' = [g \in Goroutines |-> "free"]
    /\ canceled' = {}
    /\ shutdown' = "no"
    /\ killer' = {}
    /\ events' \in {q \in UNION {[1 .. n -> Serials \X {TRUE}] : n \in 0 .. MaxEvents} :
                      /\ {q[i][1] : i \in DOMAIN q} = online
                      /\ Len(q) = Cardinality(online)}
    /\ attempted' = {}
    /\ UNCHANGED <<key, panicked, online, stage, child, dirs, mounts>>

-----------------------------------------------------------------------------
(* mountDevice in goroutine g, for device key[g].                            *)

Moves(g, from, to) ==
    /\ state[g] = "running"
    /\ stage[g] = from
    /\ stage' = [stage EXCEPT ![g] = to]

(* mountDevice has nothing to undo and returns.                              *)
GivesUp(g, from) ==
    /\ Moves(g, from, "none")
    /\ Return(g)
    /\ UNCHANGED <<worldVars, child, killer, dirs, mounts, attempted>>

(* GetDeviceInfo.                                                            *)
GetDeviceInfo(g) ==
    /\ Moves(g, "info", "mkdir")
    /\ UNCHANGED <<trackerVars, worldVars, child, killer, dirs, mounts, attempted>>

(* NewMountpointForDevice: doesFileExist is false of every path, but Mkdir   *)
(* refuses a directory that exists.                                         *)
MakeMountpoint(g) ==
    /\ key[g] \notin dirs
    /\ Moves(g, "mkdir", "start")
    /\ dirs' = dirs \cup {key[g]}
    /\ UNCHANGED <<trackerVars, worldVars, child, killer, mounts, attempted>>

(* It also fails where the directory cannot be made.                         *)
MakeMountpointFails(g) == GivesUp(g, "mkdir")

(* cmd.Start and the goroutine that kills, or a start that fails: the        *)
(* deferred removal of the mountpoint is next.                               *)
StartAdbfs(g) ==
    /\ Moves(g, "start", "wait")
    /\ child' = [child EXCEPT ![g] = "starting"]
    /\ killer' = killer \cup {g}
    /\ UNCHANGED <<trackerVars, worldVars, dirs, mounts, attempted>>

(* Mutant of StartFails: the removal is deferred only when adbfs has         *)
(* started.                                                                  *)
StartFailsLeaving(g) == GivesUp(g, "start")

StartFails(g) ==
    /\ Moves(g, "start", "remove")
    /\ UNCHANGED <<trackerVars, worldVars, child, killer, dirs, mounts, attempted>>

(* Mutant of WaitReturns: mountDevice does not wait for the adbfs.           *)
WaitReturnsAtOnce(g) ==
    /\ Moves(g, "wait", "remove")
    /\ UNCHANGED <<trackerVars, worldVars, child, killer, dirs, mounts, attempted>>

(* cmd.Wait returns once the adbfs is gone, and the handlers are fired.      *)
WaitReturns(g) ==
    /\ child[g] = "gone"
    /\ Moves(g, "wait", "remove")
    /\ UNCHANGED <<trackerVars, worldVars, child, killer, dirs, mounts, attempted>>

(* RemoveLoggingError: a mountpoint that is still mounted stays.             *)
RemoveMountpoint(g) ==
    /\ Moves(g, "remove", "none")
    /\ dirs' = IF key[g] \in mounts THEN dirs ELSE dirs \ {key[g]}
    /\ Return(g)
    /\ UNCHANGED <<worldVars, child, killer, mounts, attempted>>

(* The context of g is done: its adbfs is killed, if it still runs.          *)
Kill(g) ==
    /\ g \in killer
    /\ ContextDone(g)
    /\ killer' = killer \ {g}
    /\ child' = [child EXCEPT ![g] = "gone"]
    /\ \/ UNCHANGED mounts
       \/ child[g] = "mounted" /\ mounts' = mounts \ {key[g]}
    /\ UNCHANGED <<trackerVars, worldVars, stage, dirs, attempted>>

SweepProcess(g) == Sweep(g) /\ UNCHANGED <<worldVars, mountVars, attempted>>

-----------------------------------------------------------------------------
(* The adbfs of goroutine g.                                                 *)

AdbfsMounts(g) ==
    /\ child[g] = "starting"
    /\ child' = [child EXCEPT ![g] = "mounted"]
    /\ mounts' = mounts \cup {key[g]}
    /\ UNCHANGED <<trackerVars, worldVars, stage, killer, dirs, attempted>>

(* It ends: it could not mount, its device is gone, it was unmounted or got  *)
(* a signal.  Its last Unmount may have failed.                              *)
AdbfsExits(g) ==
    /\ child[g] \in {"starting", "mounted"}
    /\ child' = [child EXCEPT ![g] = "gone"]
    /\ \/ UNCHANGED mounts
       \/ child[g] = "mounted" /\ mounts' = mounts \ {key[g]}
    /\ UNCHANGED <<trackerVars, worldVars, stage, killer, dirs, attempted>>

-----------------------------------------------------------------------------

MountDevice(g) ==
    \/ GetDeviceInfo(g)
    \/ GivesUp(g, "info")
    \/ MakeMountpoint(g)
    \/ MakeMountpointFails(g)
    \/ StartAdbfs(g)
    \/ StartFails(g)
    \/ WaitReturns(g)
    \/ RemoveMountpoint(g)
    \/ SweepProcess(g)

Main == HandleEvent \/ Stop \/ Exit

AutomountNext ==
    \/ Main
    \/ \E g \in Goroutines :
          MountDevice(g) \/ Kill(g) \/ AdbfsMounts(g) \/ AdbfsExits(g)
    \/ \E s \in Serials : Plug(s)
    \/ Restart

(* Goroutines get to run, GetDeviceInfo answers or fails, and an adbfs that  *)
(* is killed is gone.  Devices, signals and adbfs itself owe nothing.        *)
Fairness ==
    /\ WF_automountVars(Exit)
    /\ \A g \in Goroutines : WF_automountVars(MountDevice(g)) /\ WF_automountVars(Kill(g))

AutomountSpec == AutomountInit /\ [][AutomountNext]_automountVars /\ Fairness

-----------------------------------------------------------------------------

(* No adbfs outlives the automounter that started it: what killer, Wait and  *)
(* the WaitGroup are for (main.go, mountDevice; process_tracker.go).         *)
NoAdbfsAfterExit ==
    Exited => \A g \in Goroutines : child[g] \notin {"starting", "mounted"}

(* A mountpoint without a process that will remove it is one that could not  *)
(* be removed, for it is still mounted; and no running adbfs loses its        *)
(* mountpoint (main.go, mountDevice).                                        *)
Owners(s) == {g \in Alive : key[g] = s /\ stage[g] \in {"start", "wait", "remove"}}

MountpointsAreOwned ==
    /\ \A s \in dirs \ mounts : Owners(s) # {}
    /\ \A g \in Goroutines : child[g] \in {"starting", "mounted"} => g \in Owners(key[g])

(* The devices that a goroutine works for, and those whose adbfs runs.       *)
Working == {key[g] : g \in Alive}
Serving == {key[g] : g \in {h \in Goroutines : child[h] \in {"starting", "mounted"}}}

(* Whatever devices, signals and the processes of adbfs do, and wherever the *)
(* goroutines of mountDevice are, devices are mounted one worker each, from  *)
(* Go to sweep, and nothing is removed under an adbfs or left to nobody      *)
(* (main.go, mountDevice; process_tracker.go).                               *)
Mounts == INSTANCE DeviceMounts WITH
    Devices <- Keys,
    working <- Working,
    serving <- Serving,
    mountpoints <- dirs,
    mounted <- mounts,
    stopping <- shutdown

ImplementsDeviceMounts == Mounts!Spec

(* Told to stop, the automounter stops, wherever its processes are           *)
(* (main.go, mainWithExitCode; process_tracker.go, Shutdown).                *)
StopsWhenTold == ~Looping ~> Exited

(* README.md:9: "Automounter daemon that detects when devices are connected   *)
(* and mounts them".  When it has seen all events and a device is connected   *)
(* that no process works for, it has at least tried (main.go,                 *)
(* mainWithExitCode, which drops the error of Go).                           *)
ConnectedIsTried ==
    \A s \in online :
        Looping /\ events = <<>> /\ processesByKey[s] = NoProcess => s \in attempted
=============================================================================
