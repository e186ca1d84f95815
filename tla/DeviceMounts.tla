---------------------------- MODULE DeviceMounts ----------------------------
(***************************************************************************)
(* What adbfs-automount promises of the devices it mounts                  *)
(* (src/cmd/adbfs-automount/main.go).  One worker at a time has a device,  *)
(* and only its worker makes, uses and removes the device's mountpoint.  A *)
(* worker does not go away under a running adbfs, and leaves a mountpoint  *)
(* behind only if it is still mounted.  Told to stop, the automounter      *)
(* takes on no device, and it is over only when every worker is gone.      *)
(***************************************************************************)

CONSTANT Devices

VARIABLES
    working,      \* the devices that have a worker
    serving,      \* the devices whose adbfs runs
    mountpoints,  \* the devices whose mountpoint exists
    mounted,      \* the devices with a filesystem on their mountpoint
    stopping      \* told to stop: "no", "waiting" for the workers, "done"

vars == <<working, serving, mountpoints, mounted, stopping>>

Init ==
    /\ working = {}
    /\ serving = {}
    /\ mountpoints = {}
    /\ mounted = {}
    /\ stopping = "no"

TakeOn(d) ==
    /\ stopping = "no"
    /\ d \notin working
    /\ working' = working \cup {d}
    /\ UNCHANGED <<serving, mountpoints, mounted, stopping>>

MakeMountpoint(d) ==
    /\ d \in working
    /\ d \notin mountpoints
    /\ mountpoints' = mountpoints \cup {d}
    /\ UNCHANGED <<working, serving, mounted, stopping>>

StartServing(d) ==
    /\ d \in working \ serving
    /\ d \in mountpoints
    /\ serving' = serving \cup {d}
    /\ UNCHANGED <<working, mountpoints, mounted, stopping>>

Mount(d) ==
    /\ d \in serving
    /\ mounted' = mounted \cup {d}
    /\ UNCHANGED <<working, serving, mountpoints, stopping>>

(* An adbfs that ends may leave its mount behind.                            *)
EndServing(d) ==
    /\ d \in serving
    /\ serving' = serving \ {d}
    /\ mounted' \in {mounted, mounted \ {d}}
    /\ UNCHANGED <<working, mountpoints, stopping>>

RemoveMountpoint(d) ==
    /\ d \in working \ serving
    /\ d \in mountpoints \ mounted
    /\ mountpoints' = mountpoints \ {d}
    /\ UNCHANGED <<working, serving, mounted, stopping>>

LetGo(d) ==
    /\ d \in working \ serving
    /\ d \notin mountpoints \ mounted
    /\ working' = working \ {d}
    /\ UNCHANGED <<serving, mountpoints, mounted, stopping>>

Stop ==
    /\ stopping = "no"
    /\ stopping' = "waiting"
    /\ UNCHANGED <<working, serving, mountpoints, mounted>>

Exit ==
    /\ stopping = "waiting"
    /\ working = {}
    /\ stopping' = "done"
    /\ UNCHANGED <<working, serving, mountpoints, mounted>>

(* It is started again, over the mountpoints that are left.                  *)
Restart ==
    /\ stopping = "done"
    /\ stopping' = "no"
    /\ UNCHANGED <<working, serving, mountpoints, mounted>>

Next ==
    \/ \E d \in Devices :
          \/ TakeOn(d) \/ LetGo(d)
          \/ MakeMountpoint(d) \/ RemoveMountpoint(d)
          \/ StartServing(d) \/ Mount(d) \/ EndServing(d)
    \/ Stop \/ Exit \/ Restart

Spec == Init /\ [][Next]_vars
=============================================================================
