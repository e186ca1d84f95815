------------------------ MODULE MountLifecycleProofs ------------------------
(***************************************************************************)
(* Proofs about the life of a mount, for any number of FUSE requests: one  *)
(* Unmount, no panic, and what may still be mounted when main returns.     *)
(* The invariant says who may be where once mounted and unmounted are set. *)
(***************************************************************************)
EXTENDS MountLifecycle, TLAPS

(* Nobody is past the checks before the filesystem is mounted.              *)
PastChecks ==
    /\ mounted => created
    /\ unmounted => mounted
    /\ pc[Main] \in {"mounting", "starting"} => ~mounted
    /\ pc[Main] \in {"starting", "ready", "announced"} => created
    /\ pc[Main] \in {"announced", "loop", "exited"} \cup UnmountPCs => mounted
    /\ \A h \in Handlers : pc[h] \in {"checked"} \cup UnmountPCs => mounted

(* The flag unmounted goes to one actor, which unmounts and is done.        *)
OneUnmounter ==
    /\ \A a \in Actors : pc[a] = "unmounting" => unmounted /\ unmounts = 0
    /\ \A a, b \in Actors : pc[a] = "unmounting" /\ pc[b] = "unmounting" => a = b
    /\ unmounts > 0 => unmounts = 1 /\ unmounted

(* Once it has, the filesystem is gone, or could not be unmounted.          *)
UnmountedIsGone ==
    /\ pc[Main] = "exited" => unmounted
    /\ unmounted =>
         \/ ~kernelMount
         \/ failed
         \/ \E a \in Actors : pc[a] = "unmounting"

Invariant ==
    /\ TypeOK
    /\ NeverPanics
    /\ PastChecks
    /\ OneUnmounter
    /\ UnmountedIsGone

-----------------------------------------------------------------------------

LEMMA InitInvariant == Init => Invariant
<1> SUFFICES ASSUME Init
             PROVE  Invariant
  OBVIOUS
<1> USE ActorsAssumption DEF Init
<1>1. pc[Main] = "mounting" /\ \A h \in Handlers : pc[h] = "idle"
  BY DEF Actors, Handlers
<1>2. TypeOK
  <2>1. pc \in [Actors -> MainPCs \cup HandlerPCs \cup DeviceCalls \cup UnmountPCs]
    BY DEF MainPCs, HandlerPCs
  <2>2. /\ pc[Main] \in MainPCs /\ pc[Watcher] \in HandlerPCs
        /\ \A r \in Requests : pc[r] \in HandlerPCs
    BY <1>1 DEF MainPCs, HandlerPCs, Handlers
  <2>3. /\ mounted \in BOOLEAN /\ unmounted \in BOOLEAN
        /\ created \in BOOLEAN /\ kernelMount \in BOOLEAN
        /\ serving \in {"no", "serving", "done"}
    OBVIOUS
  <2>4. /\ connected \in BOOLEAN /\ reported \in BOOLEAN /\ watching \in BOOLEAN
        /\ unmounts \in Nat
        /\ failed \in BOOLEAN /\ panicked \in BOOLEAN
    OBVIOUS
  <2>5. QED
    BY <2>1, <2>2, <2>3, <2>4 DEF TypeOK
<1>3. PastChecks
  BY <1>1 DEF PastChecks, UnmountPCs
<1>4. \A a \in Actors : pc[a] # "unmounting"
  BY <1>1 DEF Actors
<1>5. OneUnmounter
  BY <1>4 DEF OneUnmounter
<1>6. UnmountedIsGone
  BY <1>1 DEF UnmountedIsGone
<1>7. QED
  BY <1>2, <1>3, <1>5, <1>6 DEF Invariant, NeverPanics

(* Steps of one actor, outside unmountServer, that leave both flags alone.   *)
LEMMA WalkingInvariant ==
    ASSUME Invariant, NEW a \in Actors, NEW from, NEW to, Goes(a, from, to),
           from # "unmounting", to \notin {"unmounting", "exited"},
           a = Main => to \in MainPCs \cup UnmountPCs,
           a = Watcher => to \in HandlerPCs \cup UnmountPCs,
           a \in Requests => to \in HandlerPCs \cup DeviceCalls \cup UnmountPCs,
           to \notin {"mounting", "starting"},
           to \in {"ready", "announced"} => created,
           to \in {"announced", "loop", "checked"} \cup UnmountPCs => mounted,
           UNCHANGED <<bools, created, kernelMount, unmounts, failed, panicked>>,
           serving' \in {"no", "serving", "done"},
           connected' \in BOOLEAN, reported' \in BOOLEAN, watching' \in BOOLEAN
    PROVE  Invariant'
<1> USE ActorsAssumption DEF Goes, bools, Actors, Handlers
<1>1. pc' = [pc EXCEPT ![a] = to] /\ pc \in [Actors -> MainPCs \cup HandlerPCs \cup DeviceCalls \cup UnmountPCs]
  BY DEF Invariant, TypeOK
<1>2. TypeOK'
  BY <1>1 DEF Invariant, TypeOK
<1>3. PastChecks'
  BY <1>1 DEF Invariant, PastChecks
<1>4. \A b \in Actors : pc'[b] = "unmounting" <=> pc[b] = "unmounting"
  BY <1>1
<1>5. OneUnmounter'
  BY <1>4 DEF Invariant, OneUnmounter
<1>6. UnmountedIsGone'
  BY <1>1, <1>4 DEF Invariant, UnmountedIsGone
<1>7. QED
  BY <1>2, <1>3, <1>5, <1>6 DEF Invariant, NeverPanics

LEMMA UnmountServerInvariant ==
    ASSUME Invariant, NEW a \in Actors, UnmountServer(a)
    PROVE  Invariant'
<1> USE ActorsAssumption DEF bools, serverVars, deviceVars, history
<1>1. pc \in [Actors -> MainPCs \cup HandlerPCs \cup DeviceCalls \cup UnmountPCs]
  BY DEF Invariant, TypeOK
<1>2. a # Main => a \in Handlers
  BY DEF Actors
<1>3. CASE CheckMounted(a)
  <2>1. created /\ mounted
    BY <1>2, <1>3 DEF CheckMounted, Goes, Invariant, PastChecks, UnmountPCs
  <2>2. Goes(a, "enter", "swap") /\ panicked' = FALSE /\ panicked = FALSE
    BY <1>3, <2>1 DEF CheckMounted, Invariant, NeverPanics, TypeOK
  <2>3. QED
    BY <1>3, <2>1, <2>2, WalkingInvariant
       DEF CheckMounted, MainPCs, HandlerPCs, UnmountPCs, Invariant, TypeOK
<1>4. CASE Swap(a)
  <2>1. mounted /\ created
    BY <1>2, <1>4 DEF Swap, Goes, Invariant, PastChecks, UnmountPCs
  <2>2. /\ pc[a] = "swap"
        /\ pc' = [pc EXCEPT ![a] = IF unmounted THEN Done(a) ELSE "unmounting"]
    BY <1>4 DEF Swap, Goes
  <2>3. TypeOK'
    BY <1>1, <1>2, <1>4, <2>2
       DEF Swap, Invariant, TypeOK, Done, MainPCs, HandlerPCs, UnmountPCs, Handlers, Actors
  <2>4. PastChecks'
    BY <1>1, <1>2, <1>4, <2>1, <2>2
       DEF Swap, Invariant, PastChecks, Done, UnmountPCs, Handlers, Actors
  <2>5. OneUnmounter' /\ UnmountedIsGone'
    <3>1. CASE unmounted
      <4>1. \A b \in Actors : pc'[b] = "unmounting" <=> pc[b] = "unmounting"
        BY <1>1, <2>2, <3>1 DEF Done
      <4>2. QED
        BY <1>4, <3>1, <4>1 DEF Swap, Invariant, OneUnmounter, UnmountedIsGone
    <3>2. CASE ~unmounted
      <4>1. \A b \in Actors : pc[b] # "unmounting"
        BY <3>2 DEF Invariant, OneUnmounter
      <4>2. \A b \in Actors : pc'[b] = "unmounting" <=> b = a
        BY <1>1, <2>2, <3>2, <4>1
      <4>3. unmounts = 0 /\ unmounts' = 0
        BY <1>4, <3>2 DEF Swap, Invariant, OneUnmounter, TypeOK
      <4>4. QED
        BY <1>4, <4>2, <4>3 DEF Swap, OneUnmounter, UnmountedIsGone
    <3>3. QED
      BY <3>1, <3>2
  <2>6. QED
    BY <1>4, <2>3, <2>4, <2>5 DEF Swap, Invariant, NeverPanics
<1>5. ASSUME NEW ok \in BOOLEAN, Unmount(a, ok)
      PROVE  Invariant'
  <2>1. /\ pc[a] = "unmounting" /\ unmounted /\ unmounts = 0 /\ mounted /\ created
        /\ \A b \in Actors : pc[b] = "unmounting" => b = a
    BY <1>5 DEF Unmount, Goes, Invariant, OneUnmounter, PastChecks
  <2>2. pc' = [pc EXCEPT ![a] = Done(a)]
    BY <1>5 DEF Unmount, Goes
  <2>3. \A b \in Actors : pc'[b] # "unmounting"
    BY <1>1, <2>1, <2>2 DEF Done
  <2>4. TypeOK'
    BY <1>1, <1>2, <1>5, <2>2
       DEF Unmount, Invariant, TypeOK, Done, MainPCs, HandlerPCs, UnmountPCs, Handlers, Actors
  <2>5. PastChecks'
    BY <1>1, <1>2, <1>5, <2>1, <2>2
       DEF Unmount, Invariant, PastChecks, Done, UnmountPCs, Handlers, Actors
  <2>6. OneUnmounter' /\ UnmountedIsGone'
    BY <1>5, <2>1, <2>3 DEF Unmount, OneUnmounter, UnmountedIsGone
  <2>7. QED
    BY <1>5, <2>4, <2>5, <2>6 DEF Unmount, Invariant, NeverPanics
<1>6. QED
  BY <1>3, <1>4, <1>5 DEF UnmountServer

LEMMA NextInvariant == Invariant /\ [Next]_vars => Invariant'
<1> SUFFICES ASSUME Invariant, [Next]_vars
             PROVE  Invariant'
  OBVIOUS
<1> USE ActorsAssumption DEF bools, serverVars, deviceVars, history
<1>1. CASE MountRoot
  <2>1. pc[Main] = "mounting" /\ ~mounted /\ ~unmounted
    BY <1>1 DEF MountRoot, Goes, Invariant, PastChecks
  <2>2. pc' = [pc EXCEPT ![Main] = "starting"] /\ pc \in [Actors -> MainPCs \cup HandlerPCs \cup DeviceCalls \cup UnmountPCs]
    BY <1>1 DEF MountRoot, Goes, Invariant, TypeOK
  <2>3. \A b \in Actors : pc'[b] = "unmounting" <=> pc[b] = "unmounting"
    BY <2>1, <2>2
  <2>4. TypeOK'
    BY <1>1, <2>2 DEF MountRoot, Invariant, TypeOK, MainPCs, Actors, Handlers
  <2>5. PastChecks'
    BY <1>1, <2>1, <2>2 DEF MountRoot, Invariant, PastChecks, Actors, Handlers, UnmountPCs
  <2>6. OneUnmounter' /\ UnmountedIsGone'
    BY <1>1, <2>1, <2>2, <2>3 DEF MountRoot, Invariant, OneUnmounter, UnmountedIsGone, Actors
  <2>7. QED
    BY <1>1, <2>4, <2>5, <2>6 DEF MountRoot, Invariant, NeverPanics
<1>2. CASE ServerReady
  <2>1. created
    BY <1>2 DEF ServerReady, Goes, Invariant, PastChecks
  <2>2. QED
    BY <1>2, <2>1, WalkingInvariant
       DEF ServerReady, Actors, MainPCs, UnmountPCs, Invariant, TypeOK
<1>3. CASE SetMounted
  <2>1. /\ created /\ mounted' = TRUE /\ pc[Main] = "ready"
        /\ pc' = [pc EXCEPT ![Main] = "announced"]
        /\ pc \in [Actors -> MainPCs \cup HandlerPCs \cup DeviceCalls \cup UnmountPCs]
    BY <1>3 DEF SetMounted, Goes, Invariant, PastChecks, TypeOK
  <2>2. \A b \in Actors : pc'[b] = "unmounting" <=> pc[b] = "unmounting"
    BY <2>1
  <2>3. TypeOK'
    BY <1>3, <2>1 DEF SetMounted, Invariant, TypeOK, MainPCs, Actors, Handlers
  <2>4. PastChecks'
    BY <1>3, <2>1 DEF SetMounted, Invariant, PastChecks, Actors
  <2>5. OneUnmounter' /\ UnmountedIsGone'
    BY <1>3, <2>1, <2>2 DEF SetMounted, Invariant, OneUnmounter, UnmountedIsGone, Actors
  <2>6. QED
    BY <1>3, <2>3, <2>4, <2>5 DEF SetMounted, Invariant, NeverPanics
<1>4. ASSUME NEW to \in {"loop", "enter"}, Goes(Main, IF to = "loop" THEN "announced" ELSE "loop", to),
             UNCHANGED <<bools, serverVars, deviceVars, history>>
      PROVE  Invariant'
  <2>1. mounted
    BY <1>4 DEF Goes, Invariant, PastChecks
  <2>2. QED
    BY <1>4, <2>1, WalkingInvariant DEF Actors, MainPCs, UnmountPCs, Invariant, TypeOK
<1>5. CASE Notify \/ Signal \/ ServerDone
  BY <1>4, <1>5 DEF Notify, Signal, ServerDone
<1>6. CASE Dies
  BY <1>6, WalkingInvariant DEF Dies, Actors, MainPCs, UnmountPCs, Invariant, TypeOK
<1>7. ASSUME NEW a \in Actors, UnmountServer(a)
      PROVE  Invariant'
  BY <1>7, UnmountServerInvariant
<1>8. CASE WatcherReports
  BY <1>8, WalkingInvariant
     DEF WatcherReports, Actors, Handlers, HandlerPCs, UnmountPCs, Invariant, TypeOK
<1>9. ASSUME NEW r \in Requests,
             (\E call \in DeviceCalls \ {"ReadAll"} : CallDevice(r, call))
             \/ CallReturns(r) \/ CallFindsNoDevice(r) \/ ReturnUnreported(r)
      PROVE  Invariant'
  <2>1. PICK from \in {"idle", "unreported"} \cup DeviceCalls,
             to \in {"idle", "called", "unreported"} \cup DeviceCalls :
            Goes(r, from, to)
    BY <1>9 DEF CallDevice, CallReturns, CallFindsNoDevice, ReturnUnreported, DeviceCalls
  <2>2. UNCHANGED <<bools, serverVars, deviceVars, history>>
    BY <1>9 DEF CallDevice, CallReturns, CallFindsNoDevice, ReturnUnreported
  <2>3. QED
    BY <2>1, <2>2, WalkingInvariant
       DEF Actors, Handlers, HandlerPCs, DeviceCalls, UnmountPCs, Invariant, TypeOK
<1>10. ASSUME NEW h \in Handlers, ReadMounted(h) \/ ReadUnmounted(h)
       PROVE  Invariant'
  <2>1. h \in Actors /\ h # Main
    BY DEF Actors, Handlers
  <2>2. CASE ReadMounted(h)
    BY <2>1, <2>2, WalkingInvariant
       DEF ReadMounted, HandlerPCs, UnmountPCs, Invariant, TypeOK
  <2>3. CASE ReadUnmounted(h)
    <3>1. mounted
      BY <2>3 DEF ReadUnmounted, Goes, Invariant, PastChecks
    <3>2. QED
      BY <2>1, <2>3, <3>1, WalkingInvariant
         DEF ReadUnmounted, HandlerPCs, UnmountPCs, Invariant, TypeOK
  <2>4. QED
    BY <1>10, <2>2, <2>3
<1>11. CASE ServeEnds \/ DeviceChanges \/ WatcherCloses \/ UNCHANGED vars
  <2>1. /\ UNCHANGED <<bools, created, kernelMount, pc, history>>
        /\ serving' \in {"no", "serving", "done"}
        /\ connected' \in BOOLEAN /\ reported' \in BOOLEAN /\ watching' \in BOOLEAN
    BY <1>11 DEF ServeEnds, DeviceChanges, WatcherCloses, vars, Invariant, TypeOK
  <2>2. QED
    BY <2>1 DEF Invariant, TypeOK, NeverPanics, PastChecks, OneUnmounter, UnmountedIsGone
<1>12. CASE UserUnmounts
  BY <1>12 DEF UserUnmounts, Invariant, TypeOK, NeverPanics, PastChecks, OneUnmounter,
               UnmountedIsGone
<1>13. QED
  <2>1. MainGoes => \/ MountRoot \/ ServerReady \/ SetMounted \/ Notify \/ ServerDone
                    \/ UnmountServer(Main)
    BY DEF MainGoes
  <2>2. Main \in Actors /\ Handlers \subseteq Actors
    BY DEF Actors
  <2>3. QED
    BY <1>1, <1>2, <1>3, <1>5, <1>6, <1>7, <1>8, <1>9, <1>10, <1>11, <1>12, <2>1, <2>2
       DEF Next, HandleDeviceDisconnected

-----------------------------------------------------------------------------

(* The state has its types (cmd/adbfs/main.go).                              *)
THEOREM TypeCorrect == Spec => []TypeOK
<1>1. Invariant => TypeOK
  BY DEF Invariant
<1>2. QED
  BY <1>1, InitInvariant, NextInvariant, PTL DEF Spec

(* However many goroutines find the device gone, one Unmount is called       *)
(* (main.go, unmountServer).                                                 *)
THEOREM OneUnmount == Spec => []UnmountedOnce
<1>1. Invariant => UnmountedOnce
  BY DEF Invariant, TypeOK, OneUnmounter, UnmountedOnce
<1>2. QED
  BY <1>1, InitInvariant, NextInvariant, PTL DEF Spec

(* No disconnection, however early, makes unmountServer panic (main.go,      *)
(* handleDeviceDisconnected).                                                *)
THEOREM NoPanic == Spec => []NeverPanics
<1>1. Invariant => NeverPanics
  BY DEF Invariant
<1>2. QED
  BY <1>1, InitInvariant, NextInvariant, PTL DEF Spec

(* When main returns, a filesystem that is still mounted is one that could   *)
(* not be unmounted, or that a handler is unmounting (main.go, main).        *)
THEOREM ExitUnmounts == Spec => []ExitLeavesNoMount
<1>1. Invariant => ExitLeavesNoMount
  BY DEF Invariant, UnmountedIsGone, ExitLeavesNoMount, Actors
<1>2. QED
  BY <1>1, InitInvariant, NextInvariant, PTL DEF Spec
=============================================================================
