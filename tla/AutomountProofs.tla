-------------------------- MODULE AutomountProofs --------------------------
(***************************************************************************)
(* Proofs about the automounter and its ProcessTracker, for any set of     *)
(* devices and any finite set of goroutines.  The tracker's invariant is   *)
(* proved first, of its own actions; the mountpoints rest on it.           *)
(***************************************************************************)
EXTENDS Automount, FiniteSetTheorems, TLAPS

(* The table and the goroutines agree.                                      *)
TableIsAlive ==
    /\ \A k \in Keys : processesByKey[k] # NoProcess =>
           processesByKey[k] \in Alive /\ key[processesByKey[k]] = k
    /\ \A g \in Alive : processesByKey[key[g]] = g

TrackerInvariant ==
    /\ TrackerTypeOK
    /\ TableIsAlive
    /\ \A g \in Goroutines : state[g] = "returned" => g \in canceled
    /\ processWaiter = Cardinality(Alive)
    /\ ShutdownIsComplete
    /\ SweepNeverPanics

-----------------------------------------------------------------------------

LEMMA AliveIsFinite == IsFiniteSet(Alive)
  BY GoroutinesAssumption, FS_Subset DEF Alive

(* The invariant of a tracker that was just made, whatever its goroutines     *)
(* were started for before.                                                 *)
LEMMA NewTrackerInvariant ==
    ASSUME processesByKey = [k \in Keys |-> NoProcess], processWaiter = 0,
           state = [g \in Goroutines |-> "free"], key \in [Goroutines -> Keys],
           canceled = {}, shutdown = "no", panicked = FALSE
    PROVE  TrackerInvariant
<1>1. Alive = {}
  BY DEF Alive
<1>2. Cardinality(Alive) = 0
  BY <1>1, FS_EmptySet
<1>3. QED
  BY <1>1, <1>2
     DEF TrackerInvariant, TrackerTypeOK, TableIsAlive, ShutdownIsComplete, SweepNeverPanics

LEMMA GoInvariant ==
    ASSUME TrackerInvariant, NEW k \in Keys, NEW g \in Goroutines, Go(k, g)
    PROVE  TrackerInvariant'
<1> USE NoProcessAssumption
<1>1. /\ state' = [state EXCEPT ![g] = "running"] /\ state \in [Goroutines -> {"free", "running", "returned"}]
      /\ key' = [key EXCEPT ![g] = k] /\ key \in [Goroutines -> Keys]
      /\ processesByKey' = [processesByKey EXCEPT ![k] = g]
      /\ processesByKey \in [Keys -> Goroutines \cup {NoProcess}]
      /\ processesByKey[k] = NoProcess
      /\ state[g] = "free" /\ shutdown = "no"
  BY DEF Go, MayGo, TrackerInvariant, TrackerTypeOK
<1>2. Alive' = Alive \cup {g} /\ g \notin Alive
  BY <1>1 DEF Alive
<1>3. Cardinality(Alive') = Cardinality(Alive) + 1
  BY <1>2, AliveIsFinite, FS_AddElement
<1>4. TrackerTypeOK'
  BY <1>1 DEF Go, TrackerInvariant, TrackerTypeOK
<1>5. TableIsAlive'
  <2>1. \A h \in Alive : h # g /\ key[h] # k
    BY <1>1, <1>2 DEF TrackerInvariant, TableIsAlive, Alive
  <2>2. \A h \in Alive' : processesByKey'[key'[h]] = h
    BY <1>1, <1>2, <2>1 DEF TrackerInvariant, TableIsAlive, Alive
  <2>3. ASSUME NEW j \in Keys, processesByKey'[j] # NoProcess
        PROVE  processesByKey'[j] \in Alive' /\ key'[processesByKey'[j]] = j
    <3>1. CASE j = k
      BY <1>1, <1>2, <3>1
    <3>2. CASE j # k
      BY <1>1, <1>2, <2>1, <2>3, <3>2 DEF TrackerInvariant, TableIsAlive
    <3>3. QED
      BY <3>1, <3>2
  <2>4. QED
    BY <2>2, <2>3 DEF TableIsAlive
<1>6. \A h \in Goroutines : state'[h] = "returned" => h \in canceled'
  BY <1>1 DEF Go, TrackerInvariant
<1>7. QED
  BY <1>1, <1>3, <1>4, <1>5, <1>6
     DEF Go, TrackerInvariant, ShutdownIsComplete, SweepNeverPanics

LEMMA ReturnInvariant ==
    ASSUME TrackerInvariant, NEW g \in Goroutines, Return(g)
    PROVE  TrackerInvariant'
<1>1. state' = [state EXCEPT ![g] = "returned"] /\ state[g] = "running"
      /\ state \in [Goroutines -> {"free", "running", "returned"}]
  BY DEF Return, TrackerInvariant, TrackerTypeOK
<1>2. Alive' = Alive
  BY <1>1 DEF Alive
<1>3. TrackerTypeOK'
  BY <1>1 DEF Return, TrackerInvariant, TrackerTypeOK
<1>4. TableIsAlive'
  BY <1>2 DEF Return, TrackerInvariant, TableIsAlive
<1>5. \A h \in Goroutines : state'[h] = "returned" => h \in canceled'
  BY <1>1 DEF Return, TrackerInvariant
<1>6. QED
  BY <1>2, <1>3, <1>4, <1>5 DEF Return, TrackerInvariant, ShutdownIsComplete, SweepNeverPanics

LEMMA SweepInvariant ==
    ASSUME TrackerInvariant, NEW g \in Goroutines, Sweep(g)
    PROVE  TrackerInvariant'
<1> USE NoProcessAssumption
<1>1. /\ state[g] = "returned" /\ g \in Alive /\ key[g] \in Keys
      /\ state' = [state EXCEPT ![g] = "free"]
      /\ state \in [Goroutines -> {"free", "running", "returned"}]
      /\ processesByKey \in [Keys -> Goroutines \cup {NoProcess}]
      /\ key' = key
  BY DEF Sweep, Alive, TrackerInvariant, TrackerTypeOK
<1>2. processesByKey[key[g]] = g /\ g # NoProcess /\ ContextDone(g)
  BY <1>1 DEF TrackerInvariant, TableIsAlive, ContextDone
<1>3. /\ panicked' = panicked
      /\ processesByKey' = [processesByKey EXCEPT ![key[g]] = NoProcess]
      /\ processWaiter' = processWaiter - 1
  BY <1>2 DEF Sweep, TrackerInvariant, TrackerTypeOK
<1>4. Alive' = Alive \ {g}
  BY <1>1 DEF Alive
<1>5. Cardinality(Alive') = Cardinality(Alive) - 1 /\ Cardinality(Alive') \in Nat
  BY <1>1, <1>4, AliveIsFinite, FS_RemoveElement, FS_CardinalityType
<1>6. TrackerTypeOK'
  BY <1>1, <1>3, <1>5 DEF Sweep, TrackerInvariant, TrackerTypeOK
<1>7. TableIsAlive'
  BY <1>1, <1>2, <1>3, <1>4 DEF TrackerInvariant, TableIsAlive, Alive
<1>8. \A h \in Goroutines : state'[h] = "returned" => h \in canceled'
  BY <1>1 DEF Sweep, TrackerInvariant
<1>9. QED
  BY <1>3, <1>4, <1>5, <1>6, <1>7, <1>8
     DEF Sweep, TrackerInvariant, ShutdownIsComplete, SweepNeverPanics

LEMMA ShutdownInvariant ==
    ASSUME TrackerInvariant, Shutdown \/ ShutdownReturns
    PROVE  TrackerInvariant'
<1>1. /\ UNCHANGED <<processesByKey, processWaiter, state, key, canceled, panicked>>
      /\ shutdown' \in {"waiting", "done"}
      /\ shutdown' = "done" => processWaiter = 0
  BY DEF Shutdown, ShutdownReturns
<1>2. Alive' = Alive
  BY <1>1 DEF Alive
<1>3. shutdown' = "done" => Alive = {}
  BY <1>1, AliveIsFinite, FS_EmptySet DEF TrackerInvariant
<1>4. TrackerTypeOK'
  BY <1>1 DEF TrackerInvariant, TrackerTypeOK
<1>5. QED
  BY <1>1, <1>2, <1>3, <1>4
     DEF TrackerInvariant, TableIsAlive, ShutdownIsComplete, SweepNeverPanics

LEMMA IdleTrackerInvariant ==
    ASSUME TrackerInvariant, UNCHANGED trackerVars
    PROVE  TrackerInvariant'
  BY DEF trackerVars, TrackerInvariant, TrackerTypeOK, TableIsAlive, Alive,
         ShutdownIsComplete, SweepNeverPanics

LEMMA TrackerNextInvariant == TrackerInvariant /\ [TrackerNext]_trackerVars => TrackerInvariant'
  BY GoInvariant, ReturnInvariant, SweepInvariant, ShutdownInvariant, IdleTrackerInvariant
     DEF TrackerNext, GoFails

LEMMA OneProcess == TrackerInvariant => OneProcessPerKey
  BY DEF TrackerInvariant, TableIsAlive, OneProcessPerKey

-----------------------------------------------------------------------------
(* The automounter.                                                          *)

Holding == {"start", "wait", "remove"}

(* Where mountDevice is, and what it has by then.                            *)
StagesHold ==
    /\ \A g \in Goroutines : stage[g] # "none" => state[g] = "running"
    /\ \A g \in Goroutines : stage[g] \in Holding => key[g] \in dirs
    /\ \A g \in Goroutines : child[g] \in {"starting", "mounted"} => stage[g] = "wait"
    /\ \A s \in dirs \ mounts :
          \E g \in Goroutines : key[g] = s /\ stage[g] \in Holding

AutomountInvariant ==
    /\ TrackerInvariant
    /\ AutomountTypeOK
    /\ StagesHold

LEMMA AutomountInitInvariant == AutomountInit => AutomountInvariant
<1> SUFFICES ASSUME AutomountInit
             PROVE  AutomountInvariant
  OBVIOUS
<1>1. TrackerInvariant
  BY NewTrackerInvariant DEF AutomountInit, TrackerInit
<1>2. AutomountTypeOK
  <2>1. events \in Seq(Serials \X BOOLEAN) /\ Len(events) <= MaxEvents
    BY MaxEventsAssumption DEF AutomountInit
  <2>2. TrackerTypeOK
    BY <1>1 DEF TrackerInvariant
  <2>3. QED
    BY <2>1, <2>2 DEF AutomountInit, AutomountTypeOK
<1>3. StagesHold
  BY DEF AutomountInit, StagesHold, Holding
<1>4. QED
  BY <1>1, <1>2, <1>3 DEF AutomountInvariant

(* Steps of mountDevice that leave the tracker alone.                        *)
LEMMA MountDeviceInvariant ==
    ASSUME AutomountInvariant, NEW g \in Goroutines,
           \/ GetDeviceInfo(g) \/ MakeMountpoint(g) \/ StartAdbfs(g) \/ StartFails(g)
           \/ WaitReturns(g)
    PROVE  AutomountInvariant'
<1> USE DEF worldVars, Holding
<1>1. TrackerInvariant'
  BY IdleTrackerInvariant
     DEF AutomountInvariant, GetDeviceInfo, MakeMountpoint, StartAdbfs, StartFails, WaitReturns
<1>2. UNCHANGED <<trackerVars, online, events, attempted>>
  BY DEF GetDeviceInfo, MakeMountpoint, StartAdbfs, StartFails, WaitReturns
<1>3. stage \in [Goroutines -> {"none", "info", "mkdir"} \cup Holding]
  BY DEF AutomountInvariant, AutomountTypeOK
<1>4. AutomountTypeOK'
  <2>1. TrackerTypeOK' /\ AutomountTypeOK
    BY <1>1 DEF TrackerInvariant, AutomountInvariant
  <2>2. /\ stage' \in [Goroutines -> {"none", "info", "mkdir", "start", "wait", "remove"}]
        /\ child' \in [Goroutines -> {"none", "starting", "mounted", "gone"}]
    BY <2>1 DEF AutomountTypeOK, Moves, GetDeviceInfo, MakeMountpoint, StartAdbfs, StartFails,
                WaitReturns
  <2>3. killer' \subseteq Goroutines /\ mounts' = mounts
    BY <2>1 DEF AutomountTypeOK, GetDeviceInfo, MakeMountpoint, StartAdbfs, StartFails, WaitReturns
  <2>4. dirs' \subseteq Serials /\ dirs \subseteq dirs'
    BY <2>1 DEF AutomountTypeOK, TrackerTypeOK, Serials,
                GetDeviceInfo, MakeMountpoint, StartAdbfs, StartFails, WaitReturns
  <2>5. QED
    BY <1>2, <2>1, <2>2, <2>3, <2>4 DEF AutomountTypeOK
<1>5. StagesHold'
  <2>1. CASE GetDeviceInfo(g)
    BY <1>3, <2>1 DEF AutomountInvariant, AutomountTypeOK, StagesHold, trackerVars, Moves, GetDeviceInfo
  <2>2. CASE MakeMountpoint(g)
    BY <1>3, <2>2 DEF AutomountInvariant, AutomountTypeOK, StagesHold, trackerVars, Moves, MakeMountpoint
  <2>3. CASE StartAdbfs(g)
    BY <1>3, <2>3 DEF AutomountInvariant, AutomountTypeOK, StagesHold, trackerVars, Moves, StartAdbfs
  <2>4. CASE StartFails(g)
    BY <1>3, <2>4 DEF AutomountInvariant, AutomountTypeOK, StagesHold, trackerVars, Moves, StartFails
  <2>5. CASE WaitReturns(g)
    BY <1>3, <2>5 DEF AutomountInvariant, AutomountTypeOK, StagesHold, trackerVars, Moves, WaitReturns
  <2>6. QED
    BY <2>1, <2>2, <2>3, <2>4, <2>5
<1>6. QED
  BY <1>1, <1>4, <1>5 DEF AutomountInvariant

(* mountDevice returns, having removed its mountpoint or not made one.       *)
LEMMA MountDeviceReturns ==
    ASSUME AutomountInvariant, NEW g \in Goroutines,
           GivesUp(g, "info") \/ MakeMountpointFails(g) \/ RemoveMountpoint(g)
    PROVE  AutomountInvariant'
<1> USE DEF worldVars, Holding
<1>1. Return(g) /\ UNCHANGED <<online, events, child, killer, mounts, attempted>>
  BY DEF GivesUp, MakeMountpointFails, RemoveMountpoint
<1>2. TrackerInvariant'
  BY <1>1, ReturnInvariant DEF AutomountInvariant
<1>3. /\ stage' = [stage EXCEPT ![g] = "none"] /\ stage[g] \in {"info", "mkdir", "remove"}
      /\ dirs' \subseteq dirs /\ mounts \subseteq dirs' /\ dirs \ dirs' \subseteq {key[g]}
      /\ stage[g] # "remove" => dirs' = dirs
      /\ stage[g] = "remove" => dirs' = IF key[g] \in mounts THEN dirs ELSE dirs \ {key[g]}
  BY DEF GivesUp, MakeMountpointFails, RemoveMountpoint, Moves, AutomountInvariant, AutomountTypeOK
<1>4. /\ state' = [state EXCEPT ![g] = "returned"] /\ key' = key
      /\ state \in [Goroutines -> {"free", "running", "returned"}]
      /\ stage \in [Goroutines -> {"none", "info", "mkdir"} \cup Holding]
  BY <1>1 DEF Return, AutomountInvariant, AutomountTypeOK, TrackerTypeOK
<1>5. AutomountTypeOK'
  BY <1>1, <1>2, <1>3 DEF AutomountInvariant, AutomountTypeOK, TrackerInvariant
<1>6. \A h \in Goroutines : h # g /\ stage[h] # "none" /\ state[g] = "running" => key[h] # key[g]
  BY OneProcess DEF AutomountInvariant, StagesHold, OneProcessPerKey, Alive
<1>7. state[g] = "running"
  BY <1>3 DEF AutomountInvariant, StagesHold
<1>8. StagesHold'
  <2>1. \A h \in Goroutines : stage'[h] # "none" => state'[h] = "running" /\ h # g
    BY <1>3, <1>4 DEF AutomountInvariant, StagesHold
  <2>2. \A h \in Goroutines : stage'[h] \in Holding => key'[h] \in dirs'
    BY <1>3, <1>4, <1>6, <1>7 DEF AutomountInvariant, StagesHold
  <2>3. \A h \in Goroutines : child'[h] \in {"starting", "mounted"} => stage'[h] = "wait"
    BY <1>1, <1>3, <1>4 DEF AutomountInvariant, StagesHold
  <2>4. \A s \in dirs' \ mounts' :
          \E h \in Goroutines : key'[h] = s /\ stage'[h] \in Holding
    BY <1>1, <1>3, <1>4 DEF AutomountInvariant, StagesHold
  <2>5. QED
    BY <2>1, <2>2, <2>3, <2>4 DEF StagesHold
<1>9. QED
  BY <1>2, <1>5, <1>8 DEF AutomountInvariant

(* What becomes of an adbfs.                                                 *)
LEMMA AdbfsInvariant ==
    ASSUME AutomountInvariant, NEW g \in Goroutines,
           Kill(g) \/ AdbfsMounts(g) \/ AdbfsExits(g)
    PROVE  AutomountInvariant'
<1> USE DEF worldVars, Holding
<1>1. UNCHANGED <<trackerVars, online, events, attempted, stage, dirs>>
  BY DEF Kill, AdbfsMounts, AdbfsExits
<1>2. TrackerInvariant'
  BY <1>1, IdleTrackerInvariant DEF AutomountInvariant
<1>3. child[g] \in {"starting", "mounted"} => key[g] \in dirs /\ stage[g] = "wait"
  BY DEF AutomountInvariant, StagesHold
<1>4. AutomountTypeOK'
  BY <1>1, <1>2, <1>3
     DEF Kill, AdbfsMounts, AdbfsExits, AutomountInvariant, AutomountTypeOK, TrackerInvariant
<1>5. child \in [Goroutines -> {"none", "starting", "mounted", "gone"}]
  BY DEF AutomountInvariant, AutomountTypeOK
<1>6. \A h \in Goroutines : child'[h] \in {"starting", "mounted"} => child[h] \in {"starting", "mounted"}
  BY <1>5 DEF Kill, AdbfsMounts, AdbfsExits
<1>7. \A s \in dirs \ mounts' : s \in dirs \ mounts \/ (s = key[g] /\ stage[g] = "wait")
  BY <1>3 DEF Kill, AdbfsMounts, AdbfsExits
<1>8. StagesHold'
  BY <1>1, <1>6, <1>7 DEF AutomountInvariant, StagesHold, trackerVars
<1>9. QED
  BY <1>2, <1>4, <1>8 DEF AutomountInvariant

-----------------------------------------------------------------------------
(* main.                                                                     *)

LEMMA HandleEventInvariant ==
    ASSUME AutomountInvariant, HandleEvent
    PROVE  AutomountInvariant'
<1> USE DEF worldVars, mountVars, Holding
<1> DEFINE s == Head(events)[1]
<1>1. /\ events \in Seq(Serials \X BOOLEAN) /\ events # <<>> /\ Len(events) <= MaxEvents
      /\ events' = Tail(events)
  BY DEF HandleEvent, AutomountInvariant, AutomountTypeOK
<1>2. s \in Keys
  BY <1>1 DEF Serials
<1>3. events' \in Seq(Serials \X BOOLEAN) /\ Len(events') <= MaxEvents
  BY <1>1, MaxEventsAssumption
<1>4. ASSUME NEW g \in Goroutines, g \notin killer, Go(s, g),
             stage' = [stage EXCEPT ![g] = "info"], child' = [child EXCEPT ![g] = "none"],
             attempted' = IF s \in online THEN attempted \cup {s} ELSE attempted,
             UNCHANGED <<online, killer, dirs, mounts>>
      PROVE  AutomountInvariant'
  <2>1. TrackerInvariant'
    BY <1>2, <1>4, GoInvariant DEF AutomountInvariant
  <2>2. /\ state[g] = "free" /\ state' = [state EXCEPT ![g] = "running"]
        /\ key' = [key EXCEPT ![g] = s]
        /\ state \in [Goroutines -> {"free", "running", "returned"}]
        /\ key \in [Goroutines -> Keys]
        /\ stage \in [Goroutines -> {"none", "info", "mkdir"} \cup Holding]
        /\ child \in [Goroutines -> {"none", "starting", "mounted", "gone"}]
    BY <1>4 DEF Go, AutomountInvariant, AutomountTypeOK, TrackerTypeOK
  <2>3. stage[g] = "none"
    BY <2>2 DEF AutomountInvariant, StagesHold
  <2>4. AutomountTypeOK'
    BY <1>2, <1>3, <1>4, <2>1 DEF AutomountInvariant, AutomountTypeOK, TrackerInvariant, Serials
  <2>5. StagesHold'
    BY <1>4, <2>2, <2>3 DEF AutomountInvariant, StagesHold
  <2>6. QED
    BY <2>1, <2>4, <2>5 DEF AutomountInvariant
<1>5. ASSUME UNCHANGED <<trackerVars, online, mountVars, attempted>>
      PROVE  AutomountInvariant'
  <2>1. TrackerInvariant'
    BY <1>5, IdleTrackerInvariant DEF AutomountInvariant
  <2>2. AutomountTypeOK'
    BY <1>3, <1>5, <2>1 DEF AutomountInvariant, AutomountTypeOK, TrackerInvariant
  <2>3. StagesHold'
    BY <1>5 DEF AutomountInvariant, StagesHold, trackerVars
  <2>4. QED
    BY <2>1, <2>2, <2>3 DEF AutomountInvariant
<1>6. QED
  BY <1>4, <1>5 DEF HandleEvent, GoFails

LEMMA TrackerStepsInvariant ==
    ASSUME AutomountInvariant,
           \/ Stop \/ Exit
           \/ \E g \in Goroutines : SweepProcess(g)
    PROVE  AutomountInvariant'
<1> USE DEF worldVars, mountVars
<1>1. TrackerInvariant'
  BY ShutdownInvariant, SweepInvariant DEF Stop, Exit, SweepProcess, AutomountInvariant
<1>2. UNCHANGED <<key, online, events, stage, child, killer, dirs, mounts, attempted>>
  BY DEF Stop, Exit, SweepProcess, Shutdown, ShutdownReturns, Sweep
<1>3. AutomountTypeOK'
  BY <1>1, <1>2 DEF AutomountInvariant, AutomountTypeOK, TrackerInvariant
<1>4. \A h \in Goroutines : state[h] = "running" => state'[h] = "running"
  BY DEF Stop, Exit, SweepProcess, Shutdown, ShutdownReturns, Sweep, AutomountInvariant,
         AutomountTypeOK, TrackerTypeOK
<1>5. StagesHold'
  BY <1>2, <1>4 DEF AutomountInvariant, StagesHold
<1>6. QED
  BY <1>1, <1>3, <1>5 DEF AutomountInvariant

(* A device comes or goes, and the automounter is started again.             *)
LEMMA PlugInvariant ==
    ASSUME AutomountInvariant, NEW s \in Serials, Plug(s)
    PROVE  AutomountInvariant'
<1> USE DEF worldVars, mountVars
<1>1. TrackerInvariant'
  BY IdleTrackerInvariant DEF Plug, AutomountInvariant
<1>2. events' \in Seq(Serials \X BOOLEAN) /\ Len(events') <= MaxEvents
  <2>1. events \in Seq(Serials \X BOOLEAN) /\ Len(events) < MaxEvents
    BY DEF Plug, AutomountInvariant, AutomountTypeOK
  <2>2. <<s, s \in online'>> \in Serials \X BOOLEAN
    <3>1. (s \in online') \in BOOLEAN
      OBVIOUS
    <3>2. PICK b \in BOOLEAN : b = (s \in online')
      BY <3>1, Zenon
    <3>3. <<s, b>> \in Serials \X BOOLEAN
      OBVIOUS
    <3>4. QED
      BY <3>2, <3>3, Zenon
  <2>3. events' = Append(events, <<s, s \in online'>>)
    BY DEF Plug
  <2>4. PICK e \in Serials \X BOOLEAN : events' = Append(events, e)
    BY <2>2, <2>3
  <2>5. QED
    BY <2>1, <2>4, MaxEventsAssumption
<1>3. AutomountTypeOK'
  BY <1>1, <1>2 DEF Plug, AutomountInvariant, AutomountTypeOK, TrackerInvariant
<1>4. StagesHold'
  BY DEF Plug, AutomountInvariant, StagesHold, trackerVars
<1>5. QED
  BY <1>1, <1>3, <1>4 DEF AutomountInvariant

LEMMA RestartInvariant ==
    ASSUME AutomountInvariant, Restart
    PROVE  AutomountInvariant'
<1>1. TrackerInvariant'
  <2>1. key \in [Goroutines -> Keys] /\ panicked = FALSE
    BY DEF AutomountInvariant, TrackerInvariant, TrackerTypeOK, SweepNeverPanics
  <2>2. Alive' = {}
    BY DEF Restart, Alive
  <2>3. Cardinality(Alive') = 0
    BY <2>2, FS_EmptySet
  <2>4. QED
    BY <2>1, <2>2, <2>3
       DEF Restart, TrackerInvariant, TrackerTypeOK, TableIsAlive, ShutdownIsComplete,
           SweepNeverPanics
<1>2. events' \in Seq(Serials \X BOOLEAN) /\ Len(events') <= MaxEvents
  <2>1. PICK n \in 0 .. MaxEvents : events' \in [1 .. n -> Serials \X {TRUE}]
    BY DEF Restart
  <2>2. n \in Nat /\ events' \in [1 .. n -> Serials \X BOOLEAN]
    <3>1. Serials \X {TRUE} \subseteq Serials \X BOOLEAN
      OBVIOUS
    <3>2. n \in Nat
      BY MaxEventsAssumption
    <3>3. DOMAIN events' = 1 .. n /\ events' = [i \in 1 .. n |-> events'[i]]
      BY <2>1, Zenon
    <3>4. \A i \in 1 .. n : events'[i] \in Serials \X {TRUE}
      BY <2>1, Zenon
    <3>5. \A i \in 1 .. n : events'[i] \in Serials \X BOOLEAN
      BY <3>1, <3>4, Zenon
    <3>6. QED
      BY <3>2, <3>3, <3>5, Zenon
  <2>3. QED
    BY <2>1, <2>2, MaxEventsAssumption
<1>3. AutomountTypeOK'
  BY <1>1, <1>2 DEF Restart, AutomountInvariant, AutomountTypeOK, TrackerInvariant
<1>4. Alive = {}
  BY DEF Restart, Exited, AutomountInvariant, TrackerInvariant, ShutdownIsComplete
<1>5. \A g \in Goroutines : stage[g] = "none"
  BY <1>4 DEF AutomountInvariant, StagesHold, Alive
<1>6. StagesHold'
  BY <1>5 DEF Restart, AutomountInvariant, StagesHold
<1>7. QED
  BY <1>1, <1>3, <1>6 DEF AutomountInvariant

LEMMA AutomountNextInvariant ==
    AutomountInvariant /\ [AutomountNext]_automountVars => AutomountInvariant'
<1> SUFFICES ASSUME AutomountInvariant, [AutomountNext]_automountVars
             PROVE  AutomountInvariant'
  OBVIOUS
<1>1. CASE Main
  BY <1>1, HandleEventInvariant, TrackerStepsInvariant DEF Main
<1>2. ASSUME NEW g \in Goroutines, MountDevice(g)
      PROVE  AutomountInvariant'
  BY <1>2, MountDeviceInvariant, MountDeviceReturns, TrackerStepsInvariant DEF MountDevice
<1>3. ASSUME NEW g \in Goroutines, Kill(g) \/ AdbfsMounts(g) \/ AdbfsExits(g)
      PROVE  AutomountInvariant'
  BY <1>3, AdbfsInvariant
<1>4. ASSUME NEW s \in Serials, Plug(s)
      PROVE  AutomountInvariant'
  BY <1>4, PlugInvariant
<1>5. CASE Restart
  BY <1>5, RestartInvariant
<1>6. CASE UNCHANGED automountVars
  <2>1. TrackerInvariant'
    BY <1>6, IdleTrackerInvariant DEF automountVars, AutomountInvariant
  <2>2. AutomountTypeOK' /\ StagesHold'
    BY <1>6, <2>1 DEF automountVars, trackerVars, worldVars, mountVars, AutomountInvariant,
                      AutomountTypeOK, StagesHold, TrackerInvariant
  <2>3. QED
    BY <2>1, <2>2 DEF AutomountInvariant
<1>7. QED
  BY <1>1, <1>2, <1>3, <1>4, <1>5, <1>6 DEF AutomountNext

-----------------------------------------------------------------------------

(* The tracker alone: one process per key, whatever processes do             *)
(* (process_tracker.go).                                                     *)
THEOREM TrackerSafe ==
    TrackerSpec => [](OneProcessPerKey /\ SweepNeverPanics /\ ShutdownIsComplete)
<1>1. TrackerInit => TrackerInvariant
  BY NewTrackerInvariant DEF TrackerInit
<1>2. TrackerInvariant => OneProcessPerKey /\ SweepNeverPanics /\ ShutdownIsComplete
  BY OneProcess DEF TrackerInvariant
<1>3. QED
  BY <1>1, <1>2, TrackerNextInvariant, PTL DEF TrackerSpec

(* The state has its types (main.go, process_tracker.go).                    *)
THEOREM TypeCorrect == AutomountSpec => []AutomountTypeOK
<1>1. AutomountInvariant => AutomountTypeOK
  BY DEF AutomountInvariant
<1>2. QED
  BY <1>1, AutomountInitInvariant, AutomountNextInvariant, PTL DEF AutomountSpec

(* A device is mounted by one process at a time, however often it is         *)
(* connected (process_tracker.go, Go).                                       *)
THEOREM OneMountPerDevice == AutomountSpec => []OneProcessPerKey
<1>1. AutomountInvariant => OneProcessPerKey
  BY OneProcess DEF AutomountInvariant, TrackerInvariant
<1>2. QED
  BY <1>1, AutomountInitInvariant, AutomountNextInvariant, PTL DEF AutomountSpec

(* However a mount ends, its context is done before it is swept, so that     *)
(* sweep does not panic (process_tracker.go, Go and sweep).                  *)
THEOREM SweepsAreSafe == AutomountSpec => []SweepNeverPanics
<1>1. AutomountInvariant => SweepNeverPanics
  BY DEF AutomountInvariant, TrackerInvariant
<1>2. QED
  BY <1>1, AutomountInitInvariant, AutomountNextInvariant, PTL DEF AutomountSpec

(* No adbfs outlives the automounter (main.go, mountDevice).                 *)
THEOREM AdbfsEndsFirst == AutomountSpec => []NoAdbfsAfterExit
<1>1. AutomountInvariant => NoAdbfsAfterExit
  BY DEF AutomountInvariant, TrackerInvariant, ShutdownIsComplete, StagesHold,
         NoAdbfsAfterExit, Exited, Alive
<1>2. QED
  BY <1>1, AutomountInitInvariant, AutomountNextInvariant, PTL DEF AutomountSpec

(* Mountpoints are removed by the process that made them, and not under a     *)
(* running adbfs; those that are left are mounted (main.go, mountDevice).    *)
THEOREM MountpointsRemoved == AutomountSpec => []MountpointsAreOwned
<1>1. AutomountInvariant => MountpointsAreOwned
  BY DEF AutomountInvariant, StagesHold, MountpointsAreOwned, Owners, Alive, Holding
<1>2. QED
  BY <1>1, AutomountInitInvariant, AutomountNextInvariant, PTL DEF AutomountSpec

-----------------------------------------------------------------------------
(* The automounter implements DeviceMounts.                                  *)

Runs(g) == child[g] \in {"starting", "mounted"}

(* Who works and whose adbfs runs, in terms of goroutines.                   *)
LEMMA Workers ==
    /\ \A d : d \in Working <=> \E g \in Alive : key[g] = d
    /\ \A d : d \in Serving <=> \E g \in Goroutines : Runs(g) /\ key[g] = d
  BY DEF Working, Serving, Runs

(* Of a goroutine that runs mountDevice.                                     *)
LEMMA WorkerFacts ==
    ASSUME AutomountInvariant, NEW g \in Alive
    PROVE  /\ g \in Goroutines /\ key[g] \in Keys /\ key[g] \in Working
           /\ ~Runs(g) => key[g] \notin Serving
           /\ Runs(g) => key[g] \in Serving /\ stage[g] = "wait"
           /\ \A h \in Alive : key[h] = key[g] => h = g
<1>1. g \in Goroutines /\ key[g] \in Keys
  BY DEF Alive, AutomountInvariant, TrackerInvariant, TrackerTypeOK
<1>2. \A h \in Alive : key[h] = key[g] => h = g
  BY OneProcess DEF AutomountInvariant, OneProcessPerKey
<1>3. \A h \in Goroutines : Runs(h) => h \in Alive /\ stage[h] = "wait"
  BY DEF AutomountInvariant, StagesHold, Runs, Alive
<1>4. QED
  BY <1>1, <1>2, <1>3, Workers

(* A device is served for while it is worked for.                            *)
LEMMA RunningIsAlive ==
    ASSUME AutomountInvariant, NEW g \in Goroutines, Runs(g)
    PROVE  g \in Alive
  BY DEF AutomountInvariant, StagesHold, Runs, Alive

LEMMA SetsKept ==
    ASSUME UNCHANGED <<state, key, child>>
    PROVE  Working' = Working /\ Serving' = Serving
  BY DEF Working, Serving, Alive

(* A step of mountDevice before it returns.                                  *)
LEMMA MountDeviceImplements ==
    ASSUME AutomountInvariant, NEW g \in Goroutines,
           \/ GetDeviceInfo(g) \/ MakeMountpoint(g) \/ StartAdbfs(g) \/ StartFails(g)
           \/ WaitReturns(g)
    PROVE  [Mounts!Next]_(Mounts!vars)
<1>1. /\ UNCHANGED <<state, key, mounts, shutdown>> /\ state[g] = "running" /\ g \in Alive
      /\ stage[g] \in {"info", "mkdir", "start", "wait"}
  BY DEF GetDeviceInfo, MakeMountpoint, StartAdbfs, StartFails, WaitReturns, Moves,
         trackerVars, Alive
<1>2. CASE GetDeviceInfo(g) \/ StartFails(g) \/ WaitReturns(g)
  <2>1. UNCHANGED <<child, dirs>>
    BY <1>2 DEF GetDeviceInfo, StartFails, WaitReturns
  <2>2. QED
    BY <1>1, <2>1, SetsKept DEF Mounts!vars
<1>3. CASE MakeMountpoint(g)
  <2>1. /\ UNCHANGED child /\ key[g] \notin dirs /\ dirs' = dirs \cup {key[g]}
    BY <1>3 DEF MakeMountpoint
  <2>2. Mounts!MakeMountpoint(key[g])
    BY <1>1, <2>1, SetsKept, WorkerFacts DEF Mounts!MakeMountpoint
  <2>3. QED
    BY <1>1, <2>2, WorkerFacts DEF Mounts!Next
<1>4. CASE StartAdbfs(g)
  <2>1. /\ UNCHANGED dirs /\ child' = [child EXCEPT ![g] = "starting"] /\ stage[g] = "start"
    BY <1>4 DEF StartAdbfs, Moves
  <2>2. /\ key[g] \in dirs /\ ~Runs(g)
        /\ child \in [Goroutines -> {"none", "starting", "mounted", "gone"}]
    BY <2>1 DEF AutomountInvariant, StagesHold, Holding, AutomountTypeOK, Runs
  <2>3. Working' = Working
    BY <1>1 DEF Working, Alive
  <2>4. Serving' = Serving \cup {key[g]}
    BY <1>1, <2>1, <2>2 DEF Serving, Runs
  <2>5. Mounts!StartServing(key[g])
    BY <1>1, <2>1, <2>2, <2>3, <2>4, WorkerFacts DEF Mounts!StartServing
  <2>6. QED
    BY <1>1, <2>5, WorkerFacts DEF Mounts!Next
<1>5. QED
  BY <1>2, <1>3, <1>4

LEMMA MountDeviceReturnImplements ==
    ASSUME AutomountInvariant, NEW g \in Goroutines,
           GivesUp(g, "info") \/ MakeMountpointFails(g) \/ RemoveMountpoint(g)
    PROVE  [Mounts!Next]_(Mounts!vars)
<1>1. Return(g) /\ UNCHANGED <<child, mounts>>
  BY DEF GivesUp, MakeMountpointFails, RemoveMountpoint
<1>2. /\ state[g] = "running" /\ state' = [state EXCEPT ![g] = "returned"]
      /\ UNCHANGED <<key, shutdown>> /\ g \in Alive
      /\ state \in [Goroutines -> {"free", "running", "returned"}]
  BY <1>1 DEF Return, Alive, AutomountInvariant, TrackerInvariant, TrackerTypeOK
<1>3. Working' = Working /\ Serving' = Serving
  <2>1. Alive' = Alive
    BY <1>2 DEF Alive
  <2>2. QED
    BY <1>1, <1>2, <2>1 DEF Working, Serving
<1>4. CASE dirs' = dirs
  BY <1>1, <1>2, <1>3, <1>4 DEF Mounts!vars
<1>5. CASE dirs' # dirs
  <2>1. /\ stage[g] = "remove" /\ key[g] \notin mounts /\ dirs' = dirs \ {key[g]}
    BY <1>5 DEF GivesUp, MakeMountpointFails, RemoveMountpoint, Moves
  <2>2. ~Runs(g)
    BY <2>1 DEF AutomountInvariant, StagesHold, Runs
  <2>3. key[g] \in dirs
    BY <1>5, <2>1
  <2>4. Mounts!RemoveMountpoint(key[g])
    BY <1>1, <1>2, <1>3, <2>1, <2>2, <2>3, WorkerFacts DEF Mounts!RemoveMountpoint
  <2>5. QED
    BY <1>2, <2>4, WorkerFacts DEF Mounts!Next
<1>6. QED
  BY <1>4, <1>5

(* Only when its process has been swept does a device have no worker.        *)
LEMMA SweepImplements ==
    ASSUME AutomountInvariant, NEW g \in Goroutines, SweepProcess(g)
    PROVE  [Mounts!Next]_(Mounts!vars)
<1>1. /\ state[g] = "returned" /\ state' = [state EXCEPT ![g] = "free"] /\ g \in Alive
      /\ UNCHANGED <<key, shutdown, child, dirs, mounts>>
      /\ state \in [Goroutines -> {"free", "running", "returned"}]
  BY DEF SweepProcess, Sweep, mountVars, Alive, AutomountInvariant, TrackerInvariant,
         TrackerTypeOK
<1>2. Alive' = Alive \ {g}
  BY <1>1 DEF Alive
<1>3. Serving' = Serving
  BY <1>1 DEF Serving
<1>4. Working' = Working \ {key[g]}
  <2>1. \A d : d \in Working' <=> \E h \in Alive' : key'[h] = d
    BY DEF Working
  <2>2. QED
    BY <1>1, <1>2, <2>1, Workers, WorkerFacts
<1>5. \A h \in Goroutines : stage[h] # "none" => h \in Alive /\ h # g
  BY <1>1 DEF AutomountInvariant, StagesHold, Alive
<1>6. ~Runs(g)
  BY <1>5 DEF AutomountInvariant, StagesHold, Runs
<1>7. key[g] \notin dirs \ mounts
  <2>1. \A h \in Goroutines : stage[h] # "none" => key[h] # key[g]
    BY <1>1, <1>5, WorkerFacts
  <2>2. QED
    BY <2>1 DEF AutomountInvariant, StagesHold, Holding
<1>8. Mounts!LetGo(key[g])
  BY <1>1, <1>3, <1>4, <1>6, <1>7, WorkerFacts DEF Mounts!LetGo
<1>9. QED
  BY <1>1, <1>8, WorkerFacts DEF Mounts!Next

LEMMA AdbfsImplements ==
    ASSUME AutomountInvariant, NEW g \in Goroutines,
           Kill(g) \/ AdbfsMounts(g) \/ AdbfsExits(g)
    PROVE  [Mounts!Next]_(Mounts!vars)
<1>1. /\ UNCHANGED <<state, key, shutdown, dirs>>
      /\ child \in [Goroutines -> {"none", "starting", "mounted", "gone"}]
  BY DEF Kill, AdbfsMounts, AdbfsExits, trackerVars, AutomountInvariant, AutomountTypeOK
<1>2. Working' = Working
  BY <1>1 DEF Working, Alive
<1>3. Runs(g) => g \in Alive /\ key[g] \in Keys /\ key[g] \in Serving
  BY RunningIsAlive, WorkerFacts
<1>4. CASE AdbfsMounts(g)
  <2>1. /\ Runs(g) /\ child' = [child EXCEPT ![g] = "mounted"]
        /\ mounts' = mounts \cup {key[g]}
    BY <1>4 DEF AdbfsMounts, Runs
  <2>2. Serving' = Serving
    BY <1>1, <2>1 DEF Serving, Runs
  <2>3. Mounts!Mount(key[g])
    BY <1>1, <1>2, <1>3, <2>1, <2>2 DEF Mounts!Mount
  <2>4. QED
    BY <1>3, <2>1, <2>3 DEF Mounts!Next
<1>5. CASE Kill(g) \/ AdbfsExits(g)
  <2>1. /\ child' = [child EXCEPT ![g] = "gone"]
        /\ mounts' \in {mounts, mounts \ {key[g]}}
        /\ ~Runs(g) => mounts' = mounts
    BY <1>5 DEF Kill, AdbfsExits, Runs
  <2>2. CASE ~Runs(g)
    <3>1. Serving' = Serving
      BY <1>1, <2>1, <2>2 DEF Serving, Runs
    <3>2. QED
      BY <1>1, <1>2, <2>1, <2>2, <3>1 DEF Mounts!vars
  <2>3. CASE Runs(g)
    <3>1. Serving' = Serving \ {key[g]}
      <4>1. \A d : d \in Serving' <=> \E h \in Goroutines : h # g /\ Runs(h) /\ key[h] = d
        BY <1>1, <2>1 DEF Serving, Runs
      <4>2. \A h \in Goroutines : h # g /\ Runs(h) => key[h] # key[g]
        BY <1>3, <2>3, RunningIsAlive, WorkerFacts
      <4>3. QED
        BY <4>1, <4>2, Workers
    <3>2. Mounts!EndServing(key[g])
      BY <1>1, <1>2, <1>3, <2>1, <2>3, <3>1 DEF Mounts!EndServing
    <3>3. QED
      BY <1>3, <2>3, <3>2 DEF Mounts!Next
  <2>4. QED
    BY <2>2, <2>3
<1>6. QED
  BY <1>4, <1>5

LEMMA MainImplements ==
    ASSUME AutomountInvariant, Main
    PROVE  [Mounts!Next]_(Mounts!vars)
<1> DEFINE s == Head(events)[1]
<1>1. s \in Keys \/ ~HandleEvent
  BY DEF HandleEvent, AutomountInvariant, AutomountTypeOK, Serials
<1>2. ASSUME NEW g \in Goroutines, s \in Keys, Go(s, g),
             child' = [child EXCEPT ![g] = "none"], UNCHANGED <<dirs, mounts>>
      PROVE  Mounts!TakeOn(s)
  <2>1. /\ state[g] = "free" /\ state' = [state EXCEPT ![g] = "running"]
        /\ key' = [key EXCEPT ![g] = s] /\ processesByKey[s] = NoProcess
        /\ shutdown = "no" /\ shutdown' = shutdown
        /\ state \in [Goroutines -> {"free", "running", "returned"}]
        /\ key \in [Goroutines -> Keys]
        /\ child \in [Goroutines -> {"none", "starting", "mounted", "gone"}]
    BY <1>2 DEF Go, MayGo, AutomountInvariant, TrackerInvariant, TrackerTypeOK, AutomountTypeOK
  <2>2. /\ g \notin Alive /\ ~Runs(g) /\ Alive' = Alive \cup {g}
    BY <2>1, RunningIsAlive DEF Alive
  <2>3. \A h \in Alive : key[h] # s
    BY <2>1, NoProcessAssumption DEF AutomountInvariant, TrackerInvariant, TableIsAlive, Alive
  <2>4. \A h \in Goroutines : h # g => key'[h] = key[h] /\ child'[h] = child[h]
    BY <1>2, <2>1
  <2>5. key'[g] = s /\ child'[g] = "none"
    BY <1>2, <2>1
  <2>6. Working' = Working \cup {s}
    <3>1. \A d : d \in Working' <=> \E h \in Alive' : key'[h] = d
      BY DEF Working
    <3>2. \A h \in Alive : h # g /\ h \in Goroutines
      BY <2>2 DEF Alive
    <3>3. QED
      BY <2>2, <2>4, <2>5, <3>1, <3>2, Workers
  <2>7. Serving' = Serving
    <3>1. \A h \in Goroutines : child'[h] \in {"starting", "mounted"} <=> h # g /\ Runs(h)
      BY <2>2, <2>4, <2>5 DEF Runs
    <3>2. \A h \in Goroutines : h # g \/ ~Runs(h)
      BY <2>2
    <3>3. Serving' = {key'[h] : h \in {i \in Goroutines : child'[i] \in {"starting", "mounted"}}}
      BY DEF Serving
    <3>4. {i \in Goroutines : child'[i] \in {"starting", "mounted"}} = {i \in Goroutines : Runs(i)}
      BY <3>1, <3>2
    <3>5. \A h \in Goroutines : Runs(h) => key'[h] = key[h]
      BY <2>4, <3>2
    <3>6. Serving = {key[h] : h \in {i \in Goroutines : Runs(i)}}
      BY DEF Serving, Runs
    <3>7. QED
      BY <3>3, <3>4, <3>5, <3>6
  <2>8. QED
    BY <1>2, <2>1, <2>3, <2>6, <2>7, Workers DEF Mounts!TakeOn
<1>3. CASE HandleEvent
  <2>1. \/ UNCHANGED <<trackerVars, mountVars>>
        \/ \E g \in Goroutines :
              /\ Go(s, g) /\ child' = [child EXCEPT ![g] = "none"]
              /\ UNCHANGED <<dirs, mounts>>
    BY <1>3 DEF HandleEvent, GoFails
  <2>2. CASE UNCHANGED <<trackerVars, mountVars>>
    BY <2>2, SetsKept DEF trackerVars, mountVars, Mounts!vars
  <2>3. QED
    BY <1>1, <1>2, <1>3, <2>1, <2>2 DEF Mounts!Next
<1>4. CASE Stop
  <2>1. UNCHANGED <<state, key, child, dirs, mounts>> /\ shutdown = "no" /\ shutdown' = "waiting"
    BY <1>4 DEF Stop, Shutdown, mountVars
  <2>2. QED
    BY <2>1, SetsKept DEF Mounts!Next, Mounts!Stop
<1>5. CASE Exit
  <2>1. /\ UNCHANGED <<state, key, child, dirs, mounts>>
        /\ shutdown = "waiting" /\ shutdown' = "done" /\ processWaiter = 0
    BY <1>5 DEF Exit, ShutdownReturns, mountVars
  <2>2. Alive = {}
    BY <2>1, AliveIsFinite, FS_EmptySet DEF AutomountInvariant, TrackerInvariant
  <2>3. Working = {}
    BY <2>2, Workers
  <2>4. QED
    BY <2>1, <2>3, SetsKept DEF Mounts!Next, Mounts!Exit
<1>6. QED
  BY <1>3, <1>4, <1>5 DEF Main

LEMMA RestartImplements ==
    ASSUME AutomountInvariant, Restart
    PROVE  [Mounts!Next]_(Mounts!vars)
<1>1. /\ state' = [g \in Goroutines |-> "free"] /\ shutdown = "done" /\ shutdown' = "no"
      /\ UNCHANGED <<key, child, dirs, mounts>>
  BY DEF Restart, Exited
<1>2. Alive = {} /\ Alive' = {}
  BY <1>1 DEF AutomountInvariant, TrackerInvariant, ShutdownIsComplete, Alive
<1>3. Working = {} /\ Working' = {} /\ Serving' = Serving
  BY <1>1, <1>2 DEF Working, Serving
<1>4. QED
  BY <1>1, <1>3 DEF Mounts!Next, Mounts!Restart

LEMMA InitImplements == AutomountInit => Mounts!Init
<1> SUFFICES ASSUME AutomountInit
             PROVE  Mounts!Init
  OBVIOUS
<1>1. Working = {} /\ Serving = {}
  BY DEF AutomountInit, TrackerInit, Working, Serving, Alive
<1>2. QED
  BY <1>1 DEF AutomountInit, TrackerInit, Mounts!Init

LEMMA NextImplements ==
    AutomountInvariant /\ [AutomountNext]_automountVars => [Mounts!Next]_(Mounts!vars)
<1> SUFFICES ASSUME AutomountInvariant, [AutomountNext]_automountVars
             PROVE  [Mounts!Next]_(Mounts!vars)
  OBVIOUS
<1>1. CASE Main
  BY <1>1, MainImplements
<1>2. ASSUME NEW g \in Goroutines,
             MountDevice(g) \/ Kill(g) \/ AdbfsMounts(g) \/ AdbfsExits(g)
      PROVE  [Mounts!Next]_(Mounts!vars)
  BY <1>2, MountDeviceImplements, MountDeviceReturnImplements, SweepImplements, AdbfsImplements
     DEF MountDevice
<1>3. CASE Restart
  BY <1>3, RestartImplements
<1>4. CASE UNCHANGED automountVars \/ \E s \in Serials : Plug(s)
  <2>1. UNCHANGED <<state, key, child, dirs, mounts, shutdown>>
    BY <1>4 DEF automountVars, Plug, trackerVars, mountVars
  <2>2. QED
    BY <2>1, SetsKept DEF Mounts!vars
<1>5. QED
  BY <1>1, <1>2, <1>3, <1>4 DEF AutomountNext

(* Devices are mounted one worker each, from Go to sweep: a worker alone     *)
(* makes and removes the mountpoint of its device, no adbfs is left behind   *)
(* by it, and Shutdown waits for all of them (mountDevice, ProcessTracker).  *)
THEOREM AutomountImplementsMounts == AutomountSpec => ImplementsDeviceMounts
<1>1. AutomountSpec => []AutomountInvariant
  BY AutomountInitInvariant, AutomountNextInvariant, PTL DEF AutomountSpec
<1>2. QED
  BY <1>1, InitImplements, NextImplements, PTL
     DEF AutomountSpec, ImplementsDeviceMounts, Mounts!Spec

-----------------------------------------------------------------------------
(* When a device that is connected is mounted, or at least tried.            *)

(* Go refuses a device that nothing has tried since it came online.          *)
RefusedGo ==
    /\ HandleEvent
    /\ Head(events)[2]
    /\ ~MayGo(Head(events)[1])
    /\ Head(events)[1] \notin attempted

(* main still has to hear that s came online.                                *)
Reported(s) == \E i \in 1 .. Len(events) : events[i] = <<s, TRUE>>

TriedOrReported == \A s \in online : s \in attempted \/ Reported(s)

LEMMA PairWith ==
    ASSUME NEW S, NEW b, NEW x \in S \X {b}
    PROVE  x = <<x[1], b>>
  OBVIOUS

LEMMA PairOf ==
    ASSUME NEW x, NEW a, NEW b, x = <<a, b>>
    PROVE  x[1] = a /\ x[2] = b
  OBVIOUS

LEMMA TailShifts ==
    ASSUME NEW S, NEW q \in Seq(S), NEW i \in 2 .. Len(q)
    PROVE  i - 1 \in 1 .. Len(Tail(q)) /\ Tail(q)[i - 1] = q[i]
  OBVIOUS

LEMMA AppendKeeps ==
    ASSUME NEW S, NEW q \in Seq(S), NEW e
    PROVE  /\ Len(q) \in Nat /\ Len(Append(q, e)) = Len(q) + 1
           /\ \A i \in 1 .. Len(q) : i \in 1 .. Len(Append(q, e)) /\ Append(q, e)[i] = q[i]
           /\ Len(q) + 1 \in 1 .. Len(Append(q, e)) /\ Append(q, e)[Len(q) + 1] = e
  OBVIOUS

LEMMA HandleEventTries ==
    ASSUME AutomountInvariant, TriedOrReported, HandleEvent, ~RefusedGo
    PROVE  TriedOrReported'
<1>1. /\ events \in Seq(Serials \X BOOLEAN) /\ events # <<>>
      /\ events' = Tail(events) /\ online' = online
  BY DEF HandleEvent, AutomountInvariant, AutomountTypeOK
<1>2. attempted \cap online \subseteq attempted'
  BY DEF HandleEvent
<1>3. Head(events) = <<Head(events)[1], Head(events)[2]>> /\ Head(events) = events[1]
      /\ Len(events) \in Nat
  BY <1>1
<1>4. ASSUME NEW s \in online, Head(events) = <<s, TRUE>>
      PROVE  s \in attempted'
  <2>1. Head(events)[1] = s /\ Head(events)[2]
    BY <1>4, PairOf, Zenon
  <2>2. CASE s \in attempted
    BY <1>2, <2>2
  <2>3. CASE s \notin attempted
    <3>1. MayGo(s)
      BY <2>1, <2>3 DEF RefusedGo
    <3>2. QED
      BY <2>1, <3>1 DEF HandleEvent, GoFails
  <2>4. QED
    BY <2>2, <2>3
<1>5. ASSUME NEW s, NEW i \in 1 .. Len(events), events[i] = <<s, TRUE>>, i # 1
      PROVE  Reported(s)'
  <2>1. i \in 2 .. Len(events)
    BY <1>3, <1>5
  <2>2. i - 1 \in 1 .. Len(Tail(events)) /\ Tail(events)[i - 1] = events[i]
    BY <1>1, <2>1, TailShifts, Zenon
  <2>3. QED
    BY <1>1, <1>5, <2>2, Zenon DEF Reported
<1>6. QED
  BY <1>1, <1>2, <1>3, <1>4, <1>5 DEF TriedOrReported, Reported

LEMMA PlugTries ==
    ASSUME AutomountInvariant, TriedOrReported, NEW s \in Serials, Plug(s)
    PROVE  TriedOrReported'
<1>1. /\ events \in Seq(Serials \X BOOLEAN)
      /\ attempted' = attempted \ {s}
      /\ online' \ {s} = online \ {s}
  BY DEF Plug, AutomountInvariant, AutomountTypeOK
<1>2. PICK e : events' = Append(events, e) /\ e = <<s, s \in online'>>
  BY Zenon DEF Plug
<1> DEFINE last == Len(events) + 1
<1>3. /\ \A i \in 1 .. Len(events) : i \in 1 .. Len(events') /\ events'[i] = events[i]
      /\ last \in 1 .. Len(events') /\ events'[last] = e
  BY <1>1, <1>2, AppendKeeps
<1>4. \A d : Reported(d) => Reported(d)'
  BY <1>3, Zenon DEF Reported
<1>5. s \in online' => Reported(s)'
  <2> SUFFICES ASSUME s \in online'
               PROVE  Reported(s)'
    OBVIOUS
  <2>1. (s \in online') = TRUE
    BY Zenon
  <2>2. events'[last] = <<s, TRUE>>
    BY <1>2, <1>3, <2>1, Zenon
  <2>3. QED
    BY <1>3, <2>2, Zenon DEF Reported
<1>6. \A d \in online' : d = s \/ d \in attempted' \/ Reported(d)
  BY <1>1 DEF TriedOrReported
<1>7. QED
  BY <1>4, <1>5, <1>6 DEF TriedOrReported

LEMMA RestartTries ==
    ASSUME Restart
    PROVE  TriedOrReported'
<1>1. PICK n \in 0 .. MaxEvents : events' \in [1 .. n -> Serials \X {TRUE}]
  BY DEF Restart
<1>2. {events'[i][1] : i \in DOMAIN events'} = online /\ online' = online
  BY DEF Restart
<1>3. DOMAIN events' = 1 .. n /\ n \in Nat
  BY <1>1, MaxEventsAssumption
<1>4. Len(events') = n
  BY <1>1, <1>3
<1>5. ASSUME NEW s \in online'
      PROVE  Reported(s)'
  <2>1. PICK i \in 1 .. n : events'[i][1] = s
    BY <1>2, <1>3
  <2>2. events'[i] \in Serials \X {TRUE}
    BY <1>1
  <2>3. events'[i] = <<s, TRUE>>
    BY <2>1, <2>2, PairWith
  <2>4. QED
    BY <1>4, <2>3, Zenon DEF Reported
<1>6. QED
  BY <1>5 DEF TriedOrReported

LEMMA NextTries ==
    AutomountInvariant /\ TriedOrReported /\ [AutomountNext]_automountVars /\ ~RefusedGo
        => TriedOrReported'
<1> SUFFICES ASSUME AutomountInvariant, TriedOrReported, [AutomountNext]_automountVars, ~RefusedGo
             PROVE  TriedOrReported'
  OBVIOUS
<1>1. CASE UNCHANGED <<online, events, attempted>>
  BY <1>1 DEF TriedOrReported, Reported
<1>2. ASSUME NEW g \in Goroutines,
             MountDevice(g) \/ Kill(g) \/ AdbfsMounts(g) \/ AdbfsExits(g)
      PROVE  UNCHANGED <<online, events, attempted>>
  BY <1>2
     DEF MountDevice, GetDeviceInfo, GivesUp, MakeMountpoint, MakeMountpointFails, StartAdbfs,
         StartFails, WaitReturns, RemoveMountpoint, SweepProcess, Kill, AdbfsMounts, AdbfsExits,
         worldVars
<1>3. Stop \/ Exit \/ UNCHANGED automountVars => UNCHANGED <<online, events, attempted>>
  BY DEF Stop, Exit, automountVars, worldVars
<1>4. QED
  BY <1>1, <1>2, <1>3, HandleEventTries, PlugTries, RestartTries DEF AutomountNext, Main

(* The automounter mounts the devices that are connected (README.md:9), or   *)
(* has at least tried, as long as Go refuses none that is new: that is the   *)
(* one way a device is passed over, which the run automount_tried shows.     *)
(* Kills, restarts, failing mounts and devices that come and go in whatever  *)
(* order are none (mainWithExitCode, ProcessTracker.Go).                     *)
THEOREM TriedUnlessRefused ==
    AutomountSpec /\ [][~RefusedGo]_automountVars => []ConnectedIsTried
<1>1. AutomountInit => TriedOrReported
  BY DEF AutomountInit, TriedOrReported
<1>2. AutomountInvariant /\ TriedOrReported /\ [AutomountNext]_automountVars
          /\ [~RefusedGo]_automountVars => TriedOrReported'
  <2>1. TriedOrReported /\ UNCHANGED automountVars => TriedOrReported'
    BY DEF TriedOrReported, Reported, automountVars, worldVars
  <2>2. QED
    BY <2>1, NextTries
<1>3. TriedOrReported => ConnectedIsTried
  BY DEF TriedOrReported, Reported, ConnectedIsTried
<1>4. QED
  BY <1>1, <1>2, <1>3, AutomountInitInvariant, AutomountNextInvariant, PTL DEF AutomountSpec
=============================================================================
