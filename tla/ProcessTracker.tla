--------------------------- MODULE ProcessTracker ---------------------------
(***************************************************************************)
(* ProcessTracker (src/internal/cli/process_tracker.go): goroutines that   *)
(* run one process per key, contexts that tell them to stop, and a         *)
(* WaitGroup that waits for them.                                          *)
(*                                                                         *)
(* What a process does is its caller's business: module Automount runs     *)
(* mountDevice.  Go and Shutdown are called by one goroutine (main of      *)
(* adbfs-automount), so nothing happens between the check and the lock of  *)
(* Go that would make a difference to it.                                  *)
(***************************************************************************)
EXTENDS Integers, FiniteSets

CONSTANTS
    Keys,        \* what processes are told apart by
    Goroutines,  \* goroutines that Go may start
    NoProcess    \* no entry in processesByKey

ASSUME NoProcessAssumption == NoProcess \notin Goroutines
ASSUME GoroutinesAssumption == IsFiniteSet(Goroutines)

VARIABLES
    processesByKey,  \* the ProcessInfo of a key, known by its goroutine
    processWaiter,   \* the counter of the WaitGroup
    state,           \* of a goroutine
    key,             \* the key a goroutine was started for
    canceled,        \* goroutines whose own context was canceled
    shutdown,        \* how far Shutdown got; the base context is done after "no"
    panicked         \* sweep has panicked

trackerVars ==
    <<processesByKey, processWaiter, state, key, canceled, shutdown, panicked>>

TrackerTypeOK ==
    /\ processesByKey \in [Keys -> Goroutines \cup {NoProcess}]
    /\ processWaiter \in Nat
    /\ state \in [Goroutines -> {"free", "running", "returned"}]
    /\ key \in [Goroutines -> Keys]
    /\ canceled \subseteq Goroutines
    /\ shutdown \in {"no", "waiting", "done"}
    /\ panicked \in BOOLEAN

TrackerInit ==
    /\ processesByKey = [k \in Keys |-> NoProcess]
    /\ processWaiter = 0
    /\ state = [g \in Goroutines |-> "free"]
    /\ key \in [Goroutines -> Keys]
    /\ canceled = {}
    /\ shutdown = "no"
    /\ panicked = FALSE

Alive == {g \in Goroutines : state[g] # "free"}

(* Mutant of ContextDone: contexts do not derive from the base context.      *)
OwnContextDone(g) == g \in canceled

(* isContextAlreadyDone, of the context of a process: it derives from the    *)
(* base context.                                                            *)
ContextDone(g) == g \in canceled \/ shutdown # "no"

-----------------------------------------------------------------------------

(* Mutant of MayGo: Go does not look the key up.                             *)
MayGoAlways(k) == shutdown = "no"

(* Go refuses a key that has a process, and everything after Shutdown.      *)
MayGo(k) == shutdown = "no" /\ processesByKey[k] = NoProcess

(* Mutant of Go: the process is not added to the WaitGroup.                  *)
GoUncounted(k, g) ==
    /\ state[g] = "free"
    /\ MayGo(k)
    /\ processesByKey' = [processesByKey EXCEPT ![k] = g]
    /\ state' = [state EXCEPT ![g] = "running"]
    /\ key' = [key EXCEPT ![g] = k]
    /\ canceled' = canceled \ {g}
    /\ UNCHANGED <<processWaiter, shutdown, panicked>>

(* Go starts goroutine g for k.                                             *)
Go(k, g) ==
    /\ state[g] = "free"
    /\ MayGo(k)
    /\ processesByKey' = [processesByKey EXCEPT ![k] = g]
    /\ processWaiter' = processWaiter + 1
    /\ state' = [state EXCEPT ![g] = "running"]
    /\ key' = [key EXCEPT ![g] = k]
    /\ canceled' = canceled \ {g}
    /\ UNCHANGED <<shutdown, panicked>>

(* Go returns an error.                                                     *)
GoFails(k) == ~MayGo(k) /\ UNCHANGED trackerVars

(* Mutant of Return: a process that ends on its own does not cancel its      *)
(* context.                                                                  *)
ReturnUncanceled(g) ==
    /\ state[g] = "running"
    /\ state' = [state EXCEPT ![g] = "returned"]
    /\ UNCHANGED <<processesByKey, processWaiter, key, canceled, shutdown, panicked>>

(* The process returns, and its goroutine cancels its context.              *)
Return(g) ==
    /\ state[g] = "running"
    /\ state' = [state EXCEPT ![g] = "returned"]
    /\ canceled' = canceled \cup {g}
    /\ UNCHANGED <<processesByKey, processWaiter, key, shutdown, panicked>>

(* sweep runs last in the goroutine.  It goes by the key.                   *)
Sweep(g) ==
    /\ state[g] = "returned"
    /\ LET info == processesByKey[key[g]]
           done == info # NoProcess /\ ContextDone(info)
       IN  /\ panicked' = (panicked \/ (info # NoProcess /\ ~ContextDone(info)))
           /\ processesByKey' =
                [processesByKey EXCEPT ![key[g]] = IF done THEN NoProcess ELSE @]
           /\ processWaiter' = processWaiter - (IF done THEN 1 ELSE 0)
    /\ state' = [state EXCEPT ![g] = "free"]
    /\ UNCHANGED <<key, canceled, shutdown>>

(* Shutdown cancels the base context,                                       *)
Shutdown ==
    /\ shutdown = "no"
    /\ shutdown' = "waiting"
    /\ UNCHANGED <<processesByKey, processWaiter, state, key, canceled, panicked>>

(* Mutant of ShutdownReturns: Shutdown does not wait.                        *)
ShutdownReturnsEarly ==
    /\ shutdown = "waiting"
    /\ shutdown' = "done"
    /\ UNCHANGED <<processesByKey, processWaiter, state, key, canceled, panicked>>

(* and waits until the counter of the WaitGroup is zero.                    *)
ShutdownReturns ==
    /\ shutdown = "waiting"
    /\ processWaiter = 0
    /\ shutdown' = "done"
    /\ UNCHANGED <<processesByKey, processWaiter, state, key, canceled, panicked>>

TrackerNext ==
    \/ \E k \in Keys : GoFails(k) \/ \E g \in Goroutines : Go(k, g)
    \/ \E g \in Goroutines : Return(g) \/ Sweep(g)
    \/ Shutdown
    \/ ShutdownReturns

TrackerSpec == TrackerInit /\ [][TrackerNext]_trackerVars

-----------------------------------------------------------------------------

(* At most one goroutine works for a key, from Go until its sweep is over    *)
(* (process_tracker.go, Go).                                                *)
OneProcessPerKey ==
    \A g, h \in Alive : key[g] = key[h] => g = h

(* A sweep finds its own process in the table and its context done           *)
(* (process_tracker.go, sweep).                                             *)
SweepNeverPanics == ~panicked

(* When Shutdown has returned, no process runs (process_tracker.go,          *)
(* Shutdown).                                                               *)
ShutdownIsComplete == shutdown = "done" => Alive = {}
=============================================================================
