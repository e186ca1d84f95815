--------------------------- MODULE WriteBackFile ---------------------------
(***************************************************************************)
(* What a file that is edited in memory and saved as a whole promises.     *)
(* While it holds edits that are not stored, its contents change by        *)
(* further edits only: they are neither reloaded nor dropped while the     *)
(* file is open.  It stops holding unsaved edits only when exactly what    *)
(* the last edit made has been stored.  A failed save may leave anything   *)
(* in the store, and keeps the edits; a failed load may leave anything in  *)
(* memory, where no edit was waiting.                                      *)
(***************************************************************************)

CONSTANTS
    Contents,   \* what a file may hold
    Empty,      \* the contents of a file just created or truncated
    Closed,     \* in place of contents: the file is not open
    Absent,     \* in place of contents: nothing is stored
    Clean       \* in place of contents: no edit waits to be stored

VARIABLES
    memory,   \* the contents in memory, or Closed
    store,    \* the contents on the device, or Absent
    edited    \* what the last edit made of the file, or Clean

vars == <<memory, store, edited>>

Stored == {Absent} \cup Contents

Init ==
    /\ memory = Closed
    /\ store \in Stored
    /\ edited = Clean

(* Opening what is stored; the load may fail.                                *)
Open ==
    /\ memory = Closed
    /\ store # Absent
    /\ memory' \in Contents
    /\ UNCHANGED <<store, edited>>

(* Opening an empty file, which is itself an edit; its save may fail.        *)
OpenEmpty ==
    /\ memory = Closed
    /\ memory' = Empty
    /\ \/ store' = Empty /\ edited' = Clean
       \/ store' \in Stored /\ edited' = Empty

Edit ==
    /\ memory # Closed
    /\ memory' \in Contents
    /\ edited' = memory'
    /\ UNCHANGED store

Save ==
    /\ memory # Closed
    /\ edited # Clean
    /\ store' = edited
    /\ edited' = Clean
    /\ UNCHANGED memory

FailedSave ==
    /\ memory # Closed
    /\ edited # Clean
    /\ store' \in Stored
    /\ UNCHANGED <<memory, edited>>

(* Loading again, whole or in part.                                          *)
Reload ==
    /\ memory # Closed
    /\ edited = Clean
    /\ memory' \in Contents
    /\ UNCHANGED <<store, edited>>

(* Other programs change what is stored.                                     *)
ChangeStore ==
    /\ store' \in Stored
    /\ UNCHANGED <<memory, edited>>

(* The last user has closed the file.  Edits that could not be saved go.     *)
Close ==
    /\ memory # Closed
    /\ memory' = Closed
    /\ edited' = Clean
    /\ UNCHANGED store

Next ==
    \/ Open \/ OpenEmpty
    \/ Edit
    \/ Save \/ FailedSave \/ Reload
    \/ ChangeStore
    \/ Close

Spec == Init /\ [][Next]_vars
=============================================================================
