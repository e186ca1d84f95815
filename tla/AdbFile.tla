------------------------------ MODULE AdbFile ------------------------------
(***************************************************************************)
(* The open files of one path (src/adb_file.go), which share a FileBuffer, *)
(* and how they are opened (src/adb_filesystem.go, createFile).            *)
(*                                                                         *)
(* Write and Truncate call the buffer twice, and give up its lock between  *)
(* the two calls: other handles may act there.  The kernel sends FLUSH     *)
(* before the RELEASE of a handle.  Reads and GetAttr change nothing and   *)
(* are not actions.  OpenFiles is taken to do its job (one buffer while    *)
(* any handle is open, none after): module OpenFiles shows where it fails  *)
(* to.                                                                     *)
(***************************************************************************)
EXTENDS FileBuffer

CONSTANTS
    Handles,      \* the file handles of the kernel
    FlagChoices   \* the flag sets programs open the file with

ASSUME FlagsAssumption == FlagChoices \subseteq OpenFlags

VARIABLES
    readOnly,   \* Config.ReadOnly, which never changes
    pc,         \* what a handle is doing
    flags,      \* AdbFileOpenOptions.Flags of a handle
    flushed,    \* the status of a handle's last Flush since its last edit
    owes        \* history: handles with an edit that was never saved

handleVars == <<readOnly, pc, flags, flushed, owes>>
adbFileVars == <<vars, handleVars>>

(* "wrote": Write is between WriteAt and SyncIfTooDirty; "resized": Truncate *)
(* is between SetSize and Sync.                                              *)
PCs == {"closed", "open", "wrote", "resized"}

AdbFileInit ==
    /\ Init
    /\ readOnly \in BOOLEAN
    /\ pc = [h \in Handles |-> "closed"]
    /\ flags = [h \in Handles |-> {}]
    /\ flushed = [h \in Handles |-> "none"]
    /\ owes = {}

-----------------------------------------------------------------------------

(* A save pays for every handle.  Otherwise the editors owe theirs too.      *)
Owing(editors) == owes' = IF unsaved' = {} THEN {} ELSE owes \cup editors

(* createFile refuses write operations on a read-only filesystem.            *)
MayOpen(f) == readOnly => ~IsWriteOp(f)

(* Open and Create.  A path that has a buffer is opened with it, whatever    *)
(* the flags; a new buffer that could not be saved leaves h in debt.         *)
Open(h, f, ok) ==
    /\ pc[h] = "closed"
    /\ MayOpen(f)
    /\ IF live THEN ok /\ UNCHANGED vars ELSE NewFileBuffer(f, ok)
    /\ pc' = [pc EXCEPT ![h] = "open"]
    /\ flags' = [flags EXCEPT ![h] = f]
    /\ flushed' = [flushed EXCEPT ![h] = "none"]
    /\ Owing(IF live THEN {} ELSE {h})
    /\ UNCHANGED readOnly

(* The first half of Write and of Truncate.                                  *)
StartEdit(h, next) ==
    /\ pc[h] = "open"
    /\ CanWrite(flags[h])
    /\ pc' = [pc EXCEPT ![h] = next]
    /\ flushed' = [flushed EXCEPT ![h] = "none"]
    /\ Owing({h})
    /\ UNCHANGED <<readOnly, flags>>

Write(h, data, off) == WriteAt(data, off) /\ StartEdit(h, "wrote")

Truncate(h, size) == SetSize(size) /\ StartEdit(h, "resized")

(* The second half, whose status is the status of the whole call.            *)
FinishEdit(h, last) ==
    /\ pc[h] = last
    /\ pc' = [pc EXCEPT ![h] = "open"]
    /\ Owing({})
    /\ UNCHANGED <<readOnly, flags, flushed>>

FinishWrite(h, ok) == SyncIfTooDirty(ok) /\ FinishEdit(h, "wrote")

FinishTruncate(h, ok) == Sync(ok) /\ FinishEdit(h, "resized")

(* Fsync asks for no flag.                                                   *)
Fsync(h, ok) ==
    /\ pc[h] = "open"
    /\ Sync(ok)
    /\ Owing({})
    /\ UNCHANGED <<readOnly, pc, flags, flushed>>

(* Mutant of FlushHandle: only a file open for writing alone is flushed.     *)
FlushWriteOnly(h, ok) ==
    /\ pc[h] = "open"
    /\ IF "O_WRONLY" \in flags[h] THEN Flush(ok) ELSE ok /\ UNCHANGED vars
    /\ flushed' = [flushed EXCEPT ![h] = IF ok THEN "ok" ELSE "error"]
    /\ Owing({})
    /\ UNCHANGED <<readOnly, pc, flags>>

(* Flush saves for a handle that can write, and does nothing for others.     *)
FlushHandle(h, ok) ==
    /\ pc[h] = "open"
    /\ IF CanWrite(flags[h]) THEN Flush(ok) ELSE ok /\ UNCHANGED vars
    /\ flushed' = [flushed EXCEPT ![h] = IF ok THEN "ok" ELSE "error"]
    /\ Owing({})
    /\ UNCHANGED <<readOnly, pc, flags>>

(* Release of a handle the kernel has flushed; the last one drops the buffer *)
(* with the edits that could not be saved.                                   *)
Release(h) ==
    /\ pc[h] = "open"
    /\ flushed[h] # "none"
    /\ pc' = [pc EXCEPT ![h] = "closed"]
    /\ flags' = [flags EXCEPT ![h] = {}]
    /\ flushed' = [flushed EXCEPT ![h] = "none"]
    /\ IF \A g \in Handles \ {h} : pc[g] = "closed"
       THEN Discard
       ELSE UNCHANGED vars
    /\ owes' = owes \ {h}
    /\ UNCHANGED readOnly

(* Time, and the other programs of the device.                               *)
Environment ==
    /\ Tick \/ DeviceChange
    /\ UNCHANGED <<readOnly, pc, flags, flushed, owes>>

AdbFileNext ==
    \/ \E h \in Handles :
        \/ \E f \in FlagChoices, ok \in BOOLEAN : Open(h, f, ok)
        \/ \E data \in Contents, off \in 0..MaxLen :
               Len(data) > 0 /\ off + Len(data) <= MaxLen /\ Write(h, data, off)
        \/ \E size \in 0..MaxLen : Truncate(h, size)
        \/ \E ok \in BOOLEAN :
            \/ FinishWrite(h, ok)
            \/ FinishTruncate(h, ok)
            \/ Fsync(h, ok)
            \/ FlushHandle(h, ok)
        \/ Release(h)
    \/ Environment

AdbFileSpec == AdbFileInit /\ [][AdbFileNext]_adbFileVars

-----------------------------------------------------------------------------

AdbFileTypeOK ==
    /\ TypeOK
    /\ readOnly \in BOOLEAN
    /\ pc \in [Handles -> PCs]
    /\ flags \in [Handles -> {{}} \cup FlagChoices]
    /\ flushed \in [Handles -> {"none", "ok", "error"}]
    /\ owes \subseteq Handles

(* A handle whose last Flush succeeded has nothing left to save: whatever    *)
(* the other handles of the file do between its steps, its edits are on the  *)
(* device, and the buffer that OpenFiles.release drops "while still dirty"   *)
(* (src/open_files.go:76) never holds an edit whose author was told OK.      *)
FlushedIsSaved == \A h \in Handles : flushed[h] = "ok" => h \notin owes

(* A read-only filesystem has nothing to save, ever: no open, fsync or       *)
(* release of it writes to the device (src/adb_filesystem.go:427).           *)
ReadOnlyNeverDirty == readOnly => dirty = 0 /\ unsaved = {}

(* What the invariants rest on: a handle in debt is open, can write, and has *)
(* not been told OK; a read-only filesystem has no handle that can write.    *)
DebtorsCanFlush ==
    \A h \in owes : pc[h] # "closed" /\ CanWrite(flags[h]) /\ flushed[h] # "ok"

ReadOnlyHandles == readOnly => \A h \in Handles : ~CanWrite(flags[h])

(* The inductive invariant.                                                  *)
AdbFileIInv ==
    /\ AdbFileTypeOK
    /\ DirtyIsOldestUnsaved
    /\ UnsavedEditsStay
    /\ DebtorsCanFlush
    /\ ReadOnlyHandles
    /\ ReadOnlyNeverDirty

(* When Write returns OK, no edit of any handle has been waiting longer than *)
(* the dirty timeout: the oldest one bounds what a crash of adbfs loses      *)
(* (src/open_files.go:16, src/adb_file.go:18).                               *)
WriteBoundsStaleness ==
    [][\A h \in Handles :
         FinishWrite(h, TRUE) => \A t \in unsaved' : now <= t + DirtyTimeout]_adbFileVars

(* "If the create flag is set, the file will immediately be created if it    *)
(* does not exist" (src/adb_file.go:27): so it does when no device call      *)
(* fails and no edit is waiting for the file that is opened.                 *)
CreatedOnOpen ==
    [][\A h \in Handles, f \in FlagChoices :
         dirty = 0 /\ Open(h, f, TRUE) /\ Contains(f, {"O_CREATE"})
         => device' # Absent]_adbFileVars
=============================================================================
