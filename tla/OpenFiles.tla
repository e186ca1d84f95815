----------------------------- MODULE OpenFiles -----------------------------
(***************************************************************************)
(* The table of open files (src/open_files.go) and the reference counts of *)
(* the FileBuffers in it (src/file_buffer.go).                             *)
(*                                                                         *)
(* A client is one use of a file descriptor: it opens a path (GetOrLoad),  *)
(* holds an AdbFile, and gives it back (AdbFile.Release).  FUSE serves     *)
(* every request on a goroutine of its own, so clients interleave between  *)
(* any two steps that are not under OpenFiles.lock.  In particular         *)
(* DecRefCount runs outside the lock and `release` inside it: the gap      *)
(* between the two is where other clients may open the same path.          *)
(*                                                                         *)
(* The contents of the buffers are not modelled here: see FileBuffer.      *)
(***************************************************************************)
EXTENDS Integers, FiniteSets

CONSTANTS
    Paths,    \* the paths clients open
    Buffers,  \* the identities of FileBuffer objects
    Clients,  \* the uses of a file descriptor
    Nil       \* no client holds the lock; no buffer; Go's nil

ASSUME ClientsAssumption == IsFiniteSet(Clients)
ASSUME NilAssumption == Nil \notin Paths \cup Buffers \cup Clients

VARIABLES
    lock,           \* OpenFiles.lock: the client that holds it, or Nil
    buffersByPath,  \* OpenFiles.buffersByPath: the buffer of a path, or Nil
    path,           \* FileBufferOptions.Path of a buffer
    refCount,       \* FileBuffer.refCount
    pc,             \* where a client is
    name,           \* the path a client has opened or is opening
    file            \* the FileBuffer a client holds or is giving back

vars == <<lock, buffersByPath, path, refCount, pc, name, file>>

-----------------------------------------------------------------------------

(* A client is "closed"; waits for the lock in GetOrLoad ("wantOpen"); is    *)
(* in GetOrLoad's critical section ("opening"); holds an AdbFile ("open");   *)
(* has decremented the count to 0 and waits for the lock in release          *)
(* ("wantRelease"); is in release's critical section ("releasing").          *)
PCs == {"closed", "wantOpen", "opening", "open", "wantRelease", "releasing"}

TypeOK ==
    /\ lock \in Clients \cup {Nil}
    /\ buffersByPath \in [Paths -> Buffers \cup {Nil}]
    /\ path \in [Buffers -> Paths \cup {Nil}]
    /\ refCount \in [Buffers -> Nat]
    /\ pc \in [Clients -> PCs]
    /\ name \in [Clients -> Paths \cup {Nil}]
    /\ file \in [Clients -> Buffers \cup {Nil}]

Init ==
    /\ lock = Nil
    /\ buffersByPath = [p \in Paths |-> Nil]
    /\ path = [b \in Buffers |-> Nil]
    /\ refCount = [b \in Buffers |-> 0]
    /\ pc = [c \in Clients |-> "closed"]
    /\ name = [c \in Clients |-> Nil]
    /\ file = [c \in Clients |-> Nil]

-----------------------------------------------------------------------------

(* A buffer some part of the program still points to.  Objects nothing       *)
(* points to are garbage, and their identities stand for new objects.        *)
Referenced(b) == \/ \E p \in Paths : buffersByPath[p] = b
                 \/ \E c \in Clients : file[c] = b

(* The program is asked to open or create p; GetOrLoad will lock first.      *)
Open(c, p) ==
    /\ pc[c] = "closed"
    /\ pc' = [pc EXCEPT ![c] = "wantOpen"]
    /\ name' = [name EXCEPT ![c] = p]
    /\ UNCHANGED <<lock, buffersByPath, path, refCount, file>>

LockToOpen(c) ==
    /\ pc[c] = "wantOpen"
    /\ lock = Nil
    /\ lock' = c
    /\ pc' = [pc EXCEPT ![c] = "opening"]
    /\ UNCHANGED <<buffersByPath, path, refCount, name, file>>

(* Mutant of HandOut: the open is not counted.                               *)
HandOutUncounted(c, b) ==
    /\ file' = [file EXCEPT ![c] = b]
    /\ pc' = [pc EXCEPT ![c] = "open"]
    /\ lock' = Nil
    /\ UNCHANGED <<refCount, name>>

(* Mutant of HandOut: the count starts again at 1 with every open.           *)
HandOutAsFirst(c, b) ==
    /\ refCount' = [refCount EXCEPT ![b] = 1]
    /\ file' = [file EXCEPT ![c] = b]
    /\ pc' = [pc EXCEPT ![c] = "open"]
    /\ lock' = Nil
    /\ UNCHANGED name

(* IncRefCount on the buffer GetOrLoad found or made, and the unlock.        *)
HandOut(c, b) ==
    /\ refCount' = [refCount EXCEPT ![b] = @ + 1]
    /\ file' = [file EXCEPT ![c] = b]
    /\ pc' = [pc EXCEPT ![c] = "open"]
    /\ lock' = Nil
    /\ UNCHANGED name

(* The path has a buffer already: whatever its count, it is handed out.      *)
Reuse(c) ==
    LET b == buffersByPath[name[c]] IN
    /\ pc[c] = "opening"
    /\ b # Nil
    /\ HandOut(c, b)
    /\ UNCHANGED <<buffersByPath, path>>

(* The path has no buffer: NewFileBuffer succeeds, with the lock held over   *)
(* the device's answers, and the new buffer enters the table.                *)
Load(c, b) ==
    /\ pc[c] = "opening"
    /\ buffersByPath[name[c]] = Nil
    /\ ~Referenced(b)
    /\ buffersByPath' = [buffersByPath EXCEPT ![name[c]] = b]
    /\ path' = [path EXCEPT ![b] = name[c]]
    /\ HandOut(c, b)

(* Mutant of LoadFails: the early return forgets the deferred unlock.        *)
LoadFailsLocked(c) ==
    /\ pc[c] = "opening"
    /\ buffersByPath[name[c]] = Nil
    /\ pc' = [pc EXCEPT ![c] = "closed"]
    /\ name' = [name EXCEPT ![c] = Nil]
    /\ UNCHANGED <<lock, buffersByPath, path, refCount, file>>

(* NewFileBuffer fails (no such file, not permitted, no device).             *)
LoadFails(c) ==
    /\ pc[c] = "opening"
    /\ buffersByPath[name[c]] = Nil
    /\ pc' = [pc EXCEPT ![c] = "closed"]
    /\ name' = [name EXCEPT ![c] = Nil]
    /\ lock' = Nil
    /\ UNCHANGED <<buffersByPath, path, refCount, file>>

(* Mutant of DecRefCount: the handler runs when one handle is left.          *)
DecRefCountEarly(c) ==
    LET b == file[c]
        last == refCount[b] = 2
    IN
    /\ pc[c] = "open"
    /\ refCount' = [refCount EXCEPT ![b] = @ - 1]
    /\ pc' = [pc EXCEPT ![c] = IF last THEN "wantRelease" ELSE "closed"]
    /\ file' = [file EXCEPT ![c] = IF last THEN b ELSE Nil]
    /\ name' = [name EXCEPT ![c] = Nil]
    /\ UNCHANGED <<lock, buffersByPath, path>>

(* AdbFile.Release: an atomic decrement outside the lock; the client that    *)
(* reaches 0 goes on to the ZeroRefCountHandler, OpenFiles.release.          *)
DecRefCount(c) ==
    LET b == file[c]
        last == refCount[b] = 1
    IN
    /\ pc[c] = "open"
    /\ refCount' = [refCount EXCEPT ![b] = @ - 1]
    /\ pc' = [pc EXCEPT ![c] = IF last THEN "wantRelease" ELSE "closed"]
    /\ file' = [file EXCEPT ![c] = IF last THEN b ELSE Nil]
    /\ name' = [name EXCEPT ![c] = Nil]
    /\ UNCHANGED <<lock, buffersByPath, path>>

LockToRelease(c) ==
    /\ pc[c] = "wantRelease"
    /\ lock = Nil
    /\ lock' = c
    /\ pc' = [pc EXCEPT ![c] = "releasing"]
    /\ UNCHANGED <<buffersByPath, path, refCount, name, file>>

(* Mutants of TableAfterRelease: the count is not read again under the lock; *)
(* the entry is never deleted.                                               *)
EvictUnchecked(b) == [buffersByPath EXCEPT ![path[b]] = Nil]

NeverEvict(b) == buffersByPath

(* The entry `release` deletes is the one at the buffer's path, whichever    *)
(* buffer is there.                                                          *)
TableAfterRelease(b) ==
    IF refCount[b] # 0
    THEN buffersByPath
    ELSE [buffersByPath EXCEPT ![path[b]] = Nil]

(* The body of release: it does nothing if the buffer is in use again.       *)
ReleaseBuffer(c) ==
    /\ pc[c] = "releasing"
    /\ buffersByPath' = TableAfterRelease(file[c])
    /\ pc' = [pc EXCEPT ![c] = "closed"]
    /\ file' = [file EXCEPT ![c] = Nil]
    /\ lock' = Nil
    /\ UNCHANGED <<path, refCount, name>>

(* The critical sections of GetOrLoad and release.                           *)
Critical(c) ==
    \/ Reuse(c)
    \/ \E b \in Buffers : Load(c, b)
    \/ LoadFails(c)
    \/ ReleaseBuffer(c)

Next ==
    \E c \in Clients :
        \/ \E p \in Paths : Open(c, p)
        \/ LockToOpen(c)
        \/ DecRefCount(c)
        \/ LockToRelease(c)
        \/ Critical(c)

Spec == Init /\ [][Next]_vars

(* A critical section ends: the code in it has no loop, and the device calls *)
(* in NewFileBuffer answer or fail (a call that never returns is outside the *)
(* model).  sync.Mutex hands the lock to a waiter that has starved for 1ms,  *)
(* so a waiter that finds it free again and again gets it in the end.        *)
(* Nothing makes a client open a file or close it.                           *)
Fairness ==
    \A c \in Clients :
        /\ WF_vars(Critical(c))
        /\ SF_vars(LockToOpen(c) \/ LockToRelease(c))

FairSpec == Spec /\ Fairness

-----------------------------------------------------------------------------

(* The file descriptors that are open on a buffer.                           *)
Handles(b) == {c \in Clients : pc[c] = "open" /\ file[c] = b}

(* A buffer's count is the number of AdbFiles open on it, whatever the       *)
(* interleaving of opens and releases: so DecRefCount never goes below 0     *)
(* (where it panics), and a buffer with open files never counts 0.           *)
RefCountIsHandles == \A b \in Buffers : refCount[b] = Cardinality(Handles(b))

(* The table holds a buffer for p that nobody has open.                      *)
Unused(p) == buffersByPath[p] # Nil /\ refCount[buffersByPath[p]] = 0

(* A buffer nobody has open is in the table only while a client is on its    *)
(* way to release it: no buffer is left behind in the table for ever, even   *)
(* when an open takes it up again between the decrement and the release.     *)
NoLeak ==
    \A p \in Paths :
        Unused(p) =>
            \E c \in Clients :
                pc[c] \in {"wantRelease", "releasing"} /\ file[c] = buffersByPath[p]

(* What the invariants above rest on: the client in a critical section owns  *)
(* the lock; a client's pc tells whether it has a path and a buffer; the     *)
(* table's entry for a path is a buffer of that path.                        *)
LockIsHeld == \A c \in Clients : lock = c <=> pc[c] \in {"opening", "releasing"}

ClientsMatchPc ==
    \A c \in Clients :
        /\ file[c] = Nil <=> pc[c] \in {"closed", "wantOpen", "opening"}
        /\ name[c] = Nil <=> pc[c] \in {"closed", "wantRelease", "releasing"}

TableMatchesPath ==
    \A p \in Paths : buffersByPath[p] # Nil => path[buffersByPath[p]] = p

(* The inductive invariant.                                                  *)
IInv ==
    /\ TypeOK
    /\ LockIsHeld
    /\ ClientsMatchPc
    /\ TableMatchesPath
    /\ RefCountIsHandles
    /\ NoLeak

(* A buffer with open files leaves the table only when a client releases     *)
(* ANOTHER buffer of the same path, one that was dropped before this one     *)
(* was loaded: no open, load or failure takes a buffer in use away.          *)
OnlyStaleReleaseEvicts ==
    [][\A p \in Paths :
         LET b == buffersByPath[p] IN
         b # Nil /\ refCount[b] > 0 /\ buffersByPath'[p] # b =>
             \E c \in Clients :
                 /\ pc[c] = "releasing"
                 /\ file[c] # b
                 /\ path[file[c]] = p
                 /\ refCount[file[c]] = 0]_vars

(* All AdbFiles that point to the same path are backed by the same           *)
(* FileBuffer (src/adb_file.go:34, src/file_buffer.go:36).                   *)
SharedBuffer ==
    \A c, d \in Clients :
        pc[c] = "open" /\ pc[d] = "open" /\ name[c] = name[d] => file[c] = file[d]

(* Every call of GetOrLoad and every release returns, however often the      *)
(* lock changes hands in between.                                            *)
CallsReturn ==
    \A c \in Clients : pc[c] \notin {"open", "closed"} ~> pc[c] \in {"open", "closed"}

(* A buffer in the table that nobody has open is deleted from it in the end, *)
(* or somebody opens it again.                                               *)
UnusedLeavesTable ==
    \A p \in Paths : Unused(p) ~> ~Unused(p)
=============================================================================
