----------------------------- MODULE FileBuffer -----------------------------
(***************************************************************************)
(* One file of the device held in memory (src/file_buffer.go), with its    *)
(* dirty timestamp (src/internal/util/dirty_timestamp.go).                 *)
(*                                                                         *)
(* Every method holds FileBuffer.lock from its first to its last line, the *)
(* device calls included, and NewFileBuffer works on an object nobody else *)
(* has: so each is one action.  The device is the client the buffer is     *)
(* given: an accurate Stat, streams that may fail at the start or midway.  *)
(* A buffer comes to life with NewFileBuffer and goes with Discard, when   *)
(* OpenFiles forgets it.                                                   *)
(***************************************************************************)
EXTENDS GrowableByteSlice, FileOpenFlags

CONSTANTS
    MaxLen,         \* bound: no file is longer
    Spares,         \* how many spare bytes ioutil.ReadAll may leave
    Absent,         \* the device has no file at the path
    DirtyTimeout,   \* how long the buffer may be dirty before a write saves it
    MaxTime         \* bound: the last tick of the clock

ASSUME BoundsAssumption == MaxLen \in Nat /\ Spares \subseteq Nat
ASSUME TimeAssumption == DirtyTimeout \in Nat /\ MaxTime \in Nat
ASSUME AbsentAssumption == Absent \notin Seq(Byte)

VARIABLES
    live,      \* whether the FileBuffer exists
    buffer,    \* FileBuffer.buffer
    dirty,     \* FileBuffer.dirty: when it was set, 0 if it is not
    now,       \* the clock
    device,    \* the contents of the file on the device, or Absent
    unsaved,   \* history: when the edits were made that were never saved
    edited     \* history: the contents the last of these edits left

vars == <<live, buffer, dirty, now, device, unsaved, edited>>

(* The contents a file of the device, or a write, may have.                  *)
Contents == UNION {[1..n -> Byte] : n \in 0..MaxLen}

Init ==
    /\ live = FALSE
    /\ buffer = Nothing
    /\ dirty = 0
    /\ now = 1
    /\ device \in {Absent} \cup Contents
    /\ unsaved = {}
    /\ edited = <<>>

-----------------------------------------------------------------------------

(* Mutant of DirtySet: the flag takes the time of the latest edit.           *)
DirtySetLatest == now

(* DirtyTimestamp.Set: the time of the first edit stays.                     *)
DirtySet == IF dirty = 0 THEN now ELSE dirty

(* Mutant of HasBeenDirtyFor: the clock is compared the wrong way round.     *)
HasBeenDirtyUnder(d) == dirty # 0 /\ now < dirty + d

HasBeenDirtyFor(d) == dirty # 0 /\ dirty + d < now

(* What a stream that broke, or was never opened, may have left: the first   *)
(* bytes of what it carried.                                                 *)
Prefixes(data) == {SubSeq(data, 1, n) : n \in 0..Len(data)}

(* Mutant of SaveToDevice: the flag is cleared before the stream is opened.  *)
SaveToDeviceCleared(data, since, edits, ok) ==
    /\ device' \in IF ok THEN {data} ELSE {device, Absent} \cup Prefixes(data)
    /\ dirty' = 0
    /\ unsaved' = IF ok THEN {} ELSE edits

(* saveToDevice of data, dirty since a time with edits that are not saved:   *)
(* the flag is cleared only after the stream is closed without an error.  On *)
(* an error the file may be the old one, gone, or any part of the new one.   *)
SaveToDevice(data, since, edits, ok) ==
    /\ device' \in IF ok THEN {data} ELSE {device, Absent} \cup Prefixes(data)
    /\ dirty' = IF ok THEN 0 ELSE since
    /\ unsaved' = IF ok THEN {} ELSE edits

(* loadFromDevice into buf: the bytes read replace the buffer, also when the *)
(* stream fails after some of them.  If it cannot be opened, buf stays.      *)
LoadFromDevice(buf, ok) ==
    /\ ok => device # Absent
    /\ \/ ~ok /\ buffer' = buf
       \/ /\ device # Absent
          /\ \E data \in (IF ok THEN {device} ELSE Prefixes(device)), spare \in Spares :
                 buffer' = Loaded(data, spare)
    /\ UNCHANGED <<device, dirty, unsaved, edited>>

(* The end of initialize: an empty file to create or truncate is marked      *)
(* dirty and saved, any other is loaded.  Sync's error is dropped.           *)
InitialSync(flags, ok) ==
    IF device = Absent \/ Contains(flags, {"O_TRUNC"})
    THEN buffer' = Nothing /\ edited' = <<>> /\ SaveToDevice(<<>>, now, {now}, ok)
    ELSE LoadFromDevice(Nothing, ok)

(* NewFileBuffer, when it returns a buffer.  (Otherwise nothing changes.)    *)
NewFileBuffer(flags, ok) ==
    /\ ~live
    /\ RequiresWrite(flags) => CanWrite(flags)
    /\ device = Absent => Contains(flags, {"O_CREATE"})
    /\ live' = TRUE
    /\ InitialSync(flags, ok)
    /\ UNCHANGED now

(* FileBuffer.WriteAt and SetSize set the flag, then edit.                   *)
Edit(result) ==
    /\ live
    /\ dirty' = DirtySet
    /\ unsaved' = unsaved \cup {now}
    /\ buffer' = result
    /\ edited' = Data(result)
    /\ UNCHANGED <<live, now, device>>

WriteAt(data, off) == Edit(Written(buffer, data, off))

(* Mutant of SetSize: one byte too few.                                      *)
SetSizeShort(size) == Edit(Resized(buffer, size - 1))

SetSize(size) == Edit(Resized(buffer, size))

Save(ok) ==
    /\ SaveToDevice(Data(buffer), dirty, unsaved, ok)
    /\ edited' = IF ok THEN <<>> ELSE edited
    /\ UNCHANGED buffer

(* Mutant of Sync: it loads whether or not the buffer is dirty.              *)
SyncAlwaysLoads(ok) ==
    /\ live
    /\ LoadFromDevice(buffer, ok)
    /\ UNCHANGED <<live, now>>

Sync(ok) ==
    /\ live
    /\ IF dirty # 0 THEN Save(ok) ELSE LoadFromDevice(buffer, ok)
    /\ UNCHANGED <<live, now>>

(* Flush and SyncIfTooDirty: save on a condition, else do nothing.           *)
SaveIf(condition, ok) ==
    /\ live
    /\ IF condition THEN Save(ok) ELSE ok /\ UNCHANGED <<buffer, dirty, device, unsaved, edited>>
    /\ UNCHANGED <<live, now>>

Flush(ok) == SaveIf(dirty # 0, ok)

SyncIfTooDirty(ok) == SaveIf(HasBeenDirtyFor(DirtyTimeout), ok)

(* OpenFiles.release drops the buffer, dirty or not.                         *)
Discard ==
    /\ live
    /\ live' = FALSE
    /\ buffer' = Nothing
    /\ dirty' = 0
    /\ unsaved' = {}
    /\ edited' = <<>>
    /\ UNCHANGED <<now, device>>

Tick ==
    /\ now < MaxTime
    /\ now' = now + 1
    /\ UNCHANGED <<live, buffer, dirty, device, unsaved, edited>>

(* Other programs write, create or remove the file on the device.            *)
DeviceChange ==
    /\ device' \in {Absent} \cup Contents
    /\ UNCHANGED <<live, buffer, dirty, now, unsaved, edited>>

Next ==
    \/ \E ok \in BOOLEAN :
        \/ \E flags \in OpenFlags : NewFileBuffer(flags, ok)
        \/ Sync(ok)
        \/ Flush(ok)
        \/ SyncIfTooDirty(ok)
    \/ \E data \in Contents, off \in 0..MaxLen :
           off + Len(data) <= MaxLen /\ WriteAt(data, off)
    \/ \E size \in 0..MaxLen : SetSize(size)
    \/ Discard
    \/ Tick
    \/ DeviceChange

Spec == Init /\ [][Next]_vars

-----------------------------------------------------------------------------

TypeOK ==
    /\ live \in BOOLEAN
    /\ buffer \in Slices
    /\ dirty \in Nat
    /\ now \in Nat \ {0}
    /\ device = Absent \/ device \in Seq(Byte)
    /\ unsaved \subseteq 1..now
    /\ edited \in Seq(Byte)

(* The timestamp is the time of the OLDEST edit that was never saved, and is *)
(* unset exactly when there is none, through any sequence of edits, saves,   *)
(* failed saves and failed creations (src/internal/util/dirty_timestamp.go:7 *)
(* and src/file_buffer.go:254).  The timeout is measured from it.            *)
DirtyIsOldestUnsaved ==
    IF unsaved = {}
    THEN dirty = 0
    ELSE dirty \in unsaved /\ \A t \in unsaved : dirty <= t

(* A buffer that was edited since it was last saved holds what the last edit *)
(* left, whatever saves and loads were tried and failed since: nothing is    *)
(* loaded over an edit (src/file_buffer.go:153), and only the release of the *)
(* buffer drops one.                                                         *)
UnsavedEditsStay == unsaved # {} => live /\ Data(buffer) = edited

(* A buffer is a file edited in memory: no edit is reloaded over, forgotten  *)
(* by a failed save, or taken for saved when only a part of it was.          *)
WriteBack == INSTANCE WriteBackFile WITH
    Contents <- Seq(Byte),
    Empty <- <<>>,
    Closed <- Absent,
    Clean <- Absent,
    memory <- IF live THEN Data(buffer) ELSE Absent,
    store <- device,
    edited <- IF unsaved = {} THEN Absent ELSE edited

ImplementsWriteBackFile == WriteBack!Spec
=============================================================================
