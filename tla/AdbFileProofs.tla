--------------------------- MODULE AdbFileProofs ---------------------------
(***************************************************************************)
(* Proofs about the buffer of a file, for any bytes, bounds and timeout    *)
(* (its timestamp is that of the oldest unsaved edit, and it implements a  *)
(* file edited in memory, WriteBackFile), and then about the handles of    *)
(* the file, for any set of them.  What handles do to the buffer are steps *)
(* of FileBuffer, so its invariant is preserved by the lemmas of the first *)
(* part; the rest follows what each handle owes.                           *)
(***************************************************************************)
EXTENDS AdbFile, GrowableByteSliceProofs

(* The inductive invariant.                                                  *)
IInv == TypeOK /\ DirtyIsOldestUnsaved /\ UnsavedEditsStay

LEMMA ContentsAreSequences == Contents \subseteq Seq(Byte)
  BY DEF Contents

(* A piece of a stream is itself a sequence of bytes.                        *)
LEMMA PrefixesAreSequences ==
    ASSUME NEW data \in Seq(Byte)
    PROVE  Prefixes(data) \subseteq Seq(Byte)
  BY DEF Prefixes

LEMMA NothingIsSlice == Nothing \in Slices /\ Data(Nothing) = <<>>
  BY DEF Nothing, Slices, Data

(* What the window of a slice shows is a sequence of bytes.                  *)
LEMMA DataIsSequence ==
    ASSUME NEW s \in Slices
    PROVE  Data(s) \in Seq(Byte)
<1>1. \A i \in 1..s.len : s.array[i] \in Byte
  BY DEF Slices
<1>2. QED
  BY <1>1 DEF Slices, Data

-----------------------------------------------------------------------------

(* A save leaves the file of the device well formed, and the flag and the    *)
(* history agree if they agreed on the edits it was asked to save.           *)
LEMMA SaveToDeviceResult ==
    ASSUME TypeOK,
           NEW data \in Seq(Byte), NEW since \in Nat, NEW edits \in SUBSET (1..now),
           since \in edits /\ (\A t \in edits : since <= t),
           NEW ok \in BOOLEAN, SaveToDevice(data, since, edits, ok)
    PROVE  /\ device' = Absent \/ device' \in Seq(Byte)
           /\ dirty' \in Nat
           /\ unsaved' \subseteq 1..now
           /\ DirtyIsOldestUnsaved'
<1>1. device' \in {data, device, Absent} \cup Prefixes(data)
  BY DEF SaveToDevice
<1>2. device' = Absent \/ device' \in Seq(Byte)
  BY <1>1, PrefixesAreSequences DEF TypeOK
<1>3. dirty' \in Nat /\ unsaved' \subseteq 1..now
  BY DEF SaveToDevice
<1>4. DirtyIsOldestUnsaved'
  BY DEF SaveToDevice, DirtyIsOldestUnsaved
<1>5. QED
  BY <1>2, <1>3, <1>4

(* A load leaves a slice, whether or not it fails, and touches nothing else. *)
LEMMA LoadFromDeviceResult ==
    ASSUME TypeOK, NEW buf \in Slices, NEW ok \in BOOLEAN, LoadFromDevice(buf, ok)
    PROVE  /\ buffer' \in Slices
           /\ UNCHANGED <<device, dirty, unsaved, edited>>
<1>1. CASE device = Absent
  BY <1>1 DEF LoadFromDevice
<1>2. CASE device \in Seq(Byte)
  <2>1. \A data \in Prefixes(device) \cup {device} : data \in Seq(Byte)
    BY <1>2, PrefixesAreSequences
  <2>2. QED
    BY <2>1, LoadedResult, BoundsAssumption DEF LoadFromDevice
<1>3. QED
  BY <1>1, <1>2 DEF TypeOK, LoadFromDevice

(* Each part of the buffer's methods preserves the invariant.                *)
LEMMA SavePreserves ==
    ASSUME IInv, dirty # 0, NEW ok \in BOOLEAN, Save(ok), UNCHANGED <<live, now>>
    PROVE  IInv'
<1>1. /\ Data(buffer) \in Seq(Byte)
      /\ dirty \in Nat
      /\ unsaved \in SUBSET (1..now)
      /\ dirty \in unsaved /\ \A t \in unsaved : dirty <= t
  BY DataIsSequence DEF IInv, TypeOK, DirtyIsOldestUnsaved
<1>2. /\ device' = Absent \/ device' \in Seq(Byte)
      /\ dirty' \in Nat
      /\ unsaved' \subseteq 1..now
      /\ DirtyIsOldestUnsaved'
  BY <1>1, SaveToDeviceResult DEF IInv, Save
<1>3. edited' \in Seq(Byte) /\ UnsavedEditsStay'
  BY DEF IInv, TypeOK, Save, SaveToDevice, UnsavedEditsStay
<1>4. QED
  BY <1>2, <1>3 DEF IInv, TypeOK, Save

LEMMA LoadPreserves ==
    ASSUME IInv, dirty = 0, NEW ok \in BOOLEAN, LoadFromDevice(buffer, ok),
           UNCHANGED <<live, now>>
    PROVE  IInv'
<1>1. buffer' \in Slices /\ UNCHANGED <<device, dirty, unsaved, edited>>
  BY LoadFromDeviceResult DEF IInv, TypeOK
<1>2. unsaved = {}
  BY DEF IInv, TypeOK, DirtyIsOldestUnsaved
<1>3. QED
  BY <1>1, <1>2 DEF IInv, TypeOK, DirtyIsOldestUnsaved, UnsavedEditsStay

LEMMA SaveIfPreserves ==
    ASSUME IInv, NEW condition \in BOOLEAN, condition => dirty # 0,
           NEW ok \in BOOLEAN, SaveIf(condition, ok)
    PROVE  IInv'
<1>1. CASE condition
  BY <1>1, SavePreserves DEF SaveIf
<1>2. CASE ~condition
  BY <1>2 DEF SaveIf, IInv, TypeOK, DirtyIsOldestUnsaved, UnsavedEditsStay
<1>3. QED
  BY <1>1, <1>2

LEMMA EditPreserves ==
    ASSUME IInv, NEW result \in Slices, Edit(result)
    PROVE  IInv'
<1>1. TypeOK'
  BY DataIsSequence DEF IInv, TypeOK, Edit, DirtySet
<1>2. DirtyIsOldestUnsaved'
  BY DEF IInv, TypeOK, Edit, DirtySet, DirtyIsOldestUnsaved
<1>3. UnsavedEditsStay'
  BY DEF Edit, UnsavedEditsStay
<1>4. QED
  BY <1>1, <1>2, <1>3 DEF IInv

LEMMA NewFileBufferPreserves ==
    ASSUME IInv, NEW choice \in OpenFlags, NEW ok \in BOOLEAN, NewFileBuffer(choice, ok)
    PROVE  IInv'
<1>1. CASE buffer' = Nothing /\ edited' = <<>> /\ SaveToDevice(<<>>, now, {now}, ok)
  <2>1. /\ now \in Nat /\ {now} \in SUBSET (1..now) /\ <<>> \in Seq(Byte)
        /\ now \in {now} /\ \A t \in {now} : now <= t
    BY DEF IInv, TypeOK
  <2>2. /\ device' = Absent \/ device' \in Seq(Byte)
        /\ dirty' \in Nat
        /\ unsaved' \subseteq 1..now
        /\ DirtyIsOldestUnsaved'
    BY <1>1, <2>1, SaveToDeviceResult DEF IInv
  <2>3. UnsavedEditsStay'
    BY <1>1, NothingIsSlice DEF NewFileBuffer, UnsavedEditsStay
  <2>4. QED
    BY <1>1, <2>2, <2>3, NothingIsSlice DEF IInv, TypeOK, NewFileBuffer
<1>2. CASE LoadFromDevice(Nothing, ok)
  <2>1. buffer' \in Slices /\ UNCHANGED <<device, dirty, unsaved, edited>>
    BY <1>2, NothingIsSlice, LoadFromDeviceResult DEF IInv
  <2>2. QED
    BY <2>1 DEF IInv, TypeOK, DirtyIsOldestUnsaved, UnsavedEditsStay, NewFileBuffer
<1>3. QED
  BY <1>1, <1>2 DEF NewFileBuffer, InitialSync

LEMMA InitEstablishesIInv == Init => IInv
<1> SUFFICES ASSUME Init PROVE IInv
  OBVIOUS
<1>1. device = Absent \/ device \in Seq(Byte)
  BY ContentsAreSequences DEF Init
<1>2. TypeOK
  <2>1. live \in BOOLEAN
    BY Zenon DEF Init
  <2>2. dirty \in Nat /\ now \in Nat \ {0} /\ unsaved \subseteq 1..now
    BY SMT DEF Init
  <2>3. buffer \in Slices /\ edited \in Seq(Byte)
    BY NothingIsSlice DEF Init
  <2>4. QED
    BY <1>1, <2>1, <2>2, <2>3 DEF TypeOK
<1>3. DirtyIsOldestUnsaved /\ UnsavedEditsStay
  BY DEF Init, DirtyIsOldestUnsaved, UnsavedEditsStay
<1>4. QED
  BY <1>2, <1>3 DEF IInv

LEMMA NextPreservesIInv == IInv /\ [Next]_vars => IInv'
<1> SUFFICES ASSUME IInv, [Next]_vars
             PROVE  IInv'
  OBVIOUS
<1>1. ASSUME NEW choice \in OpenFlags, NEW ok \in BOOLEAN, NewFileBuffer(choice, ok)
      PROVE  IInv'
  BY <1>1, NewFileBufferPreserves
<1>2. ASSUME NEW ok \in BOOLEAN, Sync(ok)
      PROVE  IInv'
  BY <1>2, SavePreserves, LoadPreserves DEF Sync
<1>3. ASSUME NEW ok \in BOOLEAN, Flush(ok) \/ SyncIfTooDirty(ok)
      PROVE  IInv'
  BY <1>3, SaveIfPreserves DEF Flush, SyncIfTooDirty, HasBeenDirtyFor
<1>4. ASSUME NEW data \in Contents, NEW off \in 0..MaxLen, WriteAt(data, off)
      PROVE  IInv'
  <2>1. Written(buffer, data, off) \in Slices
    BY WrittenResult, ContentsAreSequences, BoundsAssumption DEF IInv, TypeOK
  <2>2. QED
    BY <1>4, <2>1, EditPreserves DEF WriteAt
<1>5. ASSUME NEW size \in 0..MaxLen, SetSize(size)
      PROVE  IInv'
  <2>1. Resized(buffer, size) \in Slices
    BY ResizedResult, BoundsAssumption DEF IInv, TypeOK
  <2>2. QED
    BY <1>5, <2>1, EditPreserves DEF SetSize
<1>6. CASE Discard
  <2>1. live' \in BOOLEAN
    BY <1>6, Zenon DEF Discard
  <2>2. UNCHANGED <<now, device>> /\ buffer' \in Slices /\ edited' \in Seq(Byte)
    BY <1>6, NothingIsSlice DEF Discard
  <2>3. dirty' = 0 /\ unsaved' = {}
    BY <1>6 DEF Discard
  <2>4. QED
    BY <2>1, <2>2, <2>3 DEF IInv, TypeOK, DirtyIsOldestUnsaved, UnsavedEditsStay
<1>7. CASE Tick
  BY <1>7 DEF Tick, IInv, TypeOK, DirtyIsOldestUnsaved, UnsavedEditsStay
<1>8. CASE DeviceChange
  BY <1>8, ContentsAreSequences
  DEF DeviceChange, IInv, TypeOK, DirtyIsOldestUnsaved, UnsavedEditsStay
<1>9. CASE UNCHANGED vars
  BY <1>9 DEF vars, IInv, TypeOK, DirtyIsOldestUnsaved, UnsavedEditsStay
<1>10. QED
  BY <1>1, <1>2, <1>3, <1>4, <1>5, <1>6, <1>7, <1>8, <1>9 DEF Next

THEOREM Invariance == Spec => []IInv
<1>1. QED
  BY InitEstablishesIInv, NextPreservesIInv, PTL DEF Spec

(* Type correctness of the buffer, its flag and the device's file.           *)
THEOREM TypeCorrect == Spec => []TypeOK
<1>1. IInv => TypeOK
  BY DEF IInv
<1>2. QED
  BY <1>1, Invariance, PTL

(* The dirty timestamp is the time of the oldest edit that was never saved.  *)
THEOREM TimestampIsRight == Spec => []DirtyIsOldestUnsaved
<1>1. IInv => DirtyIsOldestUnsaved
  BY DEF IInv
<1>2. QED
  BY <1>1, Invariance, PTL

(* No failed call and no interleaved save loses an edit or loads over it.    *)
THEOREM EditsAreKept == Spec => []UnsavedEditsStay
<1>1. IInv => UnsavedEditsStay
  BY DEF IInv
<1>2. QED
  BY <1>1, Invariance, PTL

-----------------------------------------------------------------------------

(* A buffer that exists shows contents, which tells it from a closed file.   *)
LEMMA LiveIsOpen == TypeOK => (live => Data(buffer) \in Seq(Byte) /\ Data(buffer) # Absent)
  BY DataIsSequence, AbsentAssumption DEF TypeOK

LEMMA InitRefines == Init => WriteBack!Init
  BY ContentsAreSequences DEF Init, WriteBack!Init, WriteBack!Stored

(* Every step of the buffer is a step of the file edited in memory, or       *)
(* changes nothing that a user of the file could tell.                       *)
LEMMA SaveRefines ==
    ASSUME IInv, IInv', live, dirty # 0, NEW ok \in BOOLEAN,
           Save(ok), UNCHANGED <<live, now>>
    PROVE  WriteBack!Save \/ WriteBack!FailedSave
<1>1. /\ unsaved # {} /\ edited = Data(buffer) /\ edited # Absent
      /\ Data(buffer) # Absent
  BY LiveIsOpen DEF IInv, DirtyIsOldestUnsaved, UnsavedEditsStay
<1>2. CASE ok
  BY <1>1, <1>2 DEF Save, SaveToDevice, WriteBack!Save
<1>3. CASE ~ok
  <2>1. device' \in WriteBack!Stored
    BY DEF IInv, TypeOK, WriteBack!Stored
  <2>2. QED
    BY <1>1, <1>3, <2>1 DEF Save, SaveToDevice, WriteBack!FailedSave
<1>4. QED
  BY <1>2, <1>3

LEMMA LoadRefines ==
    ASSUME IInv, IInv', live, dirty = 0, NEW ok \in BOOLEAN,
           LoadFromDevice(buffer, ok), UNCHANGED <<live, now>>
    PROVE  WriteBack!Reload
<1>1. unsaved = {} /\ Data(buffer) # Absent /\ Data(buffer)' \in Seq(Byte)
  BY LiveIsOpen, DataIsSequence DEF IInv, TypeOK, DirtyIsOldestUnsaved
<1>2. QED
  BY <1>1 DEF LoadFromDevice, WriteBack!Reload

LEMMA NewFileBufferRefines ==
    ASSUME IInv, IInv', NEW choice \in OpenFlags, NEW ok \in BOOLEAN,
           NewFileBuffer(choice, ok)
    PROVE  WriteBack!Open \/ WriteBack!OpenEmpty
<1>1. ~live /\ live' /\ Data(buffer)' \in Seq(Byte)
  BY DataIsSequence DEF NewFileBuffer, IInv, TypeOK
<1>2. CASE buffer' = Nothing /\ edited' = <<>> /\ SaveToDevice(<<>>, now, {now}, ok)
  <2>1. Data(buffer)' = <<>>
    BY <1>2, NothingIsSlice
  <2>2. device' \in WriteBack!Stored
    BY DEF IInv, TypeOK, WriteBack!Stored
  <2>3. \/ device' = <<>> /\ (unsaved # {})' = FALSE
        \/ (unsaved # {})' = TRUE
    BY <1>2 DEF SaveToDevice
  <2>4. QED
    BY <1>1, <1>2, <2>1, <2>2, <2>3 DEF WriteBack!OpenEmpty
<1>3. CASE device # Absent /\ LoadFromDevice(Nothing, ok)
  BY <1>1, <1>3 DEF LoadFromDevice, WriteBack!Open
<1>4. QED
  BY <1>2, <1>3 DEF NewFileBuffer, InitialSync

LEMMA EditRefines ==
    ASSUME IInv, IInv', NEW result, Edit(result)
    PROVE  WriteBack!Edit
<1>1. live /\ live' /\ Data(buffer) # Absent /\ Data(buffer)' \in Seq(Byte)
  BY LiveIsOpen, DataIsSequence DEF Edit, IInv, TypeOK
<1>2. (unsaved # {})' = TRUE
  BY DEF Edit
<1>3. QED
  BY <1>1, <1>2 DEF Edit, WriteBack!Edit

LEMMA NextRefines == IInv /\ IInv' /\ [Next]_vars => [WriteBack!Next]_WriteBack!vars
<1> SUFFICES ASSUME IInv, IInv', [Next]_vars
             PROVE  WriteBack!Next \/ UNCHANGED WriteBack!vars
  OBVIOUS
<1> USE DEF WriteBack!Next
<1>1. ASSUME NEW choice \in OpenFlags, NEW ok \in BOOLEAN, NewFileBuffer(choice, ok)
      PROVE  WriteBack!Next
  BY <1>1, NewFileBufferRefines
<1>2. ASSUME NEW ok \in BOOLEAN, Sync(ok)
      PROVE  WriteBack!Next
  BY <1>2, SaveRefines, LoadRefines DEF Sync
<1>3. ASSUME NEW ok \in BOOLEAN, NEW condition \in BOOLEAN,
             condition => dirty # 0, SaveIf(condition, ok)
      PROVE  WriteBack!Next \/ UNCHANGED WriteBack!vars
  <2>1. CASE condition
    BY <1>3, <2>1, SaveRefines DEF SaveIf
  <2>2. CASE ~condition
    BY <1>3, <2>2 DEF SaveIf, WriteBack!vars
  <2>3. QED
    BY <2>1, <2>2
<1>4. ASSUME NEW ok \in BOOLEAN, Flush(ok) \/ SyncIfTooDirty(ok)
      PROVE  WriteBack!Next \/ UNCHANGED WriteBack!vars
  BY <1>3, <1>4 DEF Flush, SyncIfTooDirty, HasBeenDirtyFor
<1>5. ASSUME NEW data \in Contents, NEW off \in 0..MaxLen, WriteAt(data, off)
      PROVE  WriteBack!Next
  BY <1>5, EditRefines DEF WriteAt
<1>6. ASSUME NEW size \in 0..MaxLen, SetSize(size)
      PROVE  WriteBack!Next
  BY <1>6, EditRefines DEF SetSize
<1>7. CASE Discard
  <2>1. Data(buffer) # Absent
    BY <1>7, LiveIsOpen DEF Discard, IInv
  <2>2. QED
    BY <1>7, <2>1 DEF Discard, WriteBack!Close
<1>8. CASE Tick
  BY <1>8 DEF Tick, WriteBack!vars
<1>9. CASE DeviceChange
  <2>1. device' \in WriteBack!Stored
    BY DEF IInv, TypeOK, WriteBack!Stored
  <2>2. QED
    BY <1>9, <2>1 DEF DeviceChange, WriteBack!ChangeStore
<1>10. CASE UNCHANGED vars
  BY <1>10 DEF vars, WriteBack!vars
<1>11. QED
  BY <1>1, <1>2, <1>4, <1>5, <1>6, <1>7, <1>8, <1>9, <1>10 DEF Next

(* A FileBuffer is a file edited in memory: once it holds an edit, it keeps  *)
(* its contents until ALL of them were stored, or its last user is gone.     *)
THEOREM BufferImplementsFile == Spec => ImplementsWriteBackFile
<1>1. QED
  BY InitRefines, NextRefines, Invariance, PTL
  DEF Spec, ImplementsWriteBackFile, WriteBack!Spec

-----------------------------------------------------------------------------

(* Every step of the handles is a step of the buffer, or leaves it alone.    *)
LEMMA StepsAreBufferSteps == [AdbFileNext]_adbFileVars => [Next]_vars
<1> SUFFICES ASSUME [AdbFileNext]_adbFileVars
             PROVE  Next \/ UNCHANGED vars
  OBVIOUS
<1> USE DEF Next
<1>1. ASSUME NEW h \in Handles, NEW f \in FlagChoices, NEW ok \in BOOLEAN, Open(h, f, ok)
      PROVE  Next \/ UNCHANGED vars
  BY <1>1, FlagsAssumption DEF Open
<1>2. ASSUME NEW h \in Handles, NEW data \in Contents, NEW off \in 0..MaxLen,
             off + Len(data) <= MaxLen, Write(h, data, off)
      PROVE  Next
  BY <1>2 DEF Write
<1>3. ASSUME NEW h \in Handles, NEW size \in 0..MaxLen, Truncate(h, size)
      PROVE  Next
  BY <1>3 DEF Truncate
<1>4. ASSUME NEW h \in Handles, NEW ok \in BOOLEAN,
             FinishWrite(h, ok) \/ FinishTruncate(h, ok) \/ Fsync(h, ok)
      PROVE  Next
  BY <1>4 DEF FinishWrite, FinishTruncate, Fsync
<1>5. ASSUME NEW h \in Handles, NEW ok \in BOOLEAN, FlushHandle(h, ok)
      PROVE  Next \/ UNCHANGED vars
  BY <1>5 DEF FlushHandle
<1>6. ASSUME NEW h \in Handles, Release(h)
      PROVE  Next \/ UNCHANGED vars
  BY <1>6 DEF Release
<1>7. CASE Environment
  BY <1>7 DEF Environment
<1>8. CASE UNCHANGED adbFileVars
  BY <1>8 DEF adbFileVars
<1>9. QED
  BY <1>1, <1>2, <1>3, <1>4, <1>5, <1>6, <1>7, <1>8 DEF AdbFileNext

(* The buffer's methods change the history in one of three ways: an edit     *)
(* adds to it, a save empties it, and everything else leaves it.             *)
LEMMA SavesAndLoads ==
    ASSUME NEW ok \in BOOLEAN, Sync(ok) \/ Flush(ok) \/ SyncIfTooDirty(ok)
    PROVE  /\ live /\ live'
           /\ unsaved' \in {unsaved, {}}
  BY DEF Sync, Flush, SyncIfTooDirty, SaveIf, Save, SaveToDevice, LoadFromDevice

(* A new buffer has unsaved edits only if its opener can write.              *)
LEMMA NewFileBufferHistory ==
    ASSUME NEW f \in OpenFlags, NEW ok \in BOOLEAN, NewFileBuffer(f, ok)
    PROVE  /\ ~live /\ live'
           /\ unsaved' # {} => unsaved' = unsaved \/ (CanWrite(f) /\ IsWriteOp(f))
           /\ ~IsWriteOp(f) => UNCHANGED <<dirty, unsaved>>
<1>1. CASE device = Absent \/ Contains(f, {"O_TRUNC"})
  <2>1. Contains(f, {"O_CREATE"}) \/ Contains(f, {"O_TRUNC"})
    BY <1>1 DEF NewFileBuffer
  <2>2. RequiresWrite(f) /\ IsWriteOp(f)
    BY <2>1 DEF Contains, RequiresWrite, IsWriteOp
  <2>3. QED
    BY <2>2 DEF NewFileBuffer
<1>2. CASE ~(device = Absent \/ Contains(f, {"O_TRUNC"}))
  BY <1>2 DEF NewFileBuffer, InitialSync, LoadFromDevice
<1>3. QED
  BY <1>1, <1>2

LEMMA WritersAreWriteOps ==
    ASSUME NEW f, CanWrite(f)
    PROVE  IsWriteOp(f)
  BY DEF CanWrite, IsWriteOp, Contains

-----------------------------------------------------------------------------

(* The parts of the invariant that speak of handles.                         *)
HandlesTyped ==
    /\ readOnly \in BOOLEAN
    /\ pc \in [Handles -> PCs]
    /\ flags \in [Handles -> {{}} \cup FlagChoices]
    /\ flushed \in [Handles -> {"none", "ok", "error"}]
    /\ owes \subseteq Handles

HandlesInv ==
    /\ HandlesTyped
    /\ DebtorsCanFlush
    /\ ReadOnlyHandles
    /\ readOnly => unsaved = {}

LEMMA InvariantIsBoth ==
    /\ AdbFileIInv <=> IInv /\ HandlesInv
    /\ AdbFileIInv' <=> IInv' /\ HandlesInv'
  BY DEF AdbFileIInv, AdbFileTypeOK, IInv, HandlesInv, HandlesTyped,
         DirtyIsOldestUnsaved, UnsavedEditsStay, ReadOnlyNeverDirty

(* Opening: a reused buffer owes the new handle nothing; a new one may owe   *)
(* the creation or truncation, which only a writer can ask for.              *)
LEMMA OpenKeepsHandles ==
    ASSUME IInv, HandlesInv,
           NEW h \in Handles, NEW f \in FlagChoices, NEW ok \in BOOLEAN, Open(h, f, ok)
    PROVE  HandlesInv'
<1>0. f \in OpenFlags
  BY FlagsAssumption
<1>1. HandlesTyped'
  BY DEF Open, Owing, HandlesInv, HandlesTyped, PCs
<1>2. h \notin owes
  BY DEF Open, HandlesInv, DebtorsCanFlush
<1>3. CASE live
  <2>1. UNCHANGED <<live, unsaved>> /\ owes' \subseteq owes
    BY <1>3 DEF Open, Owing, vars
  <2>2. DebtorsCanFlush'
    BY <1>2, <2>1 DEF Open, HandlesInv, HandlesTyped, DebtorsCanFlush
  <2>3. ReadOnlyHandles' /\ (readOnly => unsaved = {})'
    BY <2>1, WritersAreWriteOps
    DEF Open, MayOpen, HandlesInv, HandlesTyped, ReadOnlyHandles
  <2>4. QED
    BY <1>1, <2>2, <2>3 DEF HandlesInv
<1>4. CASE ~live
  <2>1. /\ NewFileBuffer(f, ok)
        /\ live'
        /\ unsaved' # {} => unsaved' = unsaved \/ (CanWrite(f) /\ IsWriteOp(f))
    BY <1>0, <1>4, NewFileBufferHistory DEF Open
  <2>2. unsaved = {}
    BY <1>4 DEF HandlesInv, IInv, UnsavedEditsStay
  <2>3. owes' # {} => CanWrite(f) /\ IsWriteOp(f) /\ owes' = owes \cup {h}
    BY <1>4, <2>1, <2>2 DEF Open, Owing
  <2>4. DebtorsCanFlush'
    BY <1>2, <2>3 DEF Open, HandlesInv, HandlesTyped, DebtorsCanFlush
  <2>5. ReadOnlyHandles' /\ (readOnly => unsaved = {})'
    BY <2>1, <2>2, WritersAreWriteOps
    DEF Open, MayOpen, HandlesInv, HandlesTyped, ReadOnlyHandles
  <2>6. QED
    BY <1>1, <2>4, <2>5 DEF HandlesInv
<1>5. QED
  BY <1>3, <1>4

(* The first half of an edit: the editor is a writer.                        *)
LEMMA StartEditKeepsHandles ==
    ASSUME IInv, HandlesInv,
           NEW h \in Handles, NEW next \in {"wrote", "resized"},
           NEW result, Edit(result), StartEdit(h, next)
    PROVE  HandlesInv'
<1>1. HandlesTyped'
  BY DEF StartEdit, Owing, HandlesInv, HandlesTyped, PCs
<1>2. live' /\ ~readOnly /\ owes' \subseteq owes \cup {h}
  BY DEF Edit, StartEdit, Owing, HandlesInv, ReadOnlyHandles
<1>3. DebtorsCanFlush'
  BY <1>2 DEF StartEdit, HandlesInv, HandlesTyped, DebtorsCanFlush
<1>4. QED
  BY <1>1, <1>2, <1>3
  DEF StartEdit, HandlesInv, HandlesTyped, ReadOnlyHandles

(* The second half of an edit, and fsync, add no debt.                       *)
LEMMA SyncKeepsHandles ==
    ASSUME IInv, HandlesInv, NEW h \in Handles, NEW ok \in BOOLEAN,
           FinishWrite(h, ok) \/ FinishTruncate(h, ok) \/ Fsync(h, ok)
    PROVE  HandlesInv'
<1>1. /\ live' /\ unsaved' \in {unsaved, {}}
      /\ owes' \subseteq owes
      /\ UNCHANGED <<readOnly, flags, flushed>>
      /\ pc' \in {pc, [pc EXCEPT ![h] = "open"]}
  BY SavesAndLoads DEF FinishWrite, FinishTruncate, FinishEdit, Fsync, Owing
<1>2. HandlesTyped'
  BY <1>1 DEF HandlesInv, HandlesTyped, PCs
<1>3. DebtorsCanFlush'
  BY <1>1 DEF HandlesInv, HandlesTyped, DebtorsCanFlush
<1>4. QED
  BY <1>1, <1>2, <1>3 DEF HandlesInv, ReadOnlyHandles

(* A flush that succeeds for a writer leaves no debt at all; other handles   *)
(* were in no debt.                                                          *)
LEMMA FlushKeepsHandles ==
    ASSUME IInv, HandlesInv, NEW h \in Handles, NEW ok \in BOOLEAN, FlushHandle(h, ok)
    PROVE  HandlesInv'
<1>1. HandlesTyped'
  BY DEF FlushHandle, Owing, HandlesInv, HandlesTyped
<1>2. owes' \subseteq owes /\ unsaved' \in {unsaved, {}} /\ (live' <=> live)
  BY SavesAndLoads DEF FlushHandle, Owing, vars
<1>3. ok /\ CanWrite(flags[h]) => owes' = {}
  <2> SUFFICES ASSUME ok, CanWrite(flags[h])
               PROVE  unsaved' = {}
    BY DEF FlushHandle, Owing
  <2>1. Flush(ok)
    BY DEF FlushHandle
  <2>2. CASE dirty = 0
    <3>1. unsaved = {}
      BY <2>2 DEF IInv, TypeOK, DirtyIsOldestUnsaved
    <3>2. QED
      BY <2>1, <2>2, <3>1 DEF Flush, SaveIf
  <2>3. CASE dirty # 0
    BY <2>1, <2>3 DEF Flush, SaveIf, Save, SaveToDevice
  <2>4. QED
    BY <2>2, <2>3
<1>4. DebtorsCanFlush'
  <2> SUFFICES ASSUME NEW g \in owes'
               PROVE  pc'[g] # "closed" /\ CanWrite(flags'[g]) /\ flushed'[g] # "ok"
    BY DEF DebtorsCanFlush
  <2>1. g \in owes /\ UNCHANGED <<pc, flags>>
    BY <1>2 DEF FlushHandle
  <2>2. pc[g] # "closed" /\ CanWrite(flags[g]) /\ flushed[g] # "ok"
    BY <2>1 DEF HandlesInv, DebtorsCanFlush
  <2>3. flushed'[g] # "ok"
    BY <1>3, <2>2 DEF FlushHandle, HandlesInv, HandlesTyped
  <2>4. QED
    BY <2>1, <2>2, <2>3
<1>5. QED
  BY <1>1, <1>2, <1>4 DEF FlushHandle, HandlesInv, ReadOnlyHandles

(* A handle that goes takes its debt with it.                                *)
LEMMA ReleaseKeepsHandles ==
    ASSUME IInv, HandlesInv, NEW h \in Handles, Release(h)
    PROVE  HandlesInv'
<1>1. HandlesTyped'
  BY DEF Release, HandlesInv, HandlesTyped, PCs
<1>2. unsaved' \in {unsaved, {}}
  BY DEF Release, Discard, vars, HandlesInv
<1>3. DebtorsCanFlush'
  BY DEF Release, HandlesInv, HandlesTyped, DebtorsCanFlush
<1>4. ReadOnlyHandles'
  <2>1. ~CanWrite({})
    BY DEF CanWrite, Contains
  <2>2. QED
    BY <2>1 DEF Release, HandlesInv, HandlesTyped, ReadOnlyHandles
<1>5. QED
  BY <1>1, <1>2, <1>3, <1>4 DEF Release, HandlesInv

LEMMA AdbFileInitEstablishes == AdbFileInit => AdbFileIInv
<1> SUFFICES ASSUME AdbFileInit
             PROVE  IInv /\ HandlesInv
  BY InvariantIsBoth
<1>1. IInv
  BY InitEstablishesIInv DEF AdbFileInit
<1>2. ~CanWrite({})
  BY DEF CanWrite, Contains
<1>3. HandlesInv
  BY <1>2
  DEF AdbFileInit, Init, HandlesInv, HandlesTyped, PCs, DebtorsCanFlush,
      ReadOnlyHandles
<1>4. QED
  BY <1>1, <1>3

LEMMA AdbFileNextPreserves == AdbFileIInv /\ [AdbFileNext]_adbFileVars => AdbFileIInv'
<1> SUFFICES ASSUME IInv, HandlesInv, [AdbFileNext]_adbFileVars
             PROVE  IInv' /\ HandlesInv'
  BY InvariantIsBoth
<1>1. IInv'
  BY StepsAreBufferSteps, NextPreservesIInv
<1>2. ASSUME NEW h \in Handles, NEW f \in FlagChoices, NEW ok \in BOOLEAN, Open(h, f, ok)
      PROVE  HandlesInv'
  BY <1>2, OpenKeepsHandles
<1>3. ASSUME NEW h \in Handles, NEW data \in Contents, NEW off \in 0..MaxLen,
             Write(h, data, off)
      PROVE  HandlesInv'
  BY <1>3, StartEditKeepsHandles DEF Write, WriteAt
<1>4. ASSUME NEW h \in Handles, NEW size \in 0..MaxLen, Truncate(h, size)
      PROVE  HandlesInv'
  BY <1>4, StartEditKeepsHandles DEF Truncate, SetSize
<1>5. ASSUME NEW h \in Handles, NEW ok \in BOOLEAN,
             FinishWrite(h, ok) \/ FinishTruncate(h, ok) \/ Fsync(h, ok)
      PROVE  HandlesInv'
  BY <1>5, SyncKeepsHandles
<1>6. ASSUME NEW h \in Handles, NEW ok \in BOOLEAN, FlushHandle(h, ok)
      PROVE  HandlesInv'
  BY <1>6, FlushKeepsHandles
<1>7. ASSUME NEW h \in Handles, Release(h)
      PROVE  HandlesInv'
  BY <1>7, ReleaseKeepsHandles
<1>8. ASSUME Environment
      PROVE  HandlesInv'
  <2>1. UNCHANGED <<live, unsaved, readOnly, pc, flags, flushed, owes>>
    BY <1>8 DEF Environment, Tick, DeviceChange
  <2>2. QED
    BY <2>1 DEF HandlesInv, HandlesTyped, DebtorsCanFlush, ReadOnlyHandles
<1>9. ASSUME UNCHANGED adbFileVars
      PROVE  HandlesInv'
  BY <1>9
  DEF adbFileVars, vars, handleVars, HandlesInv, HandlesTyped, DebtorsCanFlush,
      ReadOnlyHandles
<1>10. QED
  BY <1>1, <1>2, <1>3, <1>4, <1>5, <1>6, <1>7, <1>8, <1>9 DEF AdbFileNext

-----------------------------------------------------------------------------

THEOREM AdbFileInvariance == AdbFileSpec => []AdbFileIInv
<1>1. QED
  BY AdbFileInitEstablishes, AdbFileNextPreserves, PTL DEF AdbFileSpec

(* A handle whose flush returned OK has every edit of its own on the device. *)
THEOREM FlushIsHonest == AdbFileSpec => []FlushedIsSaved
<1>1. AdbFileIInv => FlushedIsSaved
  BY DEF AdbFileIInv, DebtorsCanFlush, FlushedIsSaved
<1>2. QED
  BY <1>1, AdbFileInvariance, PTL

(* A filesystem mounted read-only never has anything to save.                *)
THEOREM ReadOnlyIsSafe == AdbFileSpec => []ReadOnlyNeverDirty
<1>1. AdbFileIInv => ReadOnlyNeverDirty
  BY DEF AdbFileIInv
<1>2. QED
  BY <1>1, AdbFileInvariance, PTL

(* After a write that returns OK, no edit is older than the dirty timeout.   *)
THEOREM StalenessIsBounded == AdbFileSpec => WriteBoundsStaleness
<1> DEFINE Bounded ==
      \A h \in Handles :
         FinishWrite(h, TRUE) => \A t \in unsaved' : now <= t + DirtyTimeout
<1>1. AdbFileIInv => Bounded
  <2> SUFFICES ASSUME IInv, NEW h \in Handles, FinishWrite(h, TRUE), NEW t \in unsaved'
               PROVE  now <= t + DirtyTimeout
    BY InvariantIsBoth
  <2>1. SyncIfTooDirty(TRUE)
    BY DEF FinishWrite
  <2>2. ~HasBeenDirtyFor(DirtyTimeout) /\ unsaved' = unsaved
    BY <2>1 DEF SyncIfTooDirty, SaveIf, Save, SaveToDevice
  <2>3. t \in unsaved /\ t \in Nat /\ now \in Nat /\ dirty \in Nat
    BY <2>2 DEF IInv, TypeOK
  <2>4. dirty # 0 /\ dirty <= t
    BY <2>3 DEF IInv, TypeOK, DirtyIsOldestUnsaved
  <2>5. QED
    BY <2>2, <2>3, <2>4, TimeAssumption DEF HasBeenDirtyFor
<1>2. QED
  BY <1>1, AdbFileInvariance, PTL DEF WriteBoundsStaleness

(* The handles of a file, whatever they do and however they interleave, use  *)
(* its buffer as FileBuffer allows.                                          *)
THEOREM HandlesUseBuffer == AdbFileSpec => Spec
<1>1. AdbFileInit => Init
  BY DEF AdbFileInit
<1>2. QED
  BY <1>1, StepsAreBufferSteps, PTL DEF AdbFileSpec, Spec

(* So what they see is a file edited in memory: an edit of any of them stays *)
(* until it is saved or the last handle is gone.                             *)
THEOREM HandlesImplementFile == AdbFileSpec => ImplementsWriteBackFile
<1>1. QED
  BY HandlesUseBuffer, BufferImplementsFile, PTL

(* The timestamp is right, and edits stay, under any number of handles.      *)
THEOREM HandlesKeepEdits ==
    AdbFileSpec => [](AdbFileTypeOK /\ DirtyIsOldestUnsaved /\ UnsavedEditsStay)
<1>1. AdbFileIInv => AdbFileTypeOK /\ DirtyIsOldestUnsaved /\ UnsavedEditsStay
  BY DEF AdbFileIInv
<1>2. QED
  BY <1>1, AdbFileInvariance, PTL
=============================================================================
