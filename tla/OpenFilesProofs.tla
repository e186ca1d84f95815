-------------------------- MODULE OpenFilesProofs --------------------------
(***************************************************************************)
(* Proofs about the table of open files, for any sets of paths, buffers    *)
(* and clients, as long as the set of clients is finite (reference counts  *)
(* are numbers).                                                           *)
(***************************************************************************)
EXTENDS OpenFiles, FiniteSetTheorems, TLAPS

(* The handles on a buffer are finitely many, so that they can be counted.   *)
LEMMA HandlesAreCountable ==
    ASSUME NEW b
    PROVE  /\ IsFiniteSet(Handles(b))
           /\ Cardinality(Handles(b)) \in Nat
           /\ Cardinality(Handles(b)) = 0 <=> Handles(b) = {}
<1>1. Handles(b) \in SUBSET Clients
  BY DEF Handles
<1>2. IsFiniteSet(Handles(b))
  BY <1>1, ClientsAssumption, FS_Subset
<1>3. QED
  BY <1>2, FS_CardinalityType, FS_EmptySet

(* A step that neither opens nor closes a handle keeps every count right.    *)
LEMMA HandlesUntouched ==
    ASSUME RefCountIsHandles,
           UNCHANGED refCount,
           \A c \in Clients : (pc'[c] = "open" <=> pc[c] = "open"),
           \A c \in Clients : pc[c] = "open" => file'[c] = file[c]
    PROVE  RefCountIsHandles'
<1>1. \A b : Handles(b)' = Handles(b)
  BY DEF Handles
<1>2. QED
  BY <1>1 DEF RefCountIsHandles

(* IncRefCount counts the handle that GetOrLoad hands out.                   *)
LEMMA HandOutCounts ==
    ASSUME TypeOK, RefCountIsHandles,
           NEW c \in Clients, NEW b \in Buffers,
           pc[c] = "opening", HandOut(c, b)
    PROVE  RefCountIsHandles'
<1> SUFFICES ASSUME NEW d \in Buffers
             PROVE  refCount'[d] = Cardinality(Handles(d)')
  BY DEF RefCountIsHandles
<1>1. CASE d = b
  <2>1. Handles(b)' = Handles(b) \cup {c} /\ c \notin Handles(b)
    BY DEF Handles, HandOut, TypeOK
  <2>2. Cardinality(Handles(b)') = Cardinality(Handles(b)) + 1
    BY <2>1, HandlesAreCountable, FS_AddElement
  <2>3. QED
    BY <1>1, <2>2 DEF RefCountIsHandles, HandOut, TypeOK
<1>2. CASE d # b
  <2>1. Handles(d)' = Handles(d)
    BY <1>2 DEF Handles, HandOut, TypeOK
  <2>2. QED
    BY <1>2, <2>1 DEF RefCountIsHandles, HandOut, TypeOK
<1>3. QED
  BY <1>1, <1>2

(* DecRefCount gives back exactly the handle of the file being released, so  *)
(* the count was positive: it cannot go below 0, where the code panics.      *)
LEMMA DecRefCountCounts ==
    ASSUME TypeOK, ClientsMatchPc, RefCountIsHandles,
           NEW c \in Clients, DecRefCount(c)
    PROVE  /\ file[c] \in Buffers
           /\ refCount[file[c]] >= 1
           /\ RefCountIsHandles'
<1>0. PICK b \in Buffers : b = file[c]
  BY DEF TypeOK, ClientsMatchPc, DecRefCount
<1>1. c \in Handles(b)
  BY <1>0 DEF DecRefCount, Handles
<1>2. refCount[b] \in Nat /\ refCount[b] >= 1
  <2>1. Cardinality(Handles(b)) # 0
    BY <1>1, HandlesAreCountable
  <2>2. QED
    BY <2>1 DEF RefCountIsHandles, TypeOK
<1>3. RefCountIsHandles'
  <2> SUFFICES ASSUME NEW d \in Buffers
               PROVE  refCount'[d] = Cardinality(Handles(d)')
    BY DEF RefCountIsHandles
  <2>1. CASE d = b
    <3>1. Handles(b)' = Handles(b) \ {c}
      BY <1>0 DEF Handles, DecRefCount, TypeOK
    <3>2. Cardinality(Handles(b)') = Cardinality(Handles(b)) - 1
      BY <1>1, <3>1, HandlesAreCountable, FS_RemoveElement
    <3>3. refCount'[b] = refCount[b] - 1
      BY <1>0 DEF DecRefCount, TypeOK
    <3>4. QED
      BY <2>1, <3>2, <3>3 DEF RefCountIsHandles
  <2>2. CASE d # b
    <3>1. Handles(d)' = Handles(d)
      BY <1>0, <2>2 DEF Handles, DecRefCount, TypeOK
    <3>2. QED
      BY <1>0, <2>2, <3>1 DEF RefCountIsHandles, DecRefCount, TypeOK
  <2>3. QED
    BY <2>1, <2>2
<1>4. QED
  BY <1>0, <1>2, <1>3

-----------------------------------------------------------------------------

LEMMA InitEstablishesIInv == Init => IInv
<1> SUFFICES ASSUME Init PROVE IInv
  OBVIOUS
<1>1. TypeOK /\ LockIsHeld /\ ClientsMatchPc /\ TableMatchesPath /\ NoLeak
  BY NilAssumption
  DEF Init, TypeOK, PCs, LockIsHeld, ClientsMatchPc, TableMatchesPath, NoLeak, Unused
<1>2. RefCountIsHandles
  <2>1. \A b : Handles(b) = {}
    BY DEF Init, Handles
  <2>2. QED
    BY <2>1, FS_EmptySet DEF Init, RefCountIsHandles
<1>3. QED
  BY <1>1, <1>2 DEF IInv

(* Asking to open a path, which touches the client alone.                    *)
LEMMA OpenPreserves ==
    ASSUME IInv, NEW c \in Clients, NEW p \in Paths, Open(c, p)
    PROVE  IInv'
<1> USE DEF IInv
<1>1. TypeOK' /\ LockIsHeld' /\ ClientsMatchPc' /\ TableMatchesPath' /\ NoLeak'
  BY NilAssumption
  DEF Open, TypeOK, PCs, LockIsHeld, ClientsMatchPc, TableMatchesPath, NoLeak, Unused
<1>2. RefCountIsHandles'
  BY HandlesUntouched DEF Open, TypeOK
<1>3. QED
  BY <1>1, <1>2

(* Taking the lock, for an open or for a release.                            *)
LEMMA LockPreserves ==
    ASSUME IInv, NEW c \in Clients, LockToOpen(c) \/ LockToRelease(c)
    PROVE  IInv'
<1> USE DEF IInv, LockToOpen, LockToRelease
<1>1. TypeOK'
  BY DEF TypeOK, PCs
<1>2. LockIsHeld'
  BY NilAssumption DEF TypeOK, LockIsHeld
<1>3. ClientsMatchPc' /\ TableMatchesPath' /\ NoLeak'
  BY DEF TypeOK, ClientsMatchPc, TableMatchesPath, NoLeak, Unused
<1>4. RefCountIsHandles'
  BY HandlesUntouched DEF TypeOK
<1>5. QED
  BY <1>1, <1>2, <1>3, <1>4

(* The end of GetOrLoad, with the buffer found in the table.                 *)
LEMMA ReusePreserves ==
    ASSUME IInv, NEW c \in Clients, Reuse(c)
    PROVE  IInv'
<1> DEFINE b == buffersByPath[name[c]]
<1> USE DEF IInv
<1>1. name[c] \in Paths /\ b \in Buffers /\ HandOut(c, b) /\ pc[c] = "opening"
  BY DEF Reuse, TypeOK, ClientsMatchPc
<1>2. TypeOK'
  BY <1>1 DEF Reuse, HandOut, TypeOK, PCs
<1>3. LockIsHeld' /\ ClientsMatchPc' /\ TableMatchesPath'
  BY <1>1, NilAssumption
  DEF Reuse, HandOut, TypeOK, LockIsHeld, ClientsMatchPc, TableMatchesPath
<1>4. NoLeak'
  BY <1>1 DEF Reuse, HandOut, TypeOK, NoLeak, Unused
<1>5. RefCountIsHandles'
  BY <1>1, HandOutCounts
<1>6. QED
  BY <1>2, <1>3, <1>4, <1>5

(* The end of GetOrLoad, with a new buffer.                                  *)
LEMMA LoadPreserves ==
    ASSUME IInv, NEW c \in Clients, NEW b \in Buffers, Load(c, b)
    PROVE  IInv'
<1> USE DEF IInv
<1>1. name[c] \in Paths /\ HandOut(c, b) /\ pc[c] = "opening"
  BY DEF Load, TypeOK, ClientsMatchPc
<1>2. TypeOK'
  BY <1>1 DEF Load, HandOut, TypeOK, PCs
<1>3. LockIsHeld' /\ ClientsMatchPc'
  BY <1>1, NilAssumption
  DEF Load, HandOut, TypeOK, LockIsHeld, ClientsMatchPc
<1>4. TableMatchesPath'
  BY <1>1 DEF Load, Referenced, TypeOK, TableMatchesPath
<1>5. NoLeak'
  BY <1>1 DEF Load, Referenced, HandOut, TypeOK, NoLeak, Unused
<1>6. RefCountIsHandles'
  BY <1>1, HandOutCounts
<1>7. QED
  BY <1>2, <1>3, <1>4, <1>5, <1>6

(* GetOrLoad returns the error of NewFileBuffer.                             *)
LEMMA LoadFailsPreserves ==
    ASSUME IInv, NEW c \in Clients, LoadFails(c)
    PROVE  IInv'
<1> USE DEF IInv
<1>1. TypeOK' /\ LockIsHeld' /\ ClientsMatchPc' /\ TableMatchesPath' /\ NoLeak'
  BY NilAssumption
  DEF LoadFails, TypeOK, PCs, LockIsHeld, ClientsMatchPc, TableMatchesPath, NoLeak, Unused
<1>2. RefCountIsHandles'
  BY HandlesUntouched DEF LoadFails, TypeOK
<1>3. QED
  BY <1>1, <1>2

(* The decrement: a count that reaches 0 leaves a client on its way to       *)
(* release the buffer.                                                       *)
LEMMA DecRefCountPreserves ==
    ASSUME IInv, NEW c \in Clients, DecRefCount(c)
    PROVE  IInv'
<1> USE DEF IInv
<1>1. file[c] \in Buffers /\ refCount[file[c]] >= 1 /\ RefCountIsHandles'
  BY DecRefCountCounts
<1>2. TypeOK'
  BY <1>1 DEF DecRefCount, TypeOK, PCs
<1>3. LockIsHeld' /\ ClientsMatchPc' /\ TableMatchesPath'
  BY <1>1, NilAssumption
  DEF DecRefCount, TypeOK, LockIsHeld, ClientsMatchPc, TableMatchesPath
<1>4. NoLeak'
  <2> SUFFICES ASSUME NEW p \in Paths, Unused(p)'
               PROVE  \E d \in Clients :
                        /\ pc'[d] \in {"wantRelease", "releasing"}
                        /\ file'[d] = buffersByPath'[p]
    BY DEF NoLeak
  <2>1. CASE buffersByPath[p] = file[c]
    BY <1>1, <2>1 DEF DecRefCount, TypeOK, Unused
  <2>2. CASE buffersByPath[p] # file[c]
    <3>1. Unused(p)
      BY <1>1, <2>2 DEF DecRefCount, TypeOK, Unused
    <3>2. QED
      BY <3>1 DEF DecRefCount, TypeOK, NoLeak
  <2>3. QED
    BY <2>1, <2>2
<1>5. QED
  BY <1>1, <1>2, <1>3, <1>4

(* The body of release.  An entry that is still there and unused after it    *)
(* belongs to another buffer, whose releaser is still on its way.            *)
LEMMA ReleaseBufferPreserves ==
    ASSUME IInv, NEW c \in Clients, ReleaseBuffer(c)
    PROVE  IInv'
<1> DEFINE b == file[c]
<1> USE DEF IInv
<1>1. b \in Buffers /\ pc[c] = "releasing"
  BY DEF ReleaseBuffer, TypeOK, ClientsMatchPc
<1>2. \A p \in Paths : buffersByPath'[p] \in {buffersByPath[p], Nil}
  BY <1>1 DEF ReleaseBuffer, TableAfterRelease, TypeOK
<1>3. TypeOK'
  BY <1>1 DEF ReleaseBuffer, TableAfterRelease, TypeOK, PCs
<1>4. LockIsHeld' /\ ClientsMatchPc'
  BY <1>1, NilAssumption
  DEF ReleaseBuffer, TypeOK, LockIsHeld, ClientsMatchPc
<1>5. TableMatchesPath'
  BY <1>2 DEF ReleaseBuffer, TypeOK, TableMatchesPath
<1>6. NoLeak'
  <2> SUFFICES ASSUME NEW p \in Paths, Unused(p)'
               PROVE  \E d \in Clients :
                        /\ pc'[d] \in {"wantRelease", "releasing"}
                        /\ file'[d] = buffersByPath'[p]
    BY DEF NoLeak
  <2>1. Unused(p) /\ buffersByPath'[p] = buffersByPath[p]
    BY <1>2 DEF ReleaseBuffer, Unused
  <2>2. buffersByPath[p] # b
    <3> SUFFICES ASSUME buffersByPath[p] = b
                 PROVE  FALSE
      OBVIOUS
    <3>1. refCount[b] = 0 /\ path[b] = p
      BY <1>1, <2>1, NilAssumption DEF Unused, TableMatchesPath
    <3>2. buffersByPath'[p] = Nil
      BY <1>1, <3>1 DEF ReleaseBuffer, TableAfterRelease, TypeOK
    <3>3. QED
      BY <3>2 DEF Unused
  <2>3. PICK d \in Clients : /\ pc[d] \in {"wantRelease", "releasing"}
                             /\ file[d] = buffersByPath[p]
    BY <2>1 DEF NoLeak
  <2>4. d # c
    BY <2>2, <2>3
  <2>5. QED
    BY <2>1, <2>3, <2>4 DEF ReleaseBuffer, TypeOK
<1>7. RefCountIsHandles'
  BY <1>1, HandlesUntouched DEF ReleaseBuffer, TypeOK
<1>8. QED
  BY <1>3, <1>4, <1>5, <1>6, <1>7

LEMMA NextPreservesIInv == IInv /\ [Next]_vars => IInv'
<1> SUFFICES ASSUME IInv, [Next]_vars
             PROVE  IInv'
  OBVIOUS
<1>1. CASE UNCHANGED vars
  BY <1>1, HandlesUntouched
  DEF vars, IInv, TypeOK, LockIsHeld, ClientsMatchPc, TableMatchesPath, NoLeak, Unused
<1>2. ASSUME NEW c \in Clients, NEW p \in Paths, Open(c, p)
      PROVE  IInv'
  BY <1>2, OpenPreserves
<1>3. ASSUME NEW c \in Clients, LockToOpen(c) \/ LockToRelease(c)
      PROVE  IInv'
  BY <1>3, LockPreserves
<1>4. ASSUME NEW c \in Clients, DecRefCount(c)
      PROVE  IInv'
  BY <1>4, DecRefCountPreserves
<1>5. ASSUME NEW c \in Clients, Critical(c)
      PROVE  IInv'
  BY <1>5, ReusePreserves, LoadPreserves, LoadFailsPreserves, ReleaseBufferPreserves
  DEF Critical
<1>6. QED
  BY <1>1, <1>2, <1>3, <1>4, <1>5 DEF Next

-----------------------------------------------------------------------------

(* IInv holds in every reachable state of the table.                         *)
THEOREM Invariance == Spec => []IInv
<1>1. QED
  BY InitEstablishesIInv, NextPreservesIInv, PTL DEF Spec

(* Type correctness: in particular every count is a natural number, so the   *)
(* panic in DecRefCount (src/file_buffer.go:208) is never reached.           *)
THEOREM TypeCorrect == Spec => []TypeOK
<1>1. IInv => TypeOK
  BY DEF IInv
<1>2. QED
  BY <1>1, Invariance, PTL

(* A buffer's count is the number of files open on it, whatever the          *)
(* interleaving of GetOrLoad, DecRefCount and release.                       *)
THEOREM CountsAreRight == Spec => []RefCountIsHandles
<1>1. IInv => RefCountIsHandles
  BY DEF IInv
<1>2. QED
  BY <1>1, Invariance, PTL

(* A buffer nobody has open stays in the table only while somebody is on the *)
(* way to release it.                                                        *)
THEOREM NothingLeaks == Spec => []NoLeak
<1>1. IInv => NoLeak
  BY DEF IInv
<1>2. QED
  BY <1>1, Invariance, PTL

(* A buffer in use leaves the table only through the release of a buffer     *)
(* that was dropped before it was loaded.                                    *)
THEOREM EvictionsAreStale == Spec => OnlyStaleReleaseEvicts
<1> DEFINE Evicts ==
      \A p \in Paths :
        LET b == buffersByPath[p] IN
        b # Nil /\ refCount[b] > 0 /\ buffersByPath'[p] # b =>
            \E c \in Clients :
                /\ pc[c] = "releasing"
                /\ file[c] # b
                /\ path[file[c]] = p
                /\ refCount[file[c]] = 0
<1>1. IInv /\ [Next]_vars => [Evicts]_vars
  <2> SUFFICES ASSUME IInv, Next, NEW p \in Paths,
                      buffersByPath[p] # Nil,
                      refCount[buffersByPath[p]] > 0,
                      buffersByPath'[p] # buffersByPath[p]
               PROVE  \E c \in Clients :
                        /\ pc[c] = "releasing"
                        /\ file[c] # buffersByPath[p]
                        /\ path[file[c]] = p
                        /\ refCount[file[c]] = 0
    OBVIOUS
  <2> USE DEF IInv
  <2>1. ASSUME NEW c \in Clients, NEW b \in Buffers, Load(c, b)
        PROVE  FALSE
    BY <2>1 DEF Load, TypeOK
  <2>2. PICK c \in Clients : ReleaseBuffer(c)
    BY <2>1 DEF Next, Open, LockToOpen, DecRefCount, LockToRelease, Critical, Reuse, LoadFails
  <2>3. refCount[file[c]] = 0 /\ path[file[c]] = p /\ pc[c] = "releasing"
    BY <2>2 DEF ReleaseBuffer, TableAfterRelease, TypeOK, ClientsMatchPc
  <2>4. QED
    BY <2>3
<1>2. QED
  BY <1>1, Invariance, PTL DEF Spec, OnlyStaleReleaseEvicts

-----------------------------------------------------------------------------
(* When the open files of a path share a buffer.                             *)

(* A client releases a buffer that has left the table already, and another   *)
(* has taken its place there.                                                *)
StaleRelease ==
    \E c \in Clients :
        /\ ReleaseBuffer(c)
        /\ refCount[file[c]] = 0
        /\ buffersByPath[path[file[c]]] \notin {Nil, file[c]}

(* What a client has open is the table's buffer for the path it opened.      *)
OpenIsInTable == \A c \in Clients : pc[c] = "open" => buffersByPath[name[c]] = file[c]

(* The buffer of an open file is, and stays, that of the path it was opened  *)
(* by: no buffer is made over one in use.                                    *)
HandleKeepsPath == \A c \in Clients : pc[c] = "open" => path[file[c]] = name[c]

(* A client that has a file open was handed it in GetOrLoad.                 *)
LEMMA OpenedByHandOut ==
    ASSUME IInv, Next, NEW c \in Clients, pc'[c] = "open"
    PROVE  \/ pc[c] = "open" /\ UNCHANGED <<file[c], name[c]>>
           \/ Reuse(c) \/ \E b \in Buffers : Load(c, b)
<1>1. pc \in [Clients -> PCs] /\ name \in [Clients -> Paths \cup {Nil}]
      /\ file \in [Clients -> Buffers \cup {Nil}]
  BY DEF IInv, TypeOK
<1>2. PICK d \in Clients :
        \/ \E p \in Paths : Open(d, p)
        \/ LockToOpen(d) \/ DecRefCount(d) \/ LockToRelease(d) \/ Critical(d)
  BY DEF Next
<1>3. CASE Reuse(d) \/ \E b \in Buffers : Load(d, b)
  BY <1>1, <1>3 DEF Reuse, Load, HandOut
<1>4. CASE ~(Reuse(d) \/ \E b \in Buffers : Load(d, b))
  BY <1>1, <1>2, <1>4
     DEF Open, LockToOpen, DecRefCount, LockToRelease, Critical, LoadFails, ReleaseBuffer
<1>5. QED
  BY <1>3, <1>4

LEMMA NextKeepsPaths == IInv /\ HandleKeepsPath /\ [Next]_vars => HandleKeepsPath'
<1> SUFFICES ASSUME IInv, HandleKeepsPath, [Next]_vars, NEW c \in Clients, pc'[c] = "open"
             PROVE  path'[file'[c]] = name'[c]
  BY DEF HandleKeepsPath
<1>1. CASE UNCHANGED vars
  BY <1>1 DEF vars, HandleKeepsPath
<1>2. CASE Next /\ Reuse(c)
  BY <1>2 DEF Reuse, HandOut, IInv, TypeOK, ClientsMatchPc, TableMatchesPath
<1>3. ASSUME Next, NEW b \in Buffers, Load(c, b)
      PROVE  path'[file'[c]] = name'[c]
  BY <1>3 DEF Load, HandOut, IInv, TypeOK
<1>4. CASE Next /\ pc[c] = "open" /\ UNCHANGED <<file[c], name[c]>>
  <2>1. file[c] \in Buffers /\ path[file[c]] = name[c]
    BY <1>4 DEF IInv, TypeOK, ClientsMatchPc, HandleKeepsPath
  <2>2. path'[file[c]] = path[file[c]]
    <3>1. ASSUME NEW d \in Clients, NEW b \in Buffers, Load(d, b)
          PROVE  path'[file[c]] = path[file[c]]
      BY <2>1, <3>1 DEF Load, Referenced, IInv, TypeOK
    <3>2. CASE UNCHANGED path
      BY <3>2
    <3>3. QED
      BY <1>4, <3>1, <3>2
         DEF Next, Open, LockToOpen, DecRefCount, LockToRelease, Critical, Reuse, LoadFails,
             ReleaseBuffer
  <2>3. QED
    BY <1>4, <2>1, <2>2
<1>5. QED
  BY <1>1, <1>2, <1>3, <1>4, OpenedByHandOut

LEMMA NextKeepsTable ==
    IInv /\ HandleKeepsPath /\ OpenIsInTable /\ [Next]_vars /\ ~StaleRelease => OpenIsInTable'
<1> SUFFICES ASSUME IInv, HandleKeepsPath, OpenIsInTable, [Next]_vars, ~StaleRelease,
                    NEW c \in Clients, pc'[c] = "open"
             PROVE  buffersByPath'[name'[c]] = file'[c]
  BY DEF OpenIsInTable
<1>1. CASE UNCHANGED vars
  BY <1>1 DEF vars, OpenIsInTable
<1>2. CASE Next /\ Reuse(c)
  BY <1>2 DEF Reuse, HandOut, IInv, TypeOK
<1>3. ASSUME Next, NEW b \in Buffers, Load(c, b)
      PROVE  buffersByPath'[name'[c]] = file'[c]
  BY <1>3 DEF Load, HandOut, IInv, TypeOK, ClientsMatchPc
<1>4. CASE Next /\ pc[c] = "open" /\ UNCHANGED <<file[c], name[c]>>
  <2>1. /\ file[c] \in Buffers /\ name[c] \in Paths
        /\ path[file[c]] = name[c] /\ buffersByPath[name[c]] = file[c]
    BY <1>4 DEF IInv, TypeOK, ClientsMatchPc, HandleKeepsPath, OpenIsInTable
  <2>2. refCount[file[c]] # 0
    <3>1. c \in Handles(file[c])
      BY <1>4 DEF Handles
    <3>2. QED
      BY <2>1, <3>1, HandlesAreCountable DEF IInv, RefCountIsHandles
  <2>3. ASSUME NEW d \in Clients, ReleaseBuffer(d)
        PROVE  buffersByPath'[name[c]] = buffersByPath[name[c]]
    <3>1. file[d] \in Buffers /\ buffersByPath \in [Paths -> Buffers \cup {Nil}]
      BY <2>3 DEF ReleaseBuffer, IInv, TypeOK, ClientsMatchPc
    <3>2. CASE refCount[file[d]] # 0
      BY <2>3, <3>2 DEF ReleaseBuffer, TableAfterRelease
    <3>3. CASE refCount[file[d]] = 0
      <4>1. buffersByPath[path[file[d]]] \in {Nil, file[d]}
        BY <2>3, <3>3 DEF StaleRelease
      <4>2. path[file[d]] # name[c]
        BY <2>1, <2>2, <3>3, <4>1, NilAssumption
      <4>3. QED
        BY <2>1, <2>3, <3>1, <3>3, <4>2 DEF ReleaseBuffer, TableAfterRelease
    <3>4. QED
      BY <3>2, <3>3
  <2>4. ASSUME NEW d \in Clients, NEW b \in Buffers, Load(d, b)
        PROVE  buffersByPath'[name[c]] = buffersByPath[name[c]]
    BY <2>1, <2>4, NilAssumption DEF Load, IInv, TypeOK
  <2>5. CASE UNCHANGED buffersByPath
    BY <1>4, <2>1, <2>5
  <2>6. QED
    BY <1>4, <2>1, <2>3, <2>4, <2>5
       DEF Next, Open, LockToOpen, DecRefCount, LockToRelease, Critical, Reuse, LoadFails
<1>5. QED
  BY <1>1, <1>2, <1>3, <1>4, OpenedByHandOut

(* The FileBuffer under an open file is that of the path it was opened by,   *)
(* to the end: what is written there is saved there (NewFileBuffer,          *)
(* AdbFile.Release).                                                         *)
THEOREM HandlesKeepTheirPath == Spec => []HandleKeepsPath
<1>1. Init => HandleKeepsPath
  BY DEF Init, HandleKeepsPath
<1>2. QED
  BY <1>1, NextKeepsPaths, Invariance, PTL DEF Spec

(* What the comments say of AdbFiles, that those of one path have one        *)
(* FileBuffer (src/adb_file.go:34, src/file_buffer.go:36), is true as long   *)
(* as no release deletes its successor from the table: that is the one way   *)
(* it comes to be false, which the run open_files_shared shows.              *)
THEOREM SharingUnlessStale == Spec /\ [][~StaleRelease]_vars => []SharedBuffer
<1>1. Init => HandleKeepsPath /\ OpenIsInTable
  BY DEF Init, HandleKeepsPath, OpenIsInTable
<1>2. IInv /\ HandleKeepsPath /\ OpenIsInTable /\ [Next]_vars /\ [~StaleRelease]_vars
        => OpenIsInTable'
  <2>1. UNCHANGED vars => ~StaleRelease \/ UNCHANGED vars
    OBVIOUS
  <2>2. OpenIsInTable /\ UNCHANGED vars => OpenIsInTable'
    BY DEF OpenIsInTable, vars
  <2>3. QED
    BY <2>2, NextKeepsTable
<1>3. OpenIsInTable => SharedBuffer
  BY DEF OpenIsInTable, SharedBuffer
<1>4. QED
  BY <1>1, <1>2, <1>3, HandlesKeepTheirPath, Invariance, PTL DEF Spec
=============================================================================
