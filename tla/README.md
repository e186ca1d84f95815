# Verification of adbfs

TLA+ models of [adbfs](../src/README.md), a FUSE filesystem that exposes the files of an
Android device through `adb`. The models are checked by TLC on small instances, and the
theorems about them are proved with TLAPS for all values of the constants.

The write path comes first: a file that is open is held in memory as a whole, shared by
all its file descriptors, and saved as a whole. That is where a mistake costs a user their
data. The directory cache, the operations on paths, the life of a mount, and the automounter
follow.

## 1. Inventory

| Component | State | Operations | Talks to |
|---|---|---|---|
| `OpenFiles` (`open_files.go`) | `lock`, `buffersByPath` | `GetOrLoad`, `release` | makes `FileBuffer`s; called by `AdbFileSystem.createFile` and, at count 0, by `FileBuffer.DecRefCount` |
| `FileBuffer` (`file_buffer.go`) | `refCount` (atomic), `lock`, `buffer`, `dirty` | `NewFileBuffer`, `ReadAt`, `WriteAt`, `SetSize`, `Sync`, `Flush`, `SyncIfTooDirty`, `IncRefCount`, `DecRefCount` | a `DeviceClient` of its own, `GrowableByteSlice`, `DirtyTimestamp` |
| `GrowableByteSlice` (`internal/util`) | one Go slice | `Resize`, `WriteAt`, `ReadAt`, `ReadFrom`, `WriteTo` | – |
| `DirtyTimestamp`, `Clock` (`internal/util`) | a time | `Set`, `Clear`, `IsSet`, `HasBeenDirtyFor` | – |
| `AdbFile` (`adb_file.go`) | the flags of one descriptor | `Read`, `Write`, `Truncate`, `Fsync`, `Flush`, `GetAttr`, `Release` | its `FileBuffer` |
| `FileOpenFlags` (`file_open_flags.go`) | – | `CanRead`, `CanWrite`, `Contains` | – |
| `AdbFileSystem` (`adb_filesystem.go`) | pool of clients, `OpenFiles` | path operations: `Open`, `Create`, `Mkdir`, `Rename`, `Rmdir`, `Unlink`, `Readlink`, `Access`, `GetAttr`, `OpenDir`, `StatFs` | FUSE on one side, `DeviceClient` on the other |
| `DirEntryCache`, `CachingDeviceClient` | listings by directory, with a time to live | `GetOrLoad`, `Get`, `RemoveEventually`; `Stat`, `ListDirEntries`, `OpenWrite` | wraps the device client, shared by all clients |
| `goadbDeviceClient` (`device_client.go`) | – | `Stat`, `OpenRead`, `OpenWrite`, `ListDirEntries`, `RunCommand` | three of them report a disconnection through a callback |
| `adbfs` (`cmd/adbfs`) | `mounted`, `unmounted` (atomic) | mount, serve, unmount | the device watcher, signals, FUSE server, disconnect callback: four goroutines |
| `adbfs-automount` (`cmd/adbfs-automount`), `ProcessTracker` | processes by serial, WaitGroup, contexts | `Go`, `sweep`, `Shutdown`; one goroutine per device | device watcher, `adbfs` processes, handlers |
| configuration, paths, logging, errors, conversions | none after start-up | – | – |

What makes each of them correct, and what is hard about it:

* **OpenFiles.** Every descriptor is a goroutine's worth of interleaving: the decrement of
  a count happens outside `lock` and the deletion it leads to inside. The counts must be
  exact, an unused buffer must go, a used one must stay, and no call may hang on the lock.
* **GrowableByteSlice.** A slice shares its array with what it held before. Every
  operation must look like one on a plain file, whatever the capacity happens to be.
* **FileBuffer.** Any device call may fail, at its start or midway. Edits must survive
  that, must never be reloaded over, and the dirty timestamp must keep measuring the oldest.
* **AdbFile.** `Write` and `Truncate` call the buffer twice and give up its lock between
  the calls. What `Flush` reports must be true for the descriptor it reports to, and a
  read-only filesystem must have nothing to save.
* **DirEntryCache.** Loads and removals are not ordered: old listings can be stored after
  the removal that was to get rid of them.
* **AdbFileSystem.** Every operation takes a client from the pool and must give it back on
  every path, errors included; links may form cycles; each operation checks for itself whether the
  filesystem is read-only; and what a path is comes from a listing that may be old.
* **adbfs, adbfs-automount.** Disconnections, signals, failures of unmount and exits race;
  in the end, what was mounted must be unmounted and what came back must be mounted.

`PROJECT.json` lists the hazards at their lines, with the properties that cover them and,
for those without one, the reason.

## 2. Modules

| Module | What it is |
|---|---|
| `OpenFiles` | the table of open files and the reference counts, under any interleaving of clients |
| `OpenFilesProofs` | its inductive invariant and theorems, and when open files share a buffer |
| `GrowableByteSlice` | the slice as a data type: what every method makes of it |
| `GrowableByteSliceProofs` | lemmas: the result of each operation and of a read, and the effect on the file the slice stands for |
| `SliceOperations` | a slice under any sequence of operations, and a file read from it in chunks |
| `SliceOperationsProofs` | its four theorems |
| `FileOpenFlags` | sets of open flags and what the code asks of them |
| `WriteBackFile` | the abstract specification: what a file edited in memory and saved as a whole promises |
| `FileBuffer` | one buffer, its device, the clock and failing calls; implements `WriteBackFile` |
| `AdbFile` | several descriptors on one `FileBuffer`, each step of which interleaves with the others' |
| `AdbFileProofs` | the invariants of the buffer and of its descriptors, and that both implement `WriteBackFile` |
| `ListingCache` | the abstract specification of the cache: what is cached is what the device once answered |
| `DirCache` | the cached listing of a directory: readers, writers, removals, expiry; implements `ListingCache` |
| `DirCacheProofs` | its inductive invariant, the refinement, and when a write does invalidate |
| `AdbFileSystem` | the operations on paths: client pool, read-only checks, links, commands, opens, statuses; over `ListingCache` |
| `AdbFileSystemProofs` | its inductive invariants and seven theorems: safety, what quiet requests answer, how operations end, what they ask of the cache |
| `MountLifecycle` | one `adbfs` process from mount to exit, with all who may unmount |
| `MountLifecycleProofs` | its inductive invariant and four theorems |
| `ProcessTracker` | one process per key, contexts and a WaitGroup, whatever the processes do |
| `DeviceMounts` | the abstract specification: devices mounted by one worker each, and nothing left behind |
| `Automount` | the automounter: `main` and `mountDevice` on a `ProcessTracker`; implements `DeviceMounts` |
| `AutomountProofs` | the invariants of the tracker and of the automounter, the refinement, and when a device is tried |
| `MCOpenFiles`, `MCAdbFile`, `MCAdbFileSystem` | instances for TLC that need definitions; the others are instantiated by their cfg alone |

`FileBuffer` extends `GrowableByteSlice` and `FileOpenFlags`; `AdbFile` extends
`FileBuffer`; `Automount` extends `ProcessTracker`. `OpenFiles` is on its own: it needs the
identities of buffers and nothing of their contents. So is `MountLifecycle`. `AdbFileSystem`
extends `ListingCache`, which `DirCache` is shown to implement: it sees of the cache what
the abstract specification says, and no more.

Definitions whose comment begins "Mutant of D" are plausible mistakes in the definition D.
Each property fails when the right one of them takes the place of D (`PROJECT.json`,
"mutants"), so a property that holds says something about the code.

### OpenFiles

| Code | Model |
|---|---|
| `GetOrLoad`, `f.lock.Lock()` | `Open` (the call), `LockToOpen` (the lock is got) |
| `buffersByPath[path]` is there | `Reuse` |
| it is not, `NewFileBuffer` succeeds / fails | `Load` / `LoadFails` |
| `IncRefCount`, deferred unlock | `HandOut`, part of `Reuse` and `Load` |
| `AdbFile.Release` → `DecRefCount` | `DecRefCount`, atomic and without the lock |
| `release`: lock / body and unlock | `LockToRelease` / `ReleaseBuffer` with `TableAfterRelease` |

Buffers have identities, because the interesting question is whether the buffer in the
table is the one that is being released. An identity nothing points to any more is garbage
and may stand for a new object.

### GrowableByteSlice and SliceOperations

A Go slice is a record of its array and its length; the bytes of the array past the length
are kept, because `Resize` can uncover them. `Resized`, `Shrunk`, `Reallocated`, `Grown`,
`Written`, `Loaded` and `ReadAt` are the methods, one operator each. `shrink` is modelled
as it is written: it zeroes from the start of the array. `TruncatedFile` and `WrittenFile`
are the reference: what `ftruncate` and `pwrite` do to a file. `Chunks` are the reads of a
file from beginning to end, as many as the size of a read makes them.

### FileBuffer

Every method holds `FileBuffer.lock` from its first to its last line, device calls
included, so each is one action. `ok` is the outcome of the device calls. A save that fails
leaves on the device the old file, no file, or a prefix of the new one; a load that fails
leaves in the buffer what was there or a prefix of the file (`s.data = data` runs also when
`ReadAll` fails). `DeviceChange` is any other program of the device. `Discard` is what
`OpenFiles.release` does. Two history variables say what the code does not keep: `unsaved`,
the times of the edits that no save has covered, and `edited`, the contents the last of them
left. `WriteBackFile` needs the second: a reload over an edit and another edit both change
the contents in memory, and only the history tells them apart.

### AdbFile

`Write` is `Write` then `FinishWrite` (`SyncIfTooDirty`); `Truncate` is `Truncate` then
`FinishTruncate` (`Sync`); other handles and the device act between the two. `flushed` is
the status of a handle's last `Flush` since its last edit, and `owes`, a history variable,
the handles with an edit no save has covered. `Open` joins the live buffer whatever the
flags, as `GetOrLoad` does.

### AdbFileSystem

| Code | Model |
|---|---|
| FUSE calls an operation; what it finds before any device call (`ReadOnly`, `ENOSYS`, flags without write access) | `Receive`, `EarlyError`, `Refused` |
| `getQuickUseClient`, `defer recycleQuickUseClient` | `GetClient`, part of `Finish` |
| `Stat` of `CachingDeviceClient`: hit / miss | `StatCached` / `StatDevice`, then `Statted` |
| the loop of `readLinkRecursively`; `readLink` | `FollowLink`; `ReadLink` |
| `ListDirEntries`, by way of `GetOrLoad` | `ListCached`, `ListDevice`, `ListStored` |
| `RunCommand` of `mkdir`, `mv`, `rmdir`, `rm`; of `stat -f` | `RunCommand` with `Effect`; `RunStatFs` |
| `createFile` → `NewFileBuffer` → `initialize` → `Sync` | `StatCached`, `StatDevice`, `InitializeBuffer`, `InitialSave`, `InitialLoad` |
| a device call fails | `Fails`; a command may have been executed all the same, as may one that prints something and is taken for refused |
| `toErrno`, `toFuseStatusLog` | `toErrno`, `StatusOf` |

The paths are the names of one directory; a link holds one of them or a path that leads
nowhere. Each device call is a step, and between two of them anything happens to the device
and to the cache (`Others`, which also stands for the saves of files that are open).
`quiet` is a history variable: the requests since whose call the directory has not changed,
no listing has disagreed with it, and none of whose device calls has failed. It is what lets
the properties say what a request answers although nothing keeps the device still.

`Expected` is what the directory and the documented depth limit call for. The code goes its
own way in two cases, which `Apart` names and `QuietAnswers` leaves out: a path that takes one
link more than `MaxLinkResolveDepth` (finding 7), and `readlink` of a missing file, whose
message is taken for the target of a link (a hazard; no document says what it prints).

Since the pool holds one client, `OpenDir`s never overlap in the program as it is. `DirCache`
models the cache by itself, which has no such protection, and with the two readers that the
pool is documented to allow.

### DirCache

| Code | Model |
|---|---|
| `GetOrLoad`: miss / loader / error / `cache.Set` | `Miss` / `Load` / `LoadFails` / `Store`: three steps of a reader, no lock over them |
| `Get`, and `Stat` on top of it | `Found`, `Stat` |
| `OpenWrite`, `WriteTo`, `Close` in `saveToDevice` | `OpenWrite`, `WriteData` or `WriteFails`, `Close` |
| `onCloseWriter.Close` after the writer's | `OnClosed`; twice after a good write, since the deferred `Close` closes again |
| `go c.cache.Delete(path)` | `removals`, the goroutines that have not run, and `Remove` |
| other programs; `RunCommand` of `Mkdir`, `Rename`, ... | `OtherChange` |

One directory is modelled because the cache keeps directories apart. A listing carries two
history fields, the names that others, and adbfs's own writers, changed since the device
made it: they are what the properties may excuse. The refinement to `ListingCache` forgets
both, and the ages: a listing that has expired is no listing.

### MountLifecycle

`main` and the goroutines that call `handleDeviceDisconnected` (the watcher and any number of
FUSE requests, from the device calls of `goadbDeviceClient` that report) are actors with a
`pc`; a call that finds no device and does not report it passes through `unreported`. The flags
are read and swapped one atomic operation per step. `main` goes through `mounting`
(`MountRoot`), `starting` (`startServer`), `ready`, `announced` (`mounted` is set, signals
still have their default effect) and `loop`. `enter`, `swap` and `unmounting` are the lines of
`unmountServer`. When `main` exits, by return or by `Fatal`, everything else stops where it is:
a handler may be in the middle of `server.Unmount`. `failed` says that an `Unmount` left the
filesystem mounted; one that finds it gone already has failed at nothing.

### ProcessTracker and Automount

`Go`, the return of a process with its `cancelFunc`, `sweep` and the two halves of
`Shutdown` are actions of `ProcessTracker`. `Automount` gives the processes a body: `stage`
is where `mountDevice` is, `child` is its adbfs, `killer` the goroutine that waits for the
context. `MakeMountpoint` fails where the directory exists and wherever `Mkdir` fails for
another reason. Deferred calls are stages of their own (`remove`), in the order Go runs them.
`Restart` starts the program again over the mountpoints that are left. An adbfs can end at
any time, with or without its mount; a killed one cannot unmount, and whether the kernel
does is left open.

`DeviceMounts` forgets the goroutines, stages, contexts, the table and the events. A device
has a worker from `Go` to the sweep (`Working`), is served while its adbfs runs (`Serving`),
and has a mountpoint and a mount; `shutdown` is `stopping`. What is left is what a user of
the automounter can rely on: `TakeOn` needs a device without a worker and `LetGo` one that is
not served and whose mountpoint is gone or still mounted, whichever way its worker ended.

## 3. Runs

| Run | Instance | Shows |
|---|---|---|
| `open_files` | 3 clients, 2 paths, 3 buffers | exact counts, no leak, only stale evictions, every call returns, unused buffers leave |
| `open_files_shared` | the same on 1 path | two buffers for one path (finding 1) |
| `slice` | bytes 0 and 1, files up to 3, initial capacity 3, 0 or 7 spare bytes | reads, writes and file operations |
| `slice_shrink` | the same | a truncation loses the head of the file (finding 2) |
| `adb_file` | 2 handles, 5 flag sets, bytes 0 and 1, files up to 1, initial capacity 1, timeout 1, times 1 to 4 | the timestamp, edits that stay, honest flush, read-only, bounded staleness, and the refinement to `WriteBackFile` |
| `dir_cache` | 1 name, 2 contents, 2 readers, 1 writer, time to live 1, no write begins with 2 removals pending | wrong answers are accounted for and end; the refinement to `ListingCache` |
| `filesystem` | 2 names, a file and a link to the first name, 2 requests, `MaxLinkResolveDepth` 1, pool size 2 | no client lost, right answers, files spared, read-only, every step of an operation brings it closer to its return, every operation returns |
| `dir_cache_invalidation` | that of `dir_cache` | a write that does not invalidate (finding 4) |
| `automount` | 2 devices, 2 goroutines, 2 events waiting | one process per device, no panic, nothing left running, mountpoints owned, shutdown ends, and the refinement to `DeviceMounts` |
| `automount_tried` | 1 device, 1 goroutine | a device that is forgotten (finding 5) |
| `mount` | watcher, 2 requests with every kind of device call | one unmount, no panic, no mount left, a reported disconnection ends the process |
| `filesystem_pool` | that of `filesystem` | a wait for a client below the documented maximum (finding 6) |

Three more configurations show one disagreement each with a document, and are run by hand
(`tlc -config <cfg> <module>`); each ends in a violation.

| Configuration | Instance | Shows |
|---|---|---|
| `MCAdbFileCreate.cfg` of `MCAdbFile` | that of `adb_file` | `CreatedOnOpen`: an open that creates nothing (finding 3) |
| `MCAdbFileSystemLinks.cfg` of `MCAdbFileSystem` | that of `filesystem`, `MaxLinkResolveDepth` 0 | `TooDeepIsRefused`: one link more than the limit is followed (finding 7) |
| `MCMountLifecycleReports.cfg` of `MountLifecycle` | that of `mount` | `AnyCallEnds`: a disconnection that nobody reports (finding 8) |

**Why the bounds are enough.** Three clients are what the stale release takes (one waits, one
takes up and drops the buffer, one loads the next) and what a lock needs for one waiter to be
overtaken by two. Two paths let entries of different paths coexist. As many buffers as clients
are always enough for a load to find a fresh one (`MCOpenFiles` assumes it). An initial
capacity of 3 in `slice`, in place of 1024, puts it among the lengths that occur, so that
reallocation, growth within the capacity, and both branches of `shrink` are reached; 7 spare
bytes make a loaded slice less than a third full. In `adb_file` it is 1, the length of the
longest file there. Four times let a buffer get dirty, reach the timeout, pass it, and be
dirtied again. Two handles are enough for one to act in the other's gap; files of one byte have
contents that differ, a resize and a failed save that leaves a part, and longer ones are in
`slice`; the proofs hold for all. The flag sets of `MCAdbFile` are one for each way the code
treats an open. For the cache, two readers are what it takes for one listing to replace another
and renew its time; one writer has two removals of its own; a second name behaves as the first
one. For the operations on paths, two names make a chain of two links, a cycle and a link that
leads nowhere; the depth limit is 1 in place of 64 (0 in `MCAdbFileSystemLinks.cfg`), so that
the paths on both sides of it and the one between are met. One request is asked for every
operation; the other for those that change the directory, store a listing or follow links while
they hold the client. Two devices let the processes of one go on while the other comes and
goes, and two events let one device go and come back behind `main`'s back. Three handlers and
`main` compete for `unmountServer`, and the theorems hold for any number.

`CHECK_DEADLOCK` is left on in every run.

**Fairness.**
* `OpenFiles`: `WF` on the critical sections: they have no loop, and device calls answer or
  fail. `SF` on getting the lock: `sync.Mutex` hands itself to a waiter that has starved for
  a millisecond, so being enabled again and again is enough. Nothing makes a client open or
  close a file, and nothing makes an open succeed.
* `DirCache`: `WF` on time and on the removal goroutines. Readers and writers may stop
  anywhere.
* `AdbFileSystem`: `WF` on the steps of a request that has all it waits for: goroutines run
  and device calls answer or fail. `SF` on getting the client, since a Go channel serves its
  receivers in the order they came. Nothing makes FUSE call an operation, and other programs
  owe nothing: a link that others keep lengthening still ends at the depth limit.
* `MountLifecycle`: `WF` on `main`, on the goroutine that serves, and on each handler:
  none of them waits for anything but `Serve` and `Unmount`, which return. A request that
  has its error returns; when its device calls do is left open. Signals, devices
  and users owe nothing.
* `Automount`: `WF` on each `mountDevice`, each goroutine that kills, and the end of
  `Shutdown`. `GetDeviceInfo` answers or fails; an adbfs owes nothing, it ends because it
  is killed.

## 4. Findings

1. **Two buffers for one path** (`open_files.go:80`, run `open_files_shared`). Client 1
   decrements to 0 and waits for the lock. Client 2 opens the path, gets the same buffer,
   closes it, and its `release` deletes the entry. Client 3 opens the path and a new buffer
   is loaded. Client 1 gets the lock, still reads 0 in the old buffer, and deletes the entry
   of the new one. The next open loads a third buffer while client 3 works on the second.
   `adb_file.go:34` says that all files of a path share a buffer. A comparison of the entry
   with `file` before the deletion would mend it.
2. **A truncation zeroes the head** (`growable_byte_slice.go:76`, run `slice_shrink`). The
   loop ranges over `s.data[newLen:]` and uses the index from 0. The existing test truncates
   to nothing only, where it cannot be seen.
3. **A file that is not created** (`open_files.go:43`, `MCAdbFileCreate.cfg`). A handle has
   the file open and saved; another program, or `Unlink`, removes it; a second open with
   O_CREATE gets the buffer in the table and returns with success. No device call failed and
   the device has no file. `adb_file.go:27` says that it is created immediately.
4. **A stale listing after a write** (`dir_entry_cache.go:45`, run `dir_cache_invalidation`).
   A reader gets the listing from the device; a file is written and its removal runs; the
   reader stores the listing. `caching_device_client.go:89` says that writing invalidates.
   `AnswersCatchUp` bounds the damage: it ends with the time to live.
5. **A device that is not mounted again** (`cmd/adbfs-automount/main.go:84`, run
   `automount_tried`). The device comes back while the process of its last visit has not
   been swept; `Go` returns an error and `main` drops it. In the run that process has just
   given up at `GetDeviceInfo`; one whose adbfs winds down leaves the same gap for longer.
6. **A pool of one** (`adb_filesystem.go:82`, run `filesystem_pool`). The channel has room for
   `ConnectionPoolSize` clients, one is put in it, and none is made later: with a size of 2, the
   second short operation waits for the first. `adb_filesystem.go:31` and `:57` and
   `internal/cli/base_config.go:50` speak of a pool of that size.
7. **One link too many** (`adb_filesystem.go:133`, `MCAdbFileSystemLinks.cfg`). The depth is tested
   with `>` before it is counted up, so `MaxLinkResolveDepth + 1` links are followed, although
   `adb_filesystem.go:24` says that 64 "ought to be deep enough for anybody". `StepsDescend`
   bounds the harm: cycles end all the same.
8. **Disconnections nobody reports** (`device_client.go:58`, `MCMountLifecycleReports.cfg`).
   `OpenWrite`, `RunCommand` and the `ReadAll` of `ListDirEntries` do not look for
   `DeviceNotFound`. Once the watcher's channel is closed, a mount on which only open files are
   written, and commands run, outlives its device. `device_client.go:24` speaks of "any
   operations".

Met while modelling, in places where no document says otherwise (they are in the hazards):
the `break` at `cmd/adbfs/main.go:139` leaves the `select` only; `doesFileExist`
(`internal/cli/mountpoint.go:34`) is false of every path, so that `Mkdir` does the check;
`unmounted` stays set when `Unmount` fails; `initialize` (`file_buffer.go:115`) drops the error
of its `Sync`, so that an open whose save failed succeeds without a file, and one whose load
failed begins with an empty, clean buffer; `readLink`
(`adb_filesystem.go:358`) takes the message about a missing file for the target of a link.

## 5. What is proved

For every value of the constants:

* **OpenFiles** (`OpenFilesProofs`): `TypeOK`, `RefCountIsHandles`, `NoLeak`,
  `OnlyStaleReleaseEvicts`. The inductive invariant `IInv` adds `LockIsHeld` (who is in a
  critical section owns the lock, so the lock excludes), `ClientsMatchPc` (a client has a
  buffer exactly when its `pc` says so) and `TableMatchesPath` (the entry for a path is a
  buffer of the path; without it, `release` could delete the entry of any path). Counting
  rests on `FiniteSetTheorems`: one step adds or removes one element of `Handles(b)`.
  Assumptions: the clients are finitely many, `Nil` is none of them.
  `HandlesKeepTheirPath`: the buffer under an open file is that of the path it was opened by,
  to the end. `SharingUnlessStale` says how narrow finding 1 is: in a behaviour without a
  `StaleRelease` (a release at count 0 that finds another buffer in the place of its own) all
  open files of a path share a buffer. Its invariant is `OpenIsInTable`: what a client has
  open is the table's buffer for its path.
* **SliceOperations**: `TypeOK`, `FileUntilPartialShrink`, `WriteIsLocal`,
  `ReadsCoverTheFile`, from lemmas that state what each operation returns
  (`GrowableByteSliceProofs`). The last is about any number of reads: `FlattenedPrefixes`
  follows what the first k of them have returned, by the least k that would have it wrong
  (`LeastNumber`). Assumption: 0 is a byte.
* **FileBuffer** (`AdbFileProofs`): `TypeOK`, `DirtyIsOldestUnsaved`,
  `UnsavedEditsStay`, and `ImplementsWriteBackFile`: initial states map to initial states
  and each action to the action of `WriteBackFile` of its outcome. The invariant is the
  conjunction of the first three. `UnsavedEditsStay` is not inductive alone: `dirty # 0` is
  how the code tests for unsaved edits, and `DirtyIsOldestUnsaved` says that it is the right
  test.
* **AdbFile** (`AdbFileProofs`): `AdbFileTypeOK`, `FlushedIsSaved`, `ReadOnlyNeverDirty`,
  `WriteBoundsStaleness`. `AdbFileIInv` adds to the invariant of `FileBuffer`
  `DebtorsCanFlush` (a handle that owes an edit can write, so its `Flush` is not the no-op,
  and was not told OK since) and `ReadOnlyHandles`. Every step of `AdbFile` is a step of
  `FileBuffer` or leaves the buffer alone (`HandlesUseBuffer`: `AdbFileSpec => Spec`), so
  what is proved of one buffer holds under any number of handles (`HandlesImplementFile`,
  `HandlesKeepEdits`).
* **DirCache** (`DirCacheProofs`): `TypeOK`, `StaleOnlyInFlight`. The invariant says the same
  of listings that readers still hold (`Accounts`): what is stored must already be accounted
  for. `CacheImplementsListings`: `Spec => ImplementsListingCache`; the histories of a listing
  may grow while it waits, its files may not. `InvalidatesUnlessOvertaken`: as long as no
  reader stores a listing that a write has overtaken (`OvertakenStore`, finding 4), every write
  invalidates, whatever else is late, fails or comes twice. Assumptions: `Absent` is no
  content, `NoListing` neither a listing nor a directory, the time to live is positive.
* **AdbFileSystem** (`AdbFileSystemProofs`): `TypeOK`, `ClientsKept`, `SparesExisting`,
  `ReadOnlyLeavesDevice`, for any requests, names, links, depth limit and pool size.
  `ClientsKept` counts the requests that hold a client (`FiniteSetTheorems`): taking one adds
  one, finishing removes one, and with one client made that is what keeps the pool within its
  capacity. `Phased` says where each kind of operation may be (an open never queues, nothing
  that is refused gets past `Receive`, an open that saves creates or truncates, which is what
  `IsWriteOp` looks for), and `QuietListing` that a listing under a quiet request agrees with
  the device. Most steps either go on (`MovingInvariant`) or return (`FinishInvariant`).
  `QuietAnswers` needs more (`CourseInvariant`): an operation under way is past its early
  errors and in one of its own phases (`Underway`), and a quiet one that resolves a path has
  yet to find, from where it is and with the links it may still follow, what `Resolution` (the
  code's own bound, defined with the proofs) says of the path it was given (`OnCourse`).
  `AnswerIsExpected` shows that this is what is documented, but for `Apart`.
  `ResolutionDefined` says that the recursive function is what its definition says, by
  induction on the links that may be followed. `StepsDescend`: the rank `StepsLeft` of an
  operation goes down with each of its own steps (`ServeDescends`, `TakeClientDescends`) and is
  left alone by the others (`OthersStay`); it is at most 3 * `MaxLinkResolveDepth` + 9. This is
  the safety half of `RequestsReturn`. `OperationsUseListings`: `Spec => CacheSpec`, so that
  these operations ask of the cache what `DirCache` is proved to give. Assumptions: links hold
  names or `Nowhere`, the depth limit is a natural number and the pool size an integer,
  requests are asked for operations on names.
* **MountLifecycle** (`MountLifecycleProofs`): `TypeOK`, `UnmountedOnce`, `NeverPanics`,
  `ExitLeavesNoMount`. `PastChecks` says who may be where before `mounted` is set,
  `OneUnmounter` that the actor that won the swap is alone and the first, `UnmountedIsGone`
  what `unmounted` promises. Most steps only move one actor: `WalkingInvariant` is the lemma
  for them. Assumption: `main`, the watcher and the requests are different.
* **ProcessTracker and Automount** (`AutomountProofs`): `TrackerSafe` of the tracker alone;
  `AutomountTypeOK`, `OneProcessPerKey`, `SweepNeverPanics`, `NoAdbfsAfterExit`,
  `MountpointsAreOwned` of the automounter. `TableIsAlive` (the table and the goroutines
  agree) makes the sweep find its own process, and with it the WaitGroup count the
  goroutines that are alive. `StagesHold` says what a process has at each stage; removing a
  mountpoint preserves it because no other process has the same device.
  `AutomountImplementsMounts`: `AutomountSpec => ImplementsDeviceMounts`. Two workers never
  have one device, so what a worker does to its own is all that happens to that device; a
  sweep lets it go, and by then the stage of the worker says that adbfs is gone.
  `TriedUnlessRefused` says how narrow finding 5 is: as long as `Go` refuses no device that
  is new (`RefusedGo`), a device that is connected has been tried or is still to be reported
  (`TriedOrReported`). Assumption: the goroutines are finitely many.

Two of the results need induction. The library's induction theorems take an operator as a
parameter, which the provers at hand cannot instantiate; `LeastNumber` and `SetInduction` put
a set in its place, from `WFMin`, the library's theorem on least elements. They are used on
two recursive functions: `ResolutionWithin`, and the one inside `FlattenSeq`.

The theorems with "Unless" in their names have a hypothesis, that a certain step is not taken;
the violating run of the finding shows that it is needed.

Only model-checked: the liveness properties (`CallsReturn`, `UnusedLeavesTable`,
`AnswersCatchUp`, `RequestsReturn`, `DisconnectEnds`, `StopsWhenTold`), which are out of the
prover's reach as is `ENABLED`. Every invariant and action property of a passing run, and every
refinement, is proved. No theorem is stated for findings 2, 3, 6, 7 and 8:
`FileUntilPartialShrink` says already when a truncation is right, and what `CreatedOnOpen` asks
of the first open of a path is one step of `NewFileBuffer`; `ClientsKept`, `QuietAnswers` with
`Apart`, and `DisconnectEnds` say what holds in the places of the last three.

## 6. Assumptions

* Kernel: `FLUSH` comes before the `RELEASE` of a handle (it is sent at `close`). Pages
  written through `mmap` after the last flush are not modelled.
* Device calls answer or fail. `OpenFiles.lock` is held over them, so a call that hangs
  blocks every open and close; the model says nothing of that.
* `FileBuffer`'s device client gives an accurate `Stat`. In the program it goes through the
  directory cache, which can be stale; `AdbFileSystem` has that `Stat` (`SparesExisting`).
* `AdbFileSystem`: opens are of paths without a buffer, and two opens of one path may overlap,
  which `OpenFiles.lock` forbids: the model allows more than the code. A command that the
  device refuses prints something; `readlink` of a missing file prints a message that `readLink`
  does not know and takes for the target. `util.WrapErrf`, a library function, makes of any
  error one that `toErrno` does not know unless it has the code of a missing file.
* The spare bytes that `ioutil.ReadAll` leaves in its array are 0.
* `AdbFile` takes `OpenFiles` as it should be: one buffer while a handle is open. Finding 1
  is where it is not.
* Lengths do not overflow an `int`, and the clock does not go backwards.
* The device lists a directory at one instant. go-cache behaves as its calls say; the time
  to live is positive (0 means "for ever" to it).
* `server.Unmount` and `Serve` return. An `Unmount` called from a FUSE request may have to
  wait for that request, which is not modelled.
* Mountpoint names differ from device to device. Nobody but the processes of the automounter
  touches the mountpoints.

## 7. Not modelled

Permissions and modes, formatting, logging (`log_entry.go`, `eventlog.go`,
`wrapping_file.go`), attribute and entry conversion (`util.go`), command line handling,
`statfs` output parsing: stateless string handling. `Read` and `GetAttr` of `AdbFile` change
nothing; what `Read` returns is `ReadAt` of the slice. `AdbFileSystem.initialize` resolves
`DeviceRoot` once, before anything is served and with nobody else on the client: it is a
`readLinkRecursively` like that of `Access`. Mount handlers are processes nothing waits for.

## 8. Plan

Done, in order of what a mistake costs: the write path of one file; `DirCache`;
`MountLifecycle` with the reports of `goadbDeviceClient`; `ProcessTracker` and `Automount`;
`AdbFileSystem` over the listing cache. Left:

1. **AdbFiles:** `OpenFiles` and `FileBuffer` composed over a device with several paths,
   `Unlink` and `Rename` under open files, sizes reported for dirty buffers. Abstract
   specification: a POSIX-like file table. To prove: no save goes to a path that the handle
   was not opened with.
2. **DeviceRoot:** `initialize`, with a root that is itself a link, before the first request.
