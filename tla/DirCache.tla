------------------------------ MODULE DirCache ------------------------------
(***************************************************************************)
(* The cache of directory listings (src/dir_entry_cache.go) as             *)
(* CachingDeviceClient uses it (src/caching_device_client.go), for one     *)
(* directory: directories share nothing.                                   *)
(*                                                                         *)
(* A listing is loaded outside any lock, and a closed writer drops the     *)
(* cached one in a goroutine: a listing read before a write may be cached  *)
(* after the removal that was meant for it.  The device lists a directory  *)
(* at one instant.  The time to live is positive.                          *)
(***************************************************************************)
EXTENDS Naturals

CONSTANTS
    Names,       \* names a file of the directory may have
    Contents,    \* what the device knows of a file: size, mode, mtime
    Absent,      \* what it knows of a file that does not exist
    NoListing,   \* no entry in the cache, or nothing loaded
    Readers,     \* callers of ListDirEntries
    Writers,     \* callers of OpenWrite (FileBuffer.saveToDevice)
    Ttl,         \* how many ticks a listing lives
    MaxRemovals  \* bound: no OpenWrite while that many removals are pending

ASSUME AbsentAssumption == Absent \notin Contents
ASSUME TtlAssumption == Ttl \in Nat \ {0}
ASSUME MaxRemovalsAssumption == MaxRemovals \in Nat

Files == [Names -> Contents \cup {Absent}]

(* CachedDirEntries.  The last two fields are history: the names that were  *)
(* changed since the device listed them, by others or by adbfs's writers.   *)
Listings == [files: Files, foreign: SUBSET Names, raced: SUBSET Names]

ASSUME NoListingAssumption == NoListing \notin Listings \cup Files

VARIABLES
    device,    \* the directory on the device
    cache,     \* the listing in the cache
    age,       \* ticks since the listing was stored
    pc,        \* what a reader is doing
    loaded,    \* the listing a reader got from the device
    wpc,       \* what a writer is doing
    target,    \* the name a writer writes to
    removals   \* removal goroutines that have not run

readerVars == <<pc, loaded>>
writerVars == <<wpc, target, removals>>
vars == <<device, cache, age, readerVars, writerVars>>

TypeOK ==
    /\ device \in Files
    /\ cache \in Listings \cup {NoListing}
    /\ age \in 0 .. Ttl + 1
    /\ pc \in [Readers -> {"idle", "asking", "loaded"}]
    /\ loaded \in [Readers -> Listings \cup {NoListing}]
    /\ \A r \in Readers : pc[r] = "loaded" <=> loaded[r] \in Listings
    /\ wpc \in [Writers -> {"idle", "writing", "failed", "closed", "recloses"}]
    /\ target \in [Writers -> Names]
    /\ removals \in Nat

Init ==
    /\ device \in Files
    /\ cache = NoListing
    /\ age = 0
    /\ pc = [r \in Readers |-> "idle"]
    /\ loaded = [r \in Readers |-> NoListing]
    /\ wpc = [w \in Writers |-> "idle"]
    /\ target \in [Writers -> Names]
    /\ removals = 0

-----------------------------------------------------------------------------

(* Mutant of Found: a listing never expires.                                 *)
FoundForever == cache # NoListing

(* Cache.Get: an entry is found until its time is up.                       *)
Found == cache # NoListing /\ age <= Ttl

(* CachingDeviceClient.Stat: a name the cached listing lacks does not       *)
(* exist; without a listing the device is asked.                            *)
Stat(n) == IF Found THEN cache.files[n] ELSE device[n]

(* Marks a listing, wherever it is held.                                    *)
Outdated(l, field, n) ==
    IF l = NoListing THEN l
    ELSE [l EXCEPT !.foreign = IF field = "foreign" THEN @ \cup {n} ELSE @,
                   !.raced = IF field = "raced" THEN @ \cup {n} ELSE @]

(* GetOrLoad finds nothing and asks the device.  (When it finds a listing   *)
(* it returns it, and nothing changes.)                                     *)
Miss(r) ==
    /\ pc[r] = "idle"
    /\ ~Found
    /\ pc' = [pc EXCEPT ![r] = "asking"]
    /\ UNCHANGED <<device, cache, age, loaded, writerVars>>

(* The loader returns what the device holds at that moment.                 *)
Load(r) ==
    /\ pc[r] = "asking"
    /\ pc' = [pc EXCEPT ![r] = "loaded"]
    /\ loaded' = [loaded EXCEPT ![r] = [files |-> device, foreign |-> {}, raced |-> {}]]
    /\ UNCHANGED <<device, cache, age, writerVars>>

(* Mutant of LoadFails: the error of the loader is dropped, and a nil        *)
(* listing cached.                                                           *)
LoadFailsCached(r) ==
    /\ pc[r] = "asking"
    /\ pc' = [pc EXCEPT ![r] = "idle"]
    /\ cache' = [files |-> NoListing, foreign |-> {}, raced |-> {}]
    /\ age' = 0
    /\ UNCHANGED <<device, loaded, writerVars>>

(* The loader fails: nothing is cached.                                     *)
LoadFails(r) ==
    /\ pc[r] = "asking"
    /\ pc' = [pc EXCEPT ![r] = "idle"]
    /\ UNCHANGED <<device, cache, age, loaded, writerVars>>

(* Mutant of Store: the names of the new listing are added to the old one.   *)
StoreMerged(r) ==
    /\ pc[r] = "loaded"
    /\ cache' = [loaded[r] EXCEPT !.files = [n \in Names |->
           IF @[n] = Absent /\ Found THEN cache.files[n] ELSE @[n]]]
    /\ age' = 0
    /\ pc' = [pc EXCEPT ![r] = "idle"]
    /\ loaded' = [loaded EXCEPT ![r] = NoListing]
    /\ UNCHANGED <<device, writerVars>>

(* Cache.Set replaces whatever is cached, and its time starts anew.         *)
Store(r) ==
    /\ pc[r] = "loaded"
    /\ cache' = loaded[r]
    /\ age' = 0
    /\ pc' = [pc EXCEPT ![r] = "idle"]
    /\ loaded' = [loaded EXCEPT ![r] = NoListing]
    /\ UNCHANGED <<device, writerVars>>

-----------------------------------------------------------------------------

(* CachingDeviceClient.OpenWrite leaves the cache alone.                    *)
OpenWrite(w, n) ==
    /\ wpc[w] = "idle"
    /\ removals < MaxRemovals
    /\ wpc' = [wpc EXCEPT ![w] = "writing"]
    /\ target' = [target EXCEPT ![w] = n]
    /\ UNCHANGED <<device, cache, age, readerVars, removals>>

(* The device shows the file changed by adbfs; listings that are still on   *)
(* their way to the cache miss that.                                        *)
DeviceWritten(n, v) ==
    /\ device' = [device EXCEPT ![n] = v]
    /\ loaded' = [r \in Readers |-> IF v = device[n] THEN loaded[r]
                                    ELSE Outdated(loaded[r], "raced", n)]

(* Part of the data reaches the device: the file is created, and grows.     *)
WriteData(w, v) ==
    /\ wpc[w] = "writing"
    /\ DeviceWritten(target[w], v)
    /\ UNCHANGED <<cache, age, pc, writerVars>>

(* WriteTo fails: the deferred Close is the only one.                       *)
WriteFails(w) ==
    /\ wpc[w] = "writing"
    /\ wpc' = [wpc EXCEPT ![w] = "failed"]
    /\ UNCHANGED <<device, cache, age, readerVars, target, removals>>

(* The writer is closed, which sets the mtime, or fails to.                 *)
Close(w, v) ==
    /\ wpc[w] = "writing"
    /\ DeviceWritten(target[w], v)
    /\ wpc' = [wpc EXCEPT ![w] = "closed"]
    /\ UNCHANGED <<cache, age, pc, target, removals>>

(* Mutant of OnClosed: onClosed is called only when the writer closed well.  *)
OnClosedWell(w) ==
    /\ wpc[w] \in {"failed", "closed", "recloses"}
    /\ wpc' = [wpc EXCEPT ![w] = IF @ = "closed" THEN "recloses" ELSE "idle"]
    /\ removals' = IF wpc[w] = "closed" THEN removals + 1 ELSE removals
    /\ UNCHANGED <<device, cache, age, readerVars, target>>

(* onCloseWriter.Close calls onClosed, whether or not the writer closed      *)
(* well, and that spawns the removal.  saveToDevice closes again on return.  *)
OnClosed(w) ==
    /\ wpc[w] \in {"failed", "closed", "recloses"}
    /\ wpc' = [wpc EXCEPT ![w] = IF @ = "closed" THEN "recloses" ELSE "idle"]
    /\ removals' = removals + 1
    /\ UNCHANGED <<device, cache, age, readerVars, target>>

(* The goroutine of RemoveEventually runs.                                  *)
Remove ==
    /\ removals > 0
    /\ removals' = removals - 1
    /\ cache' = NoListing
    /\ age' = 0
    /\ UNCHANGED <<device, readerVars, wpc, target>>

-----------------------------------------------------------------------------

(* Another program changes a file, or adbfs does with a command (Mkdir,     *)
(* Rename, Unlink, Chmod): CachingDeviceClient lets RunCommand through.     *)
OtherChange(n, v) ==
    /\ v # device[n]
    /\ device' = [device EXCEPT ![n] = v]
    /\ cache' = Outdated(cache, "foreign", n)
    /\ loaded' = [r \in Readers |-> Outdated(loaded[r], "foreign", n)]
    /\ UNCHANGED <<age, pc, writerVars>>

(* Time passes for the listing in the cache, until it has expired.          *)
Tick ==
    /\ cache # NoListing
    /\ age <= Ttl
    /\ age' = age + 1
    /\ UNCHANGED <<device, cache, readerVars, writerVars>>

Next ==
    \/ \E r \in Readers : Miss(r) \/ Load(r) \/ LoadFails(r) \/ Store(r)
    \/ \E w \in Writers :
          \/ \E n \in Names : OpenWrite(w, n)
          \/ \E v \in Contents : WriteData(w, v)
          \/ \E v \in Contents \cup {device[target[w]]} : Close(w, v)
          \/ WriteFails(w)
          \/ OnClosed(w)
    \/ Remove
    \/ \E n \in Names, v \in Contents \cup {Absent} : OtherChange(n, v)
    \/ Tick

(* The clock goes on and goroutines get to run.  Nobody needs to read,      *)
(* write or finish what he began.                                           *)
Fairness == WF_vars(Tick) /\ WF_vars(Remove)

Spec == Init /\ [][Next]_vars /\ Fairness

-----------------------------------------------------------------------------

(* A writer to n has begun and has not yet asked for the removal.           *)
InFlight(n) ==
    \E w \in Writers : target[w] = n /\ wpc[w] \in {"writing", "failed", "closed"}

Stale(n) == Stat(n) # device[n]

(* What Stat answers differs from the device only if a program went behind  *)
(* adbfs's back, a write or the removal that follows it is still under way, *)
(* or the listing was read before a write and stored after it              *)
(* (caching_device_client.go, OpenWrite; dir_entry_cache.go, GetOrLoad).    *)
StaleOnlyInFlight ==
    \A n \in Names : Stale(n) =>
        \/ n \in cache.foreign \cup cache.raced
        \/ InFlight(n)
        \/ removals > 0

(* A wrong answer does not stay: the listing expires or is removed, and     *)
(* listings that were loaded meanwhile cannot renew it for ever             *)
(* (dir_entry_cache.go, GetOrLoad).                                         *)
AnswersCatchUp == \A n \in Names : Stale(n) ~> ~Stale(n)

(* What a listing shows of itself to requests.                               *)
FilesOf(l) == IF l = NoListing THEN NoListing ELSE l.files

(* Requests find in the cache a whole listing the device once gave, or       *)
(* nothing, whoever loads, stores, removes and lets expire when              *)
(* (dir_entry_cache.go, GetOrLoad; caching_device_client.go, Stat).          *)
Listing == INSTANCE ListingCache WITH
    Requests <- Readers,
    cached <- IF Found THEN FilesOf(cache) ELSE NoListing,
    loaded <- [r \in Readers |-> FilesOf(loaded[r])]

ImplementsListingCache == Listing!CacheSpec

(* caching_device_client.go:89: "Writing to the file obviously invalidates   *)
(* the file's cache entry."  So once all writers are done and every removal  *)
(* they asked for has run, only changes by others can be missed.             *)
WriteInvalidates ==
    \A n \in Names :
        /\ Stale(n)
        /\ \A w \in Writers : wpc[w] = "idle"
        /\ removals = 0
        => n \in cache.foreign
=============================================================================
