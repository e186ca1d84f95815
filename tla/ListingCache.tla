---------------------------- MODULE ListingCache ----------------------------
(***************************************************************************)
(* What the requests of the filesystem are promised of a directory whose   *)
(* listing is cached (src/caching_device_client.go): a listing in the      *)
(* cache is what the device held when a loader asked it, complete and      *)
(* unchanged, however long ago that was.  DirCache says how it is kept and *)
(* when it goes.                                                           *)
(***************************************************************************)

CONSTANTS
    Names,      \* names a file of the directory may have
    Contents,   \* what the device knows of a file
    Absent,     \* what it knows of a file that does not exist
    NoListing,  \* no entry in the cache, or nothing loaded
    Requests    \* callers of ListDirEntries

Files == [Names -> Contents \cup {Absent}]

ASSUME NoListingAssumption == NoListing \notin Files
ASSUME AbsentAssumption == Absent \notin Contents

VARIABLES
    device,  \* the directory on the device
    cached,  \* the listing Get finds
    loaded   \* the listing a request got from the device and has yet to store

cacheVars == <<device, cached, loaded>>

CacheInit ==
    /\ device \in Files
    /\ cached = NoListing
    /\ loaded = [r \in Requests |-> NoListing]

(* The directory changes, by whatever program.                              *)
Change(files) ==
    /\ device' = files
    /\ UNCHANGED <<cached, loaded>>

(* GetOrLoad asks the device, with no lock.                                 *)
Load(r) ==
    /\ loaded[r] = NoListing
    /\ loaded' = [loaded EXCEPT ![r] = device]
    /\ UNCHANGED <<device, cached>>

(* GetOrLoad stores what it loaded, over whatever is there.                 *)
Store(r) ==
    /\ loaded[r] # NoListing
    /\ cached' = loaded[r]
    /\ loaded' = [loaded EXCEPT ![r] = NoListing]
    /\ UNCHANGED device

(* The listing expires, or a goroutine of RemoveEventually runs.            *)
Forget ==
    /\ cached' = NoListing
    /\ UNCHANGED <<device, loaded>>

CacheNext ==
    \/ \E files \in Files : Change(files)
    \/ \E r \in Requests : Load(r) \/ Store(r)
    \/ Forget

CacheSpec == CacheInit /\ [][CacheNext]_cacheVars
=============================================================================
