--------------------------- MODULE DirCacheProofs ---------------------------
(***************************************************************************)
(* Proofs about the cache of directory listings, for any names, readers    *)
(* and writers and any time to live: what it answers wrongly is accounted  *)
(* for.  The invariant follows each listing from the device to the cache.  *)
(***************************************************************************)
EXTENDS DirCache, TLAPS

(* A listing on its way to the cache is right about a directory d, but for   *)
(* the names that were changed since the device made it.                    *)
Accounts(l, d) ==
    \A n \in Names : l.files[n] # d[n] => n \in l.foreign \cup l.raced

(* A listing in the cache may also wait for the removal that a write brings. *)
CacheAccounts ==
    cache # NoListing =>
        \A n \in Names : cache.files[n] # device[n] =>
            n \in cache.foreign \cup cache.raced \/ InFlight(n) \/ removals > 0

Invariant ==
    /\ TypeOK
    /\ \A r \in Readers : loaded[r] # NoListing => Accounts(loaded[r], device)
    /\ CacheAccounts

-----------------------------------------------------------------------------

(* What Outdated does to a listing: it is still the same listing, with one   *)
(* more name in one of its histories.                                       *)
LEMMA OutdatedListing ==
    ASSUME NEW l \in Listings \cup {NoListing}, NEW n \in Names,
           NEW field \in {"foreign", "raced"}
    PROVE  /\ Outdated(l, field, n) \in Listings \cup {NoListing}
           /\ Outdated(l, field, n) \in Listings <=> l \in Listings
           /\ l # NoListing =>
                /\ Outdated(l, field, n).files = l.files
                /\ Outdated(l, field, n).foreign \cup Outdated(l, field, n).raced
                     = (l.foreign \cup l.raced) \cup {n}
<1>1. CASE l = NoListing
  BY <1>1 DEF Outdated
<1>2. CASE l \in Listings
  <2>1. l # NoListing
    BY <1>2, NoListingAssumption
  <2>2. Outdated(l, field, n) = [files |-> l.files,
            foreign |-> IF field = "foreign" THEN l.foreign \cup {n} ELSE l.foreign,
            raced |-> IF field = "raced" THEN l.raced \cup {n} ELSE l.raced]
    BY <1>2, <2>1 DEF Outdated, Listings
  <2>3. QED
    BY <1>2, <2>1, <2>2, SMTT(30) DEF Listings
<1>3. QED
  BY <1>1, <1>2

(* A listing that was right stays accounted for when the directory changes.  *)
LEMMA OutdatedAccounts ==
    ASSUME NEW l \in Listings \cup {NoListing}, NEW d \in Files,
           l # NoListing => Accounts(l, d),
           NEW n \in Names, NEW field \in {"foreign", "raced"}, NEW v
    PROVE  Outdated(l, field, n) # NoListing =>
               Accounts(Outdated(l, field, n), [d EXCEPT ![n] = v])
<1> DEFINE new == Outdated(l, field, n)
           dn == [d EXCEPT ![n] = v]
<1> SUFFICES ASSUME new # NoListing, NEW m \in Names, new.files[m] # dn[m]
             PROVE  m \in new.foreign \cup new.raced
  BY DEF Accounts
<1>1. l # NoListing
  BY DEF Outdated
<1>2. new.files = l.files /\ new.foreign \cup new.raced = (l.foreign \cup l.raced) \cup {n}
  BY <1>1, OutdatedListing
<1>3. CASE m = n
  BY <1>2, <1>3
<1>4. CASE m # n
  <2>1. dn[m] = d[m]
    BY <1>4 DEF Files
  <2>2. l.files[m] # d[m]
    BY <1>2, <2>1
  <2>3. QED
    BY <1>1, <1>2, <2>2 DEF Accounts
<1>5. QED
  BY <1>3, <1>4

(* What a write does to the device and to listings on their way.             *)
LEMMA WrittenAccounts ==
    ASSUME Invariant, NEW n \in Names, NEW v \in Contents \cup {device[n]},
           DeviceWritten(n, v)
    PROVE  /\ device' \in Files
           /\ loaded' \in [Readers -> Listings \cup {NoListing}]
           /\ \A r \in Readers : loaded'[r] \in Listings <=> loaded[r] \in Listings
           /\ \A r \in Readers : loaded'[r] # NoListing => Accounts(loaded'[r], device')
           /\ \A m \in Names : m # n => device'[m] = device[m]
<1>1. device' \in Files /\ \A m \in Names : m # n => device'[m] = device[m]
  BY DEF DeviceWritten, Invariant, TypeOK, Files
<1>2. CASE v = device[n]
  <2>1. device' = device /\ loaded' = loaded
    BY <1>2 DEF DeviceWritten, Invariant, TypeOK, Files
  <2>2. QED
    BY <1>1, <2>1 DEF Invariant, TypeOK
<1>3. CASE v # device[n]
  <2>1. \A r \in Readers : /\ loaded[r] \in Listings \cup {NoListing}
                           /\ loaded[r] # NoListing => Accounts(loaded[r], device)
    BY DEF Invariant, TypeOK
  <2>2. /\ loaded' = [r \in Readers |-> Outdated(loaded[r], "raced", n)]
        /\ device' = [device EXCEPT ![n] = v]
    BY <1>3 DEF DeviceWritten
  <2>3. ASSUME NEW r \in Readers
        PROVE  /\ loaded'[r] \in Listings \cup {NoListing}
               /\ loaded'[r] \in Listings <=> loaded[r] \in Listings
               /\ loaded'[r] # NoListing => Accounts(loaded'[r], device')
    <3>1. loaded'[r] = Outdated(loaded[r], "raced", n)
      BY <2>2
    <3>2. device \in Files
      BY DEF Invariant, TypeOK
    <3> DEFINE l == loaded[r]
               new == Outdated(l, "raced", n)
               dn == [device EXCEPT ![n] = v]
    <3>3. new # NoListing => Accounts(new, dn)
      <4> HIDE DEF l
      <4>1. l \in Listings \cup {NoListing} /\ (l # NoListing => Accounts(l, device))
        BY <2>1 DEF l
      <4>2. QED
        BY <3>2, <4>1, OutdatedAccounts
    <3>4. new \in Listings \cup {NoListing} /\ (new \in Listings <=> l \in Listings)
      BY <2>1, OutdatedListing
    <3> HIDE DEF new, dn
    <3>5. loaded'[r] = new /\ device' = dn
      BY <2>2, <3>1 DEF new, dn
    <3>6. QED
      BY <3>3, <3>4, <3>5 DEF l
  <2>4. loaded' \in [Readers -> Listings \cup {NoListing}]
    BY <2>2, <2>3
  <2>5. QED
    BY <1>1, <2>3, <2>4
<1>4. QED
  BY <1>2, <1>3

-----------------------------------------------------------------------------

LEMMA InitInvariant == Init => Invariant
  BY NoListingAssumption, TtlAssumption
     DEF Init, Invariant, TypeOK, CacheAccounts

LEMMA NextInvariant == Invariant /\ [Next]_vars => Invariant'
<1> SUFFICES ASSUME Invariant, [Next]_vars
             PROVE  Invariant'
  OBVIOUS
<1> USE NoListingAssumption, TtlAssumption
<1>1. ASSUME NEW r \in Readers, Miss(r) \/ LoadFails(r)
      PROVE  Invariant'
  BY <1>1 DEF Invariant, TypeOK, CacheAccounts, InFlight, Miss, LoadFails, writerVars
<1>2. ASSUME NEW r \in Readers, Load(r)
      PROVE  Invariant'
  <2> DEFINE l == [files |-> device, foreign |-> {}, raced |-> {}]
  <2>1. l \in Listings /\ Accounts(l, device)
    BY DEF Listings, Accounts, Invariant, TypeOK
  <2>2. QED
    BY <1>2, <2>1 DEF Invariant, TypeOK, CacheAccounts, InFlight, Load, writerVars
<1>3. ASSUME NEW r \in Readers, Store(r)
      PROVE  Invariant'
  <2>1. cache' \in Listings /\ cache' # NoListing /\ Accounts(cache', device)
    BY <1>3 DEF Store, Invariant, TypeOK
  <2>2. CacheAccounts'
    BY <1>3, <2>1 DEF Store, CacheAccounts, Accounts
  <2>3. QED
    BY <1>3, <2>1, <2>2 DEF Invariant, TypeOK, Store, writerVars
<1>4. ASSUME NEW w \in Writers, NEW n \in Names, OpenWrite(w, n)
      PROVE  Invariant'
  <2>1. \A m \in Names : InFlight(m) => InFlight(m)'
    BY <1>4 DEF InFlight, OpenWrite, Invariant, TypeOK
  <2>2. QED
    BY <1>4, <2>1 DEF Invariant, TypeOK, CacheAccounts, OpenWrite, readerVars
<1>5. ASSUME NEW w \in Writers, NEW v \in Contents, WriteData(w, v)
      PROVE  Invariant'
  <2>1. target[w] \in Names /\ InFlight(target[w])'
    BY <1>5 DEF InFlight, WriteData, writerVars, Invariant, TypeOK
  <2>2. \A m \in Names : InFlight(m) => InFlight(m)'
    BY <1>5 DEF InFlight, WriteData, writerVars
  <2>3. CacheAccounts'
    BY <1>5, <2>1, <2>2, WrittenAccounts DEF Invariant, CacheAccounts, WriteData, writerVars
  <2>4. QED
    BY <1>5, <2>1, <2>3, WrittenAccounts DEF Invariant, TypeOK, WriteData, writerVars
<1>6. ASSUME NEW w \in Writers, NEW v \in Contents \cup {device[target[w]]}, Close(w, v)
      PROVE  Invariant'
  <2>1. target[w] \in Names /\ InFlight(target[w])'
    BY <1>6 DEF InFlight, Close, Invariant, TypeOK
  <2>2. \A m \in Names : InFlight(m) => InFlight(m)'
    BY <1>6 DEF InFlight, Close, Invariant, TypeOK
  <2>3. CacheAccounts'
    BY <1>6, <2>1, <2>2, WrittenAccounts DEF Invariant, CacheAccounts, Close
  <2>4. QED
    BY <1>6, <2>1, <2>3, WrittenAccounts DEF Invariant, TypeOK, Close
<1>7. ASSUME NEW w \in Writers, WriteFails(w)
      PROVE  Invariant'
  <2>1. \A m \in Names : InFlight(m) => InFlight(m)'
    BY <1>7 DEF InFlight, WriteFails, Invariant, TypeOK
  <2>2. QED
    BY <1>7, <2>1 DEF Invariant, TypeOK, CacheAccounts, WriteFails, readerVars
<1>8. ASSUME NEW w \in Writers, OnClosed(w)
      PROVE  Invariant'
  <2>1. removals' > 0
    BY <1>8 DEF OnClosed, Invariant, TypeOK
  <2>2. QED
    BY <1>8, <2>1 DEF Invariant, TypeOK, CacheAccounts, OnClosed, readerVars
<1>9. CASE Remove
  BY <1>9 DEF Invariant, TypeOK, CacheAccounts, Remove, readerVars
<1>10. ASSUME NEW n \in Names, NEW v \in Contents \cup {Absent}, OtherChange(n, v)
       PROVE  Invariant'
  <2>1. device \in Files /\ device' = [device EXCEPT ![n] = v] /\ device' \in Files
    BY <1>10 DEF OtherChange, Invariant, TypeOK, Files
  <2>2. ASSUME NEW r \in Readers
        PROVE  /\ loaded'[r] \in Listings \cup {NoListing}
               /\ loaded'[r] \in Listings <=> loaded[r] \in Listings
               /\ loaded'[r] # NoListing => Accounts(loaded'[r], device')
    <3>1. loaded'[r] = Outdated(loaded[r], "foreign", n)
      BY <1>10 DEF OtherChange
    <3>2. loaded[r] \in Listings \cup {NoListing} /\ (loaded[r] # NoListing => Accounts(loaded[r], device))
      BY DEF Invariant, TypeOK
    <3> DEFINE l == loaded[r]
               new == Outdated(l, "foreign", n)
               dn == [device EXCEPT ![n] = v]
    <3>3. new # NoListing => Accounts(new, dn)
      <4> HIDE DEF l
      <4>1. l \in Listings \cup {NoListing} /\ (l # NoListing => Accounts(l, device))
        BY <3>2 DEF l
      <4>2. QED
        BY <2>1, <4>1, OutdatedAccounts
    <3>4. new \in Listings \cup {NoListing} /\ (new \in Listings <=> l \in Listings)
      BY <3>2, OutdatedListing
    <3> HIDE DEF new, dn
    <3>5. loaded'[r] = new /\ device' = dn
      BY <2>1, <3>1 DEF new, dn
    <3>6. QED
      BY <3>3, <3>4, <3>5 DEF l
  <2>3. cache' = Outdated(cache, "foreign", n) /\ cache \in Listings \cup {NoListing}
    BY <1>10 DEF OtherChange, Invariant, TypeOK
  <2>4. cache' \in Listings \cup {NoListing}
    BY <2>3, OutdatedListing
  <2>5. ASSUME cache' # NoListing, NEW m \in Names, cache'.files[m] # device'[m],
               ~(m \in cache'.foreign \cup cache'.raced)
        PROVE  InFlight(m)' \/ removals' > 0
    <3>1. cache # NoListing
      BY <2>3, <2>5 DEF Outdated
    <3>2. /\ cache'.files = cache.files
          /\ cache'.foreign \cup cache'.raced = (cache.foreign \cup cache.raced) \cup {n}
      BY <2>3, <3>1, OutdatedListing
    <3>3. m # n /\ device'[m] = device[m]
      BY <2>1, <2>5, <3>2 DEF Files
    <3>4. InFlight(m) \/ removals > 0
      BY <2>5, <3>1, <3>2, <3>3 DEF Invariant, CacheAccounts
    <3>5. QED
      BY <1>10, <3>4 DEF InFlight, OtherChange, writerVars
  <2>6. CacheAccounts'
    BY <2>5 DEF CacheAccounts
  <2>7. loaded' \in [Readers -> Listings \cup {NoListing}]
    BY <1>10, <2>2 DEF OtherChange
  <2>8. QED
    BY <1>10, <2>1, <2>2, <2>4, <2>6, <2>7 DEF Invariant, TypeOK, OtherChange, writerVars
<1>11. CASE Tick
  BY <1>11 DEF Invariant, TypeOK, CacheAccounts, InFlight, Tick, Found, readerVars, writerVars
<1>12. CASE UNCHANGED vars
  BY <1>12 DEF Invariant, TypeOK, CacheAccounts, InFlight, vars, readerVars, writerVars
<1>13. QED
  BY <1>1, <1>2, <1>3, <1>4, <1>5, <1>6, <1>7, <1>8, <1>9, <1>10, <1>11, <1>12 DEF Next

-----------------------------------------------------------------------------

(* The state has its types (dir_entry_cache.go, caching_device_client.go).   *)
THEOREM TypeCorrect == Spec => []TypeOK
<1>1. Invariant => TypeOK
  BY DEF Invariant
<1>2. QED
  BY <1>1, InitInvariant, NextInvariant, PTL DEF Spec

(* Stat answers wrongly only if a program went behind adbfs's back, a write  *)
(* or its removal is under way, or a listing was overtaken by a write        *)
(* (Stat, GetOrLoad, OpenWrite and onCloseWriter.Close).                     *)
THEOREM WrongAnswersAccounted == Spec => []StaleOnlyInFlight
<1>1. Invariant => StaleOnlyInFlight
  BY DEF Invariant, CacheAccounts, StaleOnlyInFlight, Stale, Stat, Found
<1>2. QED
  BY <1>1, InitInvariant, NextInvariant, PTL DEF Spec

-----------------------------------------------------------------------------

(* What the cache and its loaders show to ListingCache.                      *)
Cached == IF Found THEN FilesOf(cache) ELSE NoListing
Loaded == [r \in Readers |-> FilesOf(loaded[r])]

LEMMA OutdatedKeepsFiles ==
    ASSUME NEW l \in Listings \cup {NoListing}, NEW n \in Names,
           NEW field \in {"foreign", "raced"}
    PROVE  /\ FilesOf(Outdated(l, field, n)) = FilesOf(l)
           /\ Outdated(l, field, n) = NoListing <=> l = NoListing
<1>1. CASE l = NoListing
  BY <1>1 DEF FilesOf, Outdated
<1>2. CASE l # NoListing
  <2>1. Outdated(l, field, n).files = l.files /\ Outdated(l, field, n) \in Listings
    BY <1>2, OutdatedListing
  <2>2. Outdated(l, field, n) # NoListing
    BY <2>1, NoListingAssumption
  <2>3. QED
    BY <1>2, <2>1, <2>2 DEF FilesOf
<1>3. QED
  BY <1>1, <1>2

(* Whoever changes the device leaves the files of the listings under way.    *)
LEMMA ChangeKeepsListings ==
    ASSUME Invariant, NEW n \in Names, NEW field \in {"foreign", "raced"},
           loaded' = loaded \/ loaded' = [r \in Readers |-> Outdated(loaded[r], field, n)]
    PROVE  Loaded' = Loaded
<1>1. ASSUME NEW r \in Readers
      PROVE  FilesOf(loaded'[r]) = FilesOf(loaded[r])
  <2>1. loaded[r] \in Listings \cup {NoListing}
    BY DEF Invariant, TypeOK
  <2>2. CASE loaded' = loaded
    BY <2>2
  <2>3. CASE loaded' = [q \in Readers |-> Outdated(loaded[q], field, n)]
    <3>1. loaded'[r] = Outdated(loaded[r], field, n)
      BY <2>3
    <3>2. QED
      BY <2>1, <3>1, OutdatedKeepsFiles
  <2>4. QED
    BY <2>2, <2>3
<1>2. Loaded' = [r \in Readers |-> FilesOf(loaded'[r])]
  BY DEF Loaded, FilesOf
<1>3. QED
  BY <1>1, <1>2 DEF Loaded

LEMMA WrittenKeepsListings ==
    ASSUME Invariant, NEW n \in Names, NEW v \in Contents \cup {device[n]},
           DeviceWritten(n, v)
    PROVE  Loaded' = Loaded
<1>1. CASE v = device[n]
  <2>1. loaded' = loaded
    BY <1>1 DEF DeviceWritten, Invariant, TypeOK
  <2>2. QED
    BY <2>1, ChangeKeepsListings
<1>2. CASE v # device[n]
  <2>1. loaded' = [r \in Readers |-> Outdated(loaded[r], "raced", n)]
    BY <1>2 DEF DeviceWritten
  <2>2. QED
    BY <2>1, ChangeKeepsListings
<1>3. QED
  BY <1>1, <1>2

LEMMA InitImplements == Init => Listing!CacheInit
  BY DEF Init, Listing!CacheInit, Files, Listing!Files, Found, FilesOf

(* The four ways a step can look from outside.                               *)
LEMMA StepsSeen ==
    ASSUME Invariant, Invariant', [Next]_vars
    PROVE  \/ Cached' \in {Cached, NoListing} /\ Loaded' = Loaded /\ device' = device
           \/ Cached' = Cached /\ Loaded' = Loaded
           \/ \E r \in Readers : /\ Loaded[r] = NoListing
                                 /\ Loaded' = [Loaded EXCEPT ![r] = device]
                                 /\ Cached' = Cached /\ device' = device
           \/ \E r \in Readers : /\ Loaded[r] # NoListing
                                 /\ Cached' = Loaded[r]
                                 /\ Loaded' = [Loaded EXCEPT ![r] = NoListing]
                                 /\ device' = device
<1> USE NoListingAssumption, TtlAssumption
<1>1. ASSUME NEW r \in Readers, Miss(r) \/ LoadFails(r)
      PROVE  Cached' = Cached /\ Loaded' = Loaded
  BY <1>1 DEF Miss, LoadFails, Cached, Loaded, Found, FilesOf
<1>2. ASSUME NEW r \in Readers, Load(r)
      PROVE  /\ Loaded[r] = NoListing
             /\ Loaded' = [Loaded EXCEPT ![r] = device]
             /\ Cached' = Cached /\ device' = device
  <2> DEFINE l == [files |-> device, foreign |-> {}, raced |-> {}]
  <2>1. l \in Listings /\ l.files = device
    BY DEF Listings, Invariant, TypeOK
  <2>2. l # NoListing
    BY <2>1
  <2>3. loaded[r] = NoListing
    BY <1>2 DEF Load, Invariant, TypeOK
  <2>4. FilesOf(l) = device
    BY <2>1, <2>2 DEF FilesOf
  <2>5. loaded' = [loaded EXCEPT ![r] = l] /\ loaded \in [Readers -> Listings \cup {NoListing}]
    BY <1>2 DEF Load, Invariant, TypeOK
  <2> HIDE DEF l
  <2>6. Loaded' = [Loaded EXCEPT ![r] = device]
    BY <2>4, <2>5 DEF Loaded, FilesOf
  <2>7. QED
    BY <1>2, <2>3, <2>6 DEF Load, Loaded, Cached, Found, FilesOf
<1>3. ASSUME NEW r \in Readers, Store(r)
      PROVE  /\ Loaded[r] # NoListing
             /\ Cached' = Loaded[r]
             /\ Loaded' = [Loaded EXCEPT ![r] = NoListing]
             /\ device' = device
  <2>1. loaded[r] \in Listings /\ loaded[r] # NoListing
    BY <1>3 DEF Store, Invariant, TypeOK
  <2>2. loaded[r].files \in Files
    BY <2>1 DEF Listings
  <2>3. Loaded[r] = loaded[r].files /\ Loaded[r] # NoListing
    BY <2>1, <2>2 DEF Loaded, FilesOf
  <2>4. Cached' = Loaded[r]
    BY <1>3, <2>1, <2>3 DEF Store, Cached, Found, FilesOf
  <2>5. Loaded' = [Loaded EXCEPT ![r] = NoListing]
    BY <1>3 DEF Store, Loaded, FilesOf, Invariant, TypeOK
  <2>6. QED
    BY <1>3, <2>3, <2>4, <2>5 DEF Store
<1>4. ASSUME NEW w \in Writers,
             \/ \E n \in Names : OpenWrite(w, n)
             \/ WriteFails(w)
             \/ OnClosed(w)
      PROVE  Cached' = Cached /\ Loaded' = Loaded
  BY <1>4 DEF OpenWrite, WriteFails, OnClosed, readerVars, Cached, Loaded, Found, FilesOf
<1>5. ASSUME NEW w \in Writers, NEW v \in Contents \cup {device[target[w]]},
             WriteData(w, v) \/ Close(w, v)
      PROVE  Cached' = Cached /\ Loaded' = Loaded
  <2>1. target[w] \in Names /\ DeviceWritten(target[w], v)
    BY <1>5 DEF WriteData, Close, Invariant, TypeOK
  <2>2. Loaded' = Loaded
    BY <2>1, WrittenKeepsListings
  <2>3. QED
    BY <1>5, <2>2 DEF WriteData, Close, Cached, Found, FilesOf
<1>6. CASE Remove
  BY <1>6 DEF Remove, readerVars, Cached, Loaded, Found, FilesOf
<1>7. ASSUME NEW n \in Names, NEW v \in Contents \cup {Absent}, OtherChange(n, v)
      PROVE  Cached' = Cached /\ Loaded' = Loaded
  <2>1. Loaded' = Loaded
    BY <1>7, ChangeKeepsListings DEF OtherChange
  <2>2. FilesOf(cache') = FilesOf(cache) /\ (cache' = NoListing <=> cache = NoListing)
    BY <1>7, OutdatedKeepsFiles DEF OtherChange, Invariant, TypeOK
  <2>3. QED
    BY <1>7, <2>1, <2>2 DEF OtherChange, Cached, Found, FilesOf
<1>8. CASE Tick
  BY <1>8 DEF Tick, readerVars, Cached, Loaded, Found, FilesOf
<1>9. CASE UNCHANGED vars
  BY <1>9 DEF vars, readerVars, Cached, Loaded, Found, FilesOf
<1>10. QED
  BY <1>1, <1>2, <1>3, <1>4, <1>5, <1>6, <1>7, <1>8, <1>9 DEF Next

LEMMA NextImplements ==
    Invariant /\ Invariant' /\ [Next]_vars => [Listing!CacheNext]_(Listing!cacheVars)
<1> SUFFICES ASSUME Invariant, Invariant', [Next]_vars
             PROVE  [Listing!CacheNext]_(Listing!cacheVars)
  OBVIOUS
<1>1. device' \in Listing!Files
  BY DEF Invariant, TypeOK, Files, Listing!Files
<1>2. QED
  BY <1>1, StepsSeen
  DEF Cached, Loaded, Listing!CacheNext, Listing!cacheVars,
      Listing!Change, Listing!Load, Listing!Store, Listing!Forget

(* The cache implements ListingCache: whatever readers, writers, removals    *)
(* and time do, requests find a whole listing the device once gave           *)
(* (realDirEntryCache.GetOrLoad, CachingDeviceClient.Stat).                  *)
THEOREM CacheImplementsListings == Spec => ImplementsListingCache
<1>1. Spec => []Invariant
  BY InitInvariant, NextInvariant, PTL DEF Spec
<1>2. QED
  BY <1>1, InitImplements, NextImplements, PTL
  DEF Spec, ImplementsListingCache, Listing!CacheSpec

-----------------------------------------------------------------------------
(* When a write does invalidate.                                             *)

(* A reader stores a listing the device made before adbfs wrote.             *)
OvertakenStore == \E r \in Readers : Store(r) /\ loaded[r].raced # {}

CacheNotOvertaken == cache # NoListing => cache.raced = {}

LEMMA OutdatedByOthers ==
    ASSUME NEW l \in Listings, NEW n \in Names
    PROVE  Outdated(l, "foreign", n).raced = l.raced
<1>1. l # NoListing
  BY NoListingAssumption
<1>2. Outdated(l, "foreign", n)
        = [files |-> l.files, foreign |-> l.foreign \cup {n}, raced |-> l.raced]
  BY <1>1 DEF Outdated, Listings
<1>3. QED
  BY <1>2

LEMMA NextNotOvertaken ==
    Invariant /\ CacheNotOvertaken /\ [Next]_vars /\ ~OvertakenStore => CacheNotOvertaken'
<1> SUFFICES ASSUME Invariant, CacheNotOvertaken, [Next]_vars, ~OvertakenStore
             PROVE  CacheNotOvertaken'
  OBVIOUS
<1>1. CASE UNCHANGED cache
  BY <1>1 DEF CacheNotOvertaken
<1>2. ASSUME NEW r \in Readers, Store(r)
      PROVE  CacheNotOvertaken'
  BY <1>2 DEF Store, OvertakenStore, CacheNotOvertaken
<1>3. CASE Remove
  BY <1>3 DEF Remove, CacheNotOvertaken
<1>4. ASSUME NEW n \in Names, NEW v, OtherChange(n, v)
      PROVE  CacheNotOvertaken'
  <2>1. cache' = Outdated(cache, "foreign", n) /\ cache \in Listings \cup {NoListing}
    BY <1>4 DEF OtherChange, Invariant, TypeOK
  <2>2. CASE cache = NoListing
    BY <2>1, <2>2 DEF Outdated, CacheNotOvertaken
  <2>3. CASE cache \in Listings
    BY <2>1, <2>3, OutdatedByOthers, NoListingAssumption DEF CacheNotOvertaken
  <2>4. QED
    BY <2>1, <2>2, <2>3
<1>5. QED
  BY <1>1, <1>2, <1>3, <1>4
     DEF Next, Miss, Load, LoadFails, OpenWrite, WriteData, Close, WriteFails, OnClosed, Tick, vars

(* Writing to a file invalidates its entry (caching_device_client.go:89) as  *)
(* long as no reader stores a listing that was made before a write and       *)
(* overtaken by it: that is the one way a write comes to be missed for good, *)
(* which the run dir_cache_invalidation shows.  Overlapping writers, failed  *)
(* writes, closes that come twice, removals that run late and expiry are     *)
(* none (OpenWrite, onCloseWriter.Close, RemoveEventually).                  *)
THEOREM InvalidatesUnlessOvertaken ==
    Spec /\ [][~OvertakenStore]_vars => []WriteInvalidates
<1>1. Init => CacheNotOvertaken
  BY DEF Init, CacheNotOvertaken
<1>2. Invariant /\ CacheNotOvertaken /\ [Next]_vars /\ [~OvertakenStore]_vars
        => CacheNotOvertaken'
  <2>1. CacheNotOvertaken /\ UNCHANGED vars => CacheNotOvertaken'
    BY DEF CacheNotOvertaken, vars
  <2>2. QED
    BY <2>1, NextNotOvertaken
<1>3. Invariant /\ CacheNotOvertaken => WriteInvalidates
  <2> SUFFICES ASSUME Invariant, CacheNotOvertaken, NEW n \in Names, Stale(n),
                      \A w \in Writers : wpc[w] = "idle", removals = 0
               PROVE  n \in cache.foreign
    BY DEF WriteInvalidates
  <2>1. cache # NoListing /\ cache.files[n] # device[n]
    BY DEF Stale, Stat, Found
  <2>2. ~InFlight(n)
    BY DEF InFlight
  <2>3. QED
    BY <2>1, <2>2 DEF Invariant, CacheAccounts, CacheNotOvertaken
<1>4. QED
  BY <1>1, <1>2, <1>3, InitInvariant, NextInvariant, PTL DEF Spec
=============================================================================
