------------------------ MODULE AdbFileSystemProofs ------------------------
(***************************************************************************)
(* Proofs about the operations on paths, for any requests, names, links,   *)
(* depths and pool sizes: no client is lost, a read-only filesystem leaves *)
(* the device alone, an open spares a file that exists, and a request that *)
(* nothing got in the way of answers what the directory calls for, over    *)
(* any chain of links.                                                     *)
(***************************************************************************)
EXTENDS AdbFileSystem, FiniteSetTheorems, WellFoundedInduction, TLAPS

(* Where an operation has begun and not returned, and has all it waits for.  *)
Active == Phases \ {"idle", "queued", "answered"}

(* Where the kinds of operations may be, and that none that is refused gets  *)
(* anywhere.                                                                 *)
Phased ==
    \A r \in Requests :
        /\ doing[r] = "queued" => call[r].op \notin OpenOps
        /\ doing[r] \in Active /\ call[r].op \in OpenOps =>
               doing[r] \in {"stat", "statDevice", "save", "fetch"} /\ at[r] \in Names
        /\ doing[r] \in {"save", "fetch"} => call[r].op \in OpenOps
        /\ doing[r] = "save" => Creates(call[r]) \/ Contains(FlagsOf(call[r]), {"O_TRUNC"})
        /\ doing[r] \in Active \cup {"queued"} => ~Refused(call[r])

(* Nothing is quiet under a listing that is wrong.                           *)
QuietListing == quiet # {} => cached \in {NoListing, device}

Invariant == TypeOK /\ ClientsKept /\ Phased /\ QuietListing /\ SparesExisting

(* What Observe makes of a step that begins no request.                      *)
Seen ==
    /\ quiet' \subseteq quiet
    /\ quiet' # {} => device' = device /\ cached' \in {NoListing, device'}

CacheTypeOK ==
    /\ device \in Files
    /\ cached \in Files \cup {NoListing}
    /\ loaded \in [Requests -> Files \cup {NoListing}]

-----------------------------------------------------------------------------

LEMMA ErrorNames ==
    {"nil", "LinkTooDeep", "NotALink", "NoPermission", "NotPermitted", "FileNoExist",
     "EINVAL", "ENOSYS", "Other"} = Errors
  BY DEF Errors, toErrno

LEMMA StatusesTyped ==
    ASSUME NEW c, NEW err \in Errors
    PROVE  StatusOf(c, err) \in Statuses
  BY DEF StatusOf, Statuses

LEMMA EarlyErrors ==
    ASSUME NEW c
    PROVE  EarlyError(c) \in Errors /\ (Refused(c) => EarlyError(c) # "nil")
  BY ErrorNames DEF EarlyError

(* Commands that change the device are those of CommandOps, and leave a      *)
(* directory of files.                                                       *)
LEMMA EffectsAreFiles ==
    ASSUME CacheTypeOK, NEW c, c.name \in Names, c.to \in Names, Effect(c)
    PROVE  CacheTypeOK' /\ c.op \in CommandOps
<1>1. \A n \in Names : device[n] \in Contents \cup {Absent}
  BY DEF CacheTypeOK, Files
<1>2. device' \in Files
  BY <1>1 DEF Effect, Change, CacheTypeOK, Files
<1>3. c.op \in CommandOps
  BY DEF Effect, CommandOps
<1>4. cached' = cached /\ loaded' = loaded
  BY DEF Effect, Change
<1>5. QED
  BY <1>2, <1>3, <1>4 DEF CacheTypeOK

LEMMA InitInvariant == Init => Invariant
<1> SUFFICES ASSUME Init
             PROVE  Invariant
  OBVIOUS
<1> USE DEF Init, CacheInit
<1>1. TypeOK
  BY SizesAssumption DEF TypeOK, PoolCapacity, ClientsMade, Phases, Statuses
<1>2. ClientsKept
  <2>1. Holders = {}
    BY DEF Holders
  <2>2. QED
    BY <2>1, FS_EmptySet DEF ClientsKept, ClientsMade
<1>3. Phased
  BY DEF Phased, Active, Phases
<1>4. QuietListing /\ SparesExisting
  BY DEF QuietListing, SparesExisting
<1>5. QED
  BY <1>1, <1>2, <1>3, <1>4 DEF Invariant

-----------------------------------------------------------------------------

(* An operation goes on with its next device call.                           *)
LEMMA MovingInvariant ==
    ASSUME Invariant, NEW r \in Requests, doing[r] \in Active,
           NEW p \in Active, NEW n \in Names \cup {Nowhere},
           NEW d \in 0 .. MaxLinkResolveDepth + 1,
           doing' = [doing EXCEPT ![r] = p],
           at' = [at EXCEPT ![r] = n],
           depth' = [depth EXCEPT ![r] = d],
           UNCHANGED <<clients, call, status, readOnly>>,
           CacheTypeOK', Seen,
           call[r].op \in OpenOps => p \in {"stat", "statDevice", "save", "fetch"} /\ n \in Names,
           p \in {"save", "fetch"} => call[r].op \in OpenOps,
           p = "save" => Creates(call[r]) \/ Contains(FlagsOf(call[r]), {"O_TRUNC"}),
           p = "save" /\ r \in quiet' /\ ~Contains(FlagsOf(call[r]), {"O_TRUNC"})
               => device[n] = Absent
    PROVE  Invariant'
<1>1. /\ doing \in [Requests -> Phases] /\ at \in [Requests -> Names \cup {Nowhere}]
      /\ depth \in [Requests -> 0 .. MaxLinkResolveDepth + 1]
  BY DEF Invariant, TypeOK
<1>2. \A q \in Requests : q # r => doing'[q] = doing[q] /\ at'[q] = at[q]
  BY <1>1
<1>3. doing'[r] = p /\ at'[r] = n /\ p \in Phases \ {"idle", "queued", "answered"}
  BY <1>1 DEF Active
<1>4. TypeOK'
  <2>1. /\ doing' \in [Requests -> Phases] /\ at' \in [Requests -> Names \cup {Nowhere}]
        /\ depth' \in [Requests -> 0 .. MaxLinkResolveDepth + 1]
    BY <1>1, <1>3
  <2>2. \A q \in Requests : call'[q] \in IF doing'[q] = "idle" THEN {NoCall} ELSE Calls[q]
    BY <1>2, <1>3 DEF Invariant, TypeOK, Active
  <2>3. quiet' \subseteq Requests /\ readOnly' \in BOOLEAN
    BY DEF Seen, Invariant, TypeOK
  <2>4. /\ clients' \in 0 .. PoolCapacity /\ status' \in [Requests -> Statuses]
        /\ call' \in [Requests -> {NoCall} \cup UNION {Calls[q] : q \in Requests}]
    BY DEF Invariant, TypeOK
  <2>5. QED
    BY <2>1, <2>2, <2>3, <2>4 DEF TypeOK, CacheTypeOK
<1>5. ClientsKept'
  <2>1. Holders' = Holders
    BY <1>2, <1>3 DEF Holders, Active
  <2>2. QED
    BY <2>1 DEF Invariant, ClientsKept
<1>6. Phased'
  <2>1. \A c : Refused(c)' <=> Refused(c)
    BY DEF Refused
  <2>2. ~Refused(call[r])
    BY DEF Invariant, Phased
  <2>3. QED
    BY <1>2, <1>3, <2>1, <2>2 DEF Invariant, Phased
<1>7. QuietListing'
  BY DEF Seen, QuietListing
<1>8. SparesExisting'
  BY <1>2, <1>3 DEF Seen, Invariant, SparesExisting
<1>9. QED
  BY <1>4, <1>5, <1>6, <1>7, <1>8 DEF Invariant

(* An operation returns, and gives its client back.                          *)
LEMMA FinishInvariant ==
    ASSUME Invariant, NEW r \in Requests, doing[r] \in Active,
           NEW err \in Errors, Finish(r, err), UNCHANGED readOnly, CacheTypeOK', Seen
    PROVE  Invariant'
<1>1. /\ doing \in [Requests -> Phases] /\ at \in [Requests -> Names \cup {Nowhere}]
      /\ depth \in [Requests -> 0 .. MaxLinkResolveDepth + 1]
      /\ status \in [Requests -> Statuses]
  BY DEF Invariant, TypeOK
<1>2. /\ doing' = [doing EXCEPT ![r] = "answered"] /\ call' = call
      /\ at' = [at EXCEPT ![r] = Nowhere] /\ depth' = [depth EXCEPT ![r] = 0]
      /\ status' = [status EXCEPT ![r] = StatusOf(call[r], err)]
      /\ \/ call[r].op \in OpenOps /\ clients' = clients
         \/ call[r].op \notin OpenOps /\ clients < PoolCapacity /\ clients' = clients + 1
  BY DEF Finish
<1>3. /\ \A q \in Requests : q # r => doing'[q] = doing[q] /\ at'[q] = at[q]
      /\ doing'[r] = "answered"
  BY <1>1, <1>2
<1>4. TypeOK'
  <2>1. doing' \in [Requests -> Phases]
    BY <1>1, <1>2 DEF Phases
  <2>2. at' \in [Requests -> Names \cup {Nowhere}] /\ status' \in [Requests -> Statuses]
    BY <1>1, <1>2, StatusesTyped
  <2>3. depth' \in [Requests -> 0 .. MaxLinkResolveDepth + 1]
    BY <1>1, <1>2, SizesAssumption
  <2>4. clients' \in 0 .. PoolCapacity
    BY <1>2, SizesAssumption DEF Invariant, TypeOK, PoolCapacity
  <2>5. \A q \in Requests : call'[q] \in IF doing'[q] = "idle" THEN {NoCall} ELSE Calls[q]
    BY <1>2, <1>3 DEF Invariant, TypeOK, Active
  <2>6. /\ quiet' \subseteq Requests /\ readOnly' \in BOOLEAN
        /\ call' \in [Requests -> {NoCall} \cup UNION {Calls[q] : q \in Requests}]
    BY <1>2 DEF Seen, Invariant, TypeOK
  <2>7. QED
    BY <2>1, <2>2, <2>3, <2>4, <2>5, <2>6 DEF TypeOK, CacheTypeOK
<1>5. ClientsKept'
  <2>1. CASE call[r].op \in OpenOps
    <3>1. Holders' = Holders
      BY <1>2, <1>3, <2>1 DEF Holders
    <3>2. QED
      BY <1>2, <2>1, <3>1 DEF Invariant, ClientsKept
  <2>2. CASE call[r].op \notin OpenOps
    <3>1. r \in Holders /\ Holders' = Holders \ {r}
      BY <1>2, <1>3, <2>2 DEF Holders, Active
    <3>2. IsFiniteSet(Holders) /\ clients + Cardinality(Holders) = ClientsMade
      BY DEF Invariant, ClientsKept
    <3>3. /\ IsFiniteSet(Holders') /\ Cardinality(Holders') = Cardinality(Holders) - 1
          /\ Cardinality(Holders) \in Nat
      BY <3>1, <3>2, FS_RemoveElement, FS_CardinalityType
    <3>4. clients \in Nat
      BY SizesAssumption DEF Invariant, TypeOK, PoolCapacity
    <3>5. QED
      BY <1>2, <2>2, <3>2, <3>3, <3>4 DEF ClientsKept, ClientsMade
  <2>3. QED
    BY <2>1, <2>2
<1>6. Phased'
  <2>1. \A c : Refused(c)' <=> Refused(c)
    BY DEF Refused
  <2>2. QED
    BY <1>2, <1>3, <2>1 DEF Invariant, Phased, Active
<1>7. QuietListing'
  BY DEF Seen, QuietListing
<1>8. SparesExisting'
  BY <1>2, <1>3 DEF Seen, Invariant, SparesExisting
<1>9. QED
  BY <1>4, <1>5, <1>6, <1>7, <1>8 DEF Invariant

-----------------------------------------------------------------------------

(* What is given of a step of a request.                                     *)
LEMMA RequestFacts ==
    ASSUME Invariant, NEW r \in Requests
    PROVE  /\ CacheTypeOK
           /\ doing[r] \in Phases /\ at[r] \in Names \cup {Nowhere}
           /\ depth[r] \in 0 .. MaxLinkResolveDepth + 1
           /\ doing[r] \in Active \cup {"queued", "answered"} =>
                 call[r] \in Calls[r] /\ call[r].name \in Names /\ call[r].to \in Names
           /\ loaded[r] \in Files \cup {NoListing}
  BY CallsAssumption DEF Invariant, TypeOK, CacheTypeOK, Active, Phases

LEMMA ObserveSeen ==
    ASSUME NEW ends, Observe({}, ends)
    PROVE  Seen
  BY DEF Observe, Seen

LEMMA GotoInvariant ==
    ASSUME Invariant, NEW r \in Requests, doing[r] \in Active,
           NEW p \in Active, Goto(r, p), UNCHANGED readOnly, CacheTypeOK', Seen,
           call[r].op \in OpenOps => p \in {"stat", "statDevice", "save", "fetch"},
           p \in {"save", "fetch"} => call[r].op \in OpenOps,
           p = "save" => Creates(call[r]) \/ Contains(FlagsOf(call[r]), {"O_TRUNC"}),
           p = "save" /\ r \in quiet' /\ ~Contains(FlagsOf(call[r]), {"O_TRUNC"})
               => device[at[r]] = Absent
    PROVE  Invariant'
<1>1. /\ at \in [Requests -> Names \cup {Nowhere}]
      /\ depth \in [Requests -> 0 .. MaxLinkResolveDepth + 1]
  BY DEF Invariant, TypeOK
<1>2. /\ doing' = [doing EXCEPT ![r] = p]
      /\ at' = [at EXCEPT ![r] = at[r]] /\ depth' = [depth EXCEPT ![r] = depth[r]]
      /\ UNCHANGED <<clients, call, status, readOnly>>
  BY <1>1 DEF Goto
<1>3. call[r].op \in OpenOps => at[r] \in Names
  BY DEF Invariant, Phased
<1>4. at[r] \in Names \cup {Nowhere} /\ depth[r] \in 0 .. MaxLinkResolveDepth + 1
  BY <1>1
<1>5. QED
  BY <1>2, <1>3, <1>4, MovingInvariant

LEMMA FollowLinkInvariant ==
    ASSUME Invariant, NEW r \in Requests, doing[r] \in Active,
           call[r].op \notin OpenOps,
           FollowLink(r), UNCHANGED readOnly, CacheTypeOK', Seen
    PROVE  Invariant'
<1>1. CASE depth[r] > MaxLinkResolveDepth
  <2>1. Finish(r, "LinkTooDeep")
    BY <1>1 DEF FollowLink
  <2>2. QED
    BY <2>1, ErrorNames, FinishInvariant
<1>2. CASE ~(depth[r] > MaxLinkResolveDepth)
  <2>1. depth[r] + 1 \in 0 .. MaxLinkResolveDepth + 1 /\ at[r] \in Names \cup {Nowhere}
    BY <1>2, RequestFacts, SizesAssumption
  <2>2. at \in [Requests -> Names \cup {Nowhere}]
    BY DEF Invariant, TypeOK
  <2>3. /\ doing' = [doing EXCEPT ![r] = "readlink"]
        /\ depth' = [depth EXCEPT ![r] = depth[r] + 1]
        /\ at' = [at EXCEPT ![r] = at[r]]
        /\ UNCHANGED <<clients, call, status, readOnly>>
    BY <1>2, <2>2 DEF FollowLink
  <2>4. "readlink" \in Active
    BY DEF Active, Phases
  <2>5. QED
    BY <2>1, <2>3, <2>4, MovingInvariant
<1>3. QED
  BY <1>1, <1>2

LEMMA StattedInvariant ==
    ASSUME Invariant, NEW r \in Requests, doing[r] \in {"stat", "statDevice"},
           NEW v, Statted(r, v), UNCHANGED <<readOnly, cacheVars>>, Seen,
           r \in quiet' /\ call[r].op \in OpenOps /\ v = Absent => device[at[r]] = Absent
    PROVE  Invariant'
<1>1. CacheTypeOK'
  BY RequestFacts DEF CacheTypeOK, cacheVars
<1>2. doing[r] \in Active /\ {"save", "fetch", "command"} \subseteq Active
  BY DEF Active, Phases
<1>3. {"nil", "FileNoExist"} \subseteq Errors
  BY ErrorNames
<1>4. CASE call[r].op \in OpenOps
  <2>1. InitializeBuffer(r, v)
    BY <1>4 DEF Statted
  <2>2. CASE v = Absent /\ ~Creates(call[r])
    BY <1>1, <1>2, <1>3, <2>1, <2>2, FinishInvariant DEF InitializeBuffer
  <2>3. CASE /\ ~(v = Absent /\ ~Creates(call[r]))
             /\ v = Absent \/ Contains(FlagsOf(call[r]), {"O_TRUNC"})
    BY <1>1, <1>2, <1>4, <2>1, <2>3, GotoInvariant DEF InitializeBuffer
  <2>4. CASE ~(v = Absent \/ Contains(FlagsOf(call[r]), {"O_TRUNC"}))
    BY <1>1, <1>2, <1>4, <2>1, <2>4, GotoInvariant DEF InitializeBuffer
  <2>5. QED
    BY <2>2, <2>3, <2>4
<1>5. CASE call[r].op \notin OpenOps
  <2>1. \/ Finish(r, "FileNoExist") \/ Finish(r, "nil")
        \/ FollowLink(r) \/ Goto(r, "command")
    BY <1>5 DEF Statted
  <2>2. CASE Goto(r, "command")
    BY <1>1, <1>2, <1>5, <2>2, GotoInvariant
  <2>3. QED
    BY <1>1, <1>2, <1>3, <1>5, <2>1, <2>2, FinishInvariant, FollowLinkInvariant
<1>6. QED
  BY <1>4, <1>5

LEMMA StatInvariant ==
    ASSUME Invariant, NEW r \in Requests, StatCached(r) \/ StatDevice(r),
           UNCHANGED readOnly, Seen
    PROVE  Invariant'
<1>1. UNCHANGED cacheVars /\ CacheTypeOK'
  BY RequestFacts DEF StatCached, StatDevice, CacheTypeOK, cacheVars
<1>2. doing[r] \in {"stat", "statDevice"} /\ doing[r] \in Active /\ "statDevice" \in Active
  BY DEF StatCached, StatDevice, Active, Phases
<1>3. call[r].op \in OpenOps => at[r] \in Names /\ at[r] # Nowhere
  BY <1>2, NowhereAssumption DEF Invariant, Phased
<1>4. CASE StatCached(r) /\ cached # NoListing /\ at[r] # Nowhere
  <2>1. r \in quiet' => cached[at[r]] = device[at[r]]
    BY <1>4 DEF Seen, Invariant, QuietListing
  <2>2. Statted(r, cached[at[r]])
    BY <1>4 DEF StatCached
  <2>3. QED
    BY <1>1, <1>2, <2>1, <2>2, StattedInvariant
<1>5. CASE StatCached(r) /\ ~(cached # NoListing /\ at[r] # Nowhere)
  BY <1>1, <1>2, <1>5, GotoInvariant DEF StatCached
<1>6. CASE StatDevice(r)
  BY <1>1, <1>2, <1>3, <1>6, StattedInvariant DEF StatDevice
<1>7. QED
  BY <1>4, <1>5, <1>6

LEMMA ReadLinkInvariant ==
    ASSUME Invariant, NEW r \in Requests, ReadLink(r), UNCHANGED readOnly, Seen
    PROVE  Invariant'
<1>1. doing[r] \in Active /\ "stat" \in Active /\ CacheTypeOK'
  BY RequestFacts DEF ReadLink, Active, Phases, CacheTypeOK, cacheVars
<1>2. call[r].op \notin OpenOps
  BY <1>1 DEF ReadLink, Invariant, Phased
<1>3. {"nil", "NotALink", "Other"} \subseteq Errors
  BY ErrorNames
<1>4. CASE \E err \in {"nil", "NotALink", "Other"} : Finish(r, err)
  BY <1>1, <1>3, <1>4, FinishInvariant
<1>5. CASE /\ doing' = [doing EXCEPT ![r] = "stat"]
           /\ at' = [at EXCEPT ![r] = LinkText(at[r])]
           /\ UNCHANGED <<clients, call, depth, status>>
  <2>1. LinkText(at[r]) \in Names \cup {Nowhere}
    BY LinksAssumption DEF LinkText
  <2>2. /\ depth[r] \in 0 .. MaxLinkResolveDepth + 1
        /\ depth' = [depth EXCEPT ![r] = depth[r]]
    BY <1>5 DEF Invariant, TypeOK
  <2>3. QED
    BY <1>1, <1>2, <1>5, <2>1, <2>2, MovingInvariant
<1>6. QED
  BY <1>4, <1>5 DEF ReadLink

LEMMA ListInvariant ==
    ASSUME Invariant, NEW r \in Requests, UNCHANGED readOnly, Seen,
           ListCached(r) \/ ListDevice(r) \/ ListStored(r)
    PROVE  Invariant'
<1>1. doing[r] \in {"list", "load"} /\ doing[r] \in Active /\ "load" \in Active
  BY DEF ListCached, ListDevice, ListStored, Active, Phases
<1>2. call[r].op \notin OpenOps /\ "nil" \in Errors
  BY <1>1, ErrorNames DEF Invariant, Phased
<1>3. CASE ListCached(r)
  <2>1. CacheTypeOK'
    BY <1>3, RequestFacts DEF ListCached, CacheTypeOK, cacheVars
  <2>2. QED
    BY <1>1, <1>2, <1>3, <2>1, FinishInvariant, GotoInvariant DEF ListCached
<1>4. CASE ListDevice(r)
  <2>1. CacheTypeOK'
    BY <1>4, RequestFacts DEF ListDevice, Load, CacheTypeOK
  <2>2. /\ doing' = doing /\ call' = call /\ at' = at /\ depth' = depth
        /\ clients' = clients /\ status' = status
    BY <1>4 DEF ListDevice, requestVars
  <2>3. QED
    BY <2>1, <2>2
       DEF Invariant, TypeOK, CacheTypeOK, ClientsKept, Holders, Phased, Refused, Seen,
           QuietListing, SparesExisting
<1>5. CASE ListStored(r)
  <2>1. CacheTypeOK'
    BY <1>5, RequestFacts DEF ListStored, Store, CacheTypeOK
  <2>2. QED
    BY <1>1, <1>2, <1>5, <2>1, FinishInvariant DEF ListStored
<1>6. QED
  BY <1>3, <1>4, <1>5

LEMMA CommandInvariant ==
    ASSUME Invariant, NEW r \in Requests, RunCommand(r) \/ RunStatFs(r),
           UNCHANGED readOnly, Seen
    PROVE  Invariant'
<1>1. doing[r] = "command" /\ doing[r] \in Active
  BY DEF RunCommand, RunStatFs, Active, Phases
<1>2. {"nil", "EINVAL", "NoPermission"} \subseteq Errors
  BY ErrorNames
<1>3. CacheTypeOK'
  <2>1. CASE UNCHANGED cacheVars
    BY <2>1, RequestFacts DEF CacheTypeOK, cacheVars
  <2>2. CASE Effect(call[r])
    BY <1>1, <2>2, RequestFacts, EffectsAreFiles
  <2>3. QED
    BY <2>1, <2>2 DEF RunCommand, RunStatFs
<1>4. \E err \in {"nil", "EINVAL", "NoPermission"} : Finish(r, err)
  BY DEF RunCommand, RunStatFs
<1>5. QED
  BY <1>1, <1>2, <1>3, <1>4, FinishInvariant

LEMMA InitialInvariant ==
    ASSUME Invariant, NEW r \in Requests, InitialSave(r) \/ InitialLoad(r),
           UNCHANGED readOnly, Seen
    PROVE  Invariant'
<1>1. doing[r] \in Active /\ "nil" \in Errors /\ Finish(r, "nil")
  BY ErrorNames DEF InitialSave, InitialLoad, Active, Phases
<1>2. CacheTypeOK'
  <2>1. CASE InitialSave(r)
    <3>1. at[r] \in Names
      BY <2>1 DEF InitialSave, Invariant, Phased, Active, Phases
    <3>2. QED
      BY <2>1, <3>1, RequestFacts DEF InitialSave, Change, CacheTypeOK, Files
  <2>2. CASE InitialLoad(r)
    BY <2>2, RequestFacts DEF InitialLoad, CacheTypeOK, cacheVars
  <2>3. QED
    BY <2>1, <2>2
<1>3. QED
  BY <1>1, <1>2, FinishInvariant

LEMMA FailsInvariant ==
    ASSUME Invariant, NEW r \in Requests, Fails(r), UNCHANGED readOnly, Seen
    PROVE  Invariant'
<1>1. {"Other", "NoPermission"} \subseteq Errors
  BY ErrorNames
<1>2. doing[r] \in Active
  BY DEF Fails, Active, Phases
<1>3. CacheTypeOK'
  <2>1. CASE UNCHANGED cacheVars
    BY <2>1, RequestFacts DEF CacheTypeOK, cacheVars
  <2>2. CASE Effect(call[r])
    BY <1>2, <2>2, RequestFacts, EffectsAreFiles
  <2>3. QED
    BY <2>1, <2>2 DEF Fails
<1>4. QED
  BY <1>1, <1>2, <1>3, FinishInvariant DEF Fails

-----------------------------------------------------------------------------

(* Steps of a request that no client has a part in.                          *)
LEMMA ReturnInvariant ==
    ASSUME Invariant, NEW r \in Requests, Return(r), UNCHANGED readOnly, Seen
    PROVE  Invariant'
<1>1. /\ doing[r] = "answered" /\ doing' = [doing EXCEPT ![r] = "idle"]
      /\ call' = [call EXCEPT ![r] = NoCall] /\ status' = [status EXCEPT ![r] = "none"]
      /\ UNCHANGED <<device, cached, loaded, clients, at, depth>>
  BY DEF Return, cacheVars
<1>2. /\ doing \in [Requests -> Phases] /\ status \in [Requests -> Statuses]
      /\ call \in [Requests -> {NoCall} \cup UNION {Calls[q] : q \in Requests}]
  BY DEF Invariant, TypeOK
<1>3. /\ \A q \in Requests : q # r => doing'[q] = doing[q] /\ call'[q] = call[q]
      /\ doing'[r] = "idle" /\ call'[r] = NoCall
  BY <1>1, <1>2
<1>4. TypeOK'
  <2>1. doing' \in [Requests -> Phases] /\ status' \in [Requests -> Statuses]
    BY <1>1, <1>2 DEF Phases, Statuses
  <2>2. \A q \in Requests : call'[q] \in IF doing'[q] = "idle" THEN {NoCall} ELSE Calls[q]
    BY <1>1, <1>3 DEF Invariant, TypeOK
  <2>3. /\ quiet' \subseteq Requests
        /\ call' \in [Requests -> {NoCall} \cup UNION {Calls[q] : q \in Requests}]
    BY <1>1, <1>2 DEF Seen, Invariant, TypeOK
  <2>4. QED
    BY <1>1, <2>1, <2>2, <2>3 DEF Invariant, TypeOK
<1>5. ClientsKept'
  <2>1. Holders' = Holders
    BY <1>1, <1>3 DEF Holders
  <2>2. QED
    BY <1>1, <2>1 DEF Invariant, ClientsKept
<1>6. Phased'
  <2>1. \A c : Refused(c)' <=> Refused(c)
    BY DEF Refused
  <2>2. QED
    BY <1>1, <1>3, <2>1 DEF Invariant, Phased, Active
<1>7. QuietListing' /\ SparesExisting'
  BY <1>1, <1>3 DEF Seen, QuietListing, Invariant, SparesExisting
<1>8. QED
  BY <1>4, <1>5, <1>6, <1>7 DEF Invariant

LEMMA GetClientInvariant ==
    ASSUME Invariant, NEW r \in Requests, GetClient(r), UNCHANGED readOnly, Seen
    PROVE  Invariant'
<1>1. PICK p \in {"list", "readlink", "command", "stat"} :
         /\ doing[r] = "queued" /\ doing' = [doing EXCEPT ![r] = p]
         /\ clients > 0 /\ clients' = clients - 1
         /\ UNCHANGED <<device, cached, loaded, call, at, depth, status>>
  BY DEF GetClient, FirstPhase, cacheVars
<1>2. doing \in [Requests -> Phases] /\ call[r].op \notin OpenOps /\ ~Refused(call[r])
  BY <1>1 DEF Invariant, TypeOK, Phased, Active
<1>3. (\A q \in Requests : q # r => doing'[q] = doing[q]) /\ doing'[r] = p
  BY <1>1, <1>2
<1>4. clients \in 1 .. PoolCapacity /\ clients' = clients - 1
  BY <1>1, SizesAssumption DEF Invariant, TypeOK, PoolCapacity
<1>5. TypeOK'
  <2>1. doing' \in [Requests -> Phases]
    BY <1>1, <1>2 DEF Phases
  <2>2. \A q \in Requests : call'[q] \in IF doing'[q] = "idle" THEN {NoCall} ELSE Calls[q]
    BY <1>1, <1>3 DEF Invariant, TypeOK
  <2>3. clients' \in 0 .. PoolCapacity
    BY <1>4, SizesAssumption DEF PoolCapacity
  <2>4. QED
    BY <1>1, <2>1, <2>2, <2>3 DEF Seen, Invariant, TypeOK
<1>6. ClientsKept'
  <2>1. r \notin Holders /\ Holders' = Holders \cup {r}
    BY <1>1, <1>2, <1>3 DEF Holders
  <2>2. IsFiniteSet(Holders) /\ clients + Cardinality(Holders) = ClientsMade
    BY DEF Invariant, ClientsKept
  <2>3. /\ IsFiniteSet(Holders') /\ Cardinality(Holders') = Cardinality(Holders) + 1
        /\ Cardinality(Holders) \in Nat
    BY <2>1, <2>2, FS_AddElement, FS_CardinalityType
  <2>4. QED
    BY <1>4, <2>2, <2>3, SizesAssumption DEF ClientsKept, ClientsMade, PoolCapacity
<1>7. Phased'
  <2>1. \A c : Refused(c)' <=> Refused(c)
    BY DEF Refused
  <2>2. QED
    BY <1>1, <1>2, <1>3, <2>1 DEF Invariant, Phased, Active
<1>8. QuietListing' /\ SparesExisting'
  BY <1>1, <1>3 DEF Seen, QuietListing, Invariant, SparesExisting
<1>9. QED
  BY <1>5, <1>6, <1>7, <1>8 DEF Invariant

(* FUSE calls an operation, which waits for the client, starts or is done.   *)
LEMMA ReceiveInvariant ==
    ASSUME Invariant, NEW r \in Requests, NEW c \in Calls[r], Receive(r, c),
           Observe({r}, {}), UNCHANGED readOnly
    PROVE  Invariant'
<1> DEFINE p == IF EarlyError(c) # "nil" THEN "answered"
                ELSE IF c.op \in OpenOps THEN "stat" ELSE "queued"
<1>1. /\ doing[r] = "idle" /\ doing' = [doing EXCEPT ![r] = p]
      /\ call' = [call EXCEPT ![r] = c]
      /\ UNCHANGED <<device, cached, loaded, clients, depth>>
  BY DEF Receive, cacheVars
<1>2. \/ p = "answered" /\ at' = at /\ status' = [status EXCEPT ![r] = StatusOf(c, EarlyError(c))]
      \/ p # "answered" /\ at' = [at EXCEPT ![r] = c.name] /\ status' = status
  BY DEF Receive
<1>3. /\ doing \in [Requests -> Phases] /\ status \in [Requests -> Statuses]
      /\ call \in [Requests -> {NoCall} \cup UNION {Calls[q] : q \in Requests}]
      /\ at \in [Requests -> Names \cup {Nowhere}]
      /\ c.name \in Names
  BY CallsAssumption DEF Invariant, TypeOK
<1>4. /\ \A q \in Requests : q # r => doing'[q] = doing[q] /\ call'[q] = call[q] /\ at'[q] = at[q]
      /\ doing'[r] = p /\ call'[r] = c
  BY <1>1, <1>2, <1>3
<1>5. quiet' \subseteq Requests /\ (quiet' # {} => cached' \in {NoListing, device'})
  BY DEF Observe, Invariant, TypeOK
<1>6. TypeOK'
  <2>1. doing' \in [Requests -> Phases]
    BY <1>1, <1>3 DEF Phases
  <2>2. call' \in [Requests -> {NoCall} \cup UNION {Calls[q] : q \in Requests}]
    BY <1>1, <1>3
  <2>3. \A q \in Requests : call'[q] \in IF doing'[q] = "idle" THEN {NoCall} ELSE Calls[q]
    BY <1>4 DEF Invariant, TypeOK
  <2>4. at' \in [Requests -> Names \cup {Nowhere}]
    BY <1>2, <1>3
  <2>5. status' \in [Requests -> Statuses]
    BY <1>2, <1>3, EarlyErrors, StatusesTyped
  <2>6. QED
    BY <1>1, <1>5, <2>1, <2>2, <2>3, <2>4, <2>5 DEF Invariant, TypeOK
<1>7. ClientsKept'
  <2>1. Holders' = Holders
    BY <1>1, <1>4 DEF Holders
  <2>2. QED
    BY <1>1, <2>1 DEF Invariant, ClientsKept
<1>8. Phased'
  <2>1. \A d : Refused(d)' <=> Refused(d)
    BY DEF Refused
  <2>2. p # "answered" => ~Refused(c) /\ at'[r] = c.name
    BY <1>2, <1>3, EarlyErrors
  <2>3. QED
    BY <1>3, <1>4, <2>1, <2>2 DEF Invariant, Phased, Active
<1>9. QuietListing' /\ SparesExisting'
  <2>1. SparesExisting'
    BY <1>1, <1>4 DEF Observe, Invariant, SparesExisting
  <2>2. QED
    BY <1>5, <2>1 DEF QuietListing
<1>10. QED
  BY <1>6, <1>7, <1>8, <1>9 DEF Invariant

LEMMA OthersInvariant ==
    ASSUME Invariant, Others
    PROVE  Invariant'
<1>1. Seen
  BY ObserveSeen DEF Others
<1>2. CacheTypeOK'
  BY DEF Others, Change, Forget, Invariant, TypeOK, CacheTypeOK, Files
<1>3. QED
  BY <1>1, <1>2
     DEF Others, requestVars, Invariant, TypeOK, CacheTypeOK, ClientsKept, Holders, Phased,
         Refused, Seen, QuietListing, SparesExisting

LEMMA NextInvariant == Invariant /\ [Next]_vars => Invariant'
<1> SUFFICES ASSUME Invariant, [Next]_vars
             PROVE  Invariant'
  OBVIOUS
<1>1. ASSUME NEW r \in Requests, NEW c \in Calls[r],
             Receive(r, c), Observe({r}, {}), UNCHANGED readOnly
      PROVE  Invariant'
  BY <1>1, ReceiveInvariant
<1>2. ASSUME NEW r \in Requests, TakeClient(r)
      PROVE  Invariant'
  BY <1>2, ObserveSeen, GetClientInvariant DEF TakeClient
<1>3. ASSUME NEW r \in Requests, Serve(r)
      PROVE  Invariant'
  <2>1. Seen /\ UNCHANGED readOnly
    BY <1>3, ObserveSeen DEF Serve
  <2>2. CASE Steps(r)
    BY <2>1, <2>2, StatInvariant, ReadLinkInvariant, ListInvariant, CommandInvariant,
       InitialInvariant DEF Steps
  <2>3. CASE Fails(r) \/ Return(r)
    BY <2>1, <2>3, FailsInvariant, ReturnInvariant
  <2>4. QED
    BY <1>3, <2>2, <2>3 DEF Serve
<1>4. CASE Others
  BY <1>4, OthersInvariant
<1>5. CASE UNCHANGED vars
  BY <1>5
     DEF vars, Invariant, TypeOK, ClientsKept, Holders, Phased, Refused, QuietListing,
         SparesExisting, PoolCapacity
<1>6. QED
  BY <1>1, <1>2, <1>3, <1>4, <1>5 DEF Next

-----------------------------------------------------------------------------

(* The state of the path operations has its types: no depth passes the       *)
(* bound, and the pool never holds more than its capacity                    *)
(* (src/adb_filesystem.go).                                                  *)
THEOREM TypeCorrect == Spec => []TypeOK
<1>1. Invariant => TypeOK
  BY DEF Invariant
<1>2. QED
  BY <1>1, InitInvariant, NextInvariant, PTL DEF Spec

(* No client of the pool is lost or given back twice, for any number of      *)
(* requests and any ConnectionPoolSize (getQuickUseClient,                   *)
(* recycleQuickUseClient).                                                   *)
THEOREM ClientsAreKept == Spec => []ClientsKept
<1>1. Invariant => ClientsKept
  BY DEF Invariant
<1>2. QED
  BY <1>1, InitInvariant, NextInvariant, PTL DEF Spec

(* An open that nothing got in the way of saves an empty file over nothing,  *)
(* or was told to truncate (FileBuffer.initialize, CachingDeviceClient.Stat).*)
THEOREM OpensSpareFiles == Spec => []SparesExisting
<1>1. Invariant => SparesExisting
  BY DEF Invariant
<1>2. QED
  BY <1>1, InitInvariant, NextInvariant, PTL DEF Spec

LEMMA DeviceChangers ==
    ASSUME Invariant, readOnly, NEW r \in Requests, Serve(r)
    PROVE  device' = device
<1>1. doing[r] \in Active \cup {"queued"} => ~Refused(call[r])
  BY DEF Invariant, Phased
<1>2. {"command", "save"} \subseteq Active
  BY DEF Active, Phases
<1>3. ASSUME Effect(call[r]), doing[r] = "command"
      PROVE  FALSE
  BY <1>1, <1>2, <1>3, RequestFacts, EffectsAreFiles DEF Refused
<1>4. ASSUME doing[r] = "save"
      PROVE  FALSE
  <2>1. call[r].op \in OpenOps /\ IsWriteOp(FlagsOf(call[r]))
    BY <1>4 DEF Invariant, Phased, Creates, IsWriteOp, Contains
  <2>2. QED
    BY <1>1, <1>2, <1>4, <2>1 DEF Refused
<1>5. CASE Steps(r)
  BY <1>3, <1>4, <1>5
     DEF Steps, StatCached, StatDevice, ReadLink, ListCached, ListDevice, Load, ListStored, Store,
         RunCommand, RunStatFs, InitialSave, InitialLoad, cacheVars
<1>6. CASE Fails(r) \/ Return(r)
  BY <1>3, <1>6 DEF Fails, Return, cacheVars
<1>7. QED
  BY <1>5, <1>6 DEF Serve

(* On a read-only filesystem no operation changes the device: not the        *)
(* commands, not an open, not what fails midway (src/adb_filesystem.go:427   *)
(* to 549).                                                                  *)
THEOREM ReadOnlyIsSafe == Spec => ReadOnlyLeavesDevice
<1>1. Invariant /\ [Next]_vars => [readOnly /\ device' # device => UNCHANGED requestVars]_vars
  <2> SUFFICES ASSUME Invariant, Next, readOnly, device' # device
               PROVE  UNCHANGED requestVars
    OBVIOUS
  <2>1. ASSUME NEW r \in Requests, NEW c \in Calls[r], Receive(r, c)
        PROVE  FALSE
    BY <2>1 DEF Receive, cacheVars
  <2>2. ASSUME NEW r \in Requests, TakeClient(r)
        PROVE  FALSE
    BY <2>2 DEF TakeClient, GetClient, cacheVars
  <2>3. ASSUME NEW r \in Requests, Serve(r)
        PROVE  FALSE
    BY <2>3, DeviceChangers
  <2>4. QED
    BY <2>1, <2>2, <2>3 DEF Next, Others
<1>2. QED
  BY <1>1, InitInvariant, NextInvariant, PTL DEF Spec, ReadOnlyLeavesDevice

-----------------------------------------------------------------------------
(* What a quiet request answers.                                             *)

(* Induction on the natural numbers, for a set.                              *)
LEMMA SetInduction ==
    ASSUME NEW S, 0 \in S, \A n \in Nat : n \in S => n + 1 \in S
    PROVE  Nat \subseteq S
<1> DEFINE R == OpToRel(<, Nat)
           T == Nat \ S
<1>1. IsWellFoundedOn(R, Nat)
  BY NatLessThanWellFounded
<1>2. ASSUME T # {}
      PROVE  FALSE
  <2>1. PICK m \in T : \A k \in T : <<k, m>> \notin R
    <3> HIDE DEF R
    <3>1. T \subseteq Nat
      OBVIOUS
    <3> HIDE DEF T
    <3>2. QED
      BY <1>1, <1>2, <3>1, WFMin
  <2>2. m # 0 /\ m - 1 \in Nat
    OBVIOUS
  <2>3. <<m - 1, m>> \in R
    BY <2>2 DEF OpToRel
  <2> HIDE DEF R
  <2>4. m - 1 \notin T
    BY <2>1, <2>3
  <2>5. QED
    BY <2>2, <2>4
<1>3. QED
  BY <1>2

Places == Names \cup {Nowhere}

(* The equation that defines ResolutionWithin has a solution.                *)
LEMMA ResolutionDefined ==
    ASSUME NEW links \in 0 .. MaxLinkResolveDepth + 1, NEW n \in Places
    PROVE  ResolutionWithin[links][n] =
               IF n = Nowhere \/ device[n] = Absent THEN "FileNoExist"
               ELSE IF device[n] \notin Links THEN "nil"
               ELSE IF links = 0 THEN "LinkTooDeep"
               ELSE ResolutionWithin[links - 1][LinkTo[device[n]]]
<1> DEFINE Row(f, k) ==
             [m \in Places |->
                IF m = Nowhere \/ device[m] = Absent THEN "FileNoExist"
                ELSE IF device[m] \notin Links THEN "nil"
                ELSE IF k = 0 THEN "LinkTooDeep"
                ELSE f[k - 1][LinkTo[device[m]]]]
           Solves(f, k) == \A j \in 0 .. k : f[j] = Row(f, j)
           S == {k \in Nat : \E f : Solves(f, k)}
           last == MaxLinkResolveDepth + 1
<1>1. last \in Nat
  BY SizesAssumption
<1>2. 0 \in S
  <2> DEFINE f == [j \in {0} |-> Row(<<>>, 0)]
  <2>1. Solves(f, 0)
    OBVIOUS
  <2>2. QED
    BY <2>1
<1>3. ASSUME NEW k \in Nat, k \in S
      PROVE  k + 1 \in S
  <2>1. PICK f : Solves(f, k)
    BY <1>3
  <2> DEFINE g == [j \in 0 .. k + 1 |-> IF j <= k THEN f[j] ELSE Row(f, j)]
  <2>2. ASSUME NEW j \in 0 .. k + 1
        PROVE  g[j] = Row(g, j)
    <3>1. g[j] = Row(f, j)
      BY <2>1
    <3>2. j # 0 => j - 1 \in 0 .. k + 1 /\ j - 1 <= k
      OBVIOUS
    <3>3. j # 0 => g[j - 1] = f[j - 1]
      BY <3>2
    <3> HIDE DEF g
    <3>4. Row(f, j) = Row(g, j)
      BY <3>3
    <3>5. QED
      BY <3>1, <3>4
  <2>3. Solves(g, k + 1)
    BY <2>2
  <2> HIDE DEF g, Solves
  <2>4. QED
    BY <2>3
<1>4. PICK f : Solves(f, last)
  <2> HIDE DEF S
  <2>1. last \in S
    BY <1>1, <1>2, <1>3, SetInduction
  <2>2. QED
    BY <2>1 DEF S
<1> DEFINE g == [j \in 0 .. last |-> f[j]]
<1>5. g = [j \in 0 .. last |-> Row(g, j)]
  <2>1. ASSUME NEW j \in 0 .. last
        PROVE  g[j] = Row(g, j)
    <3>1. j # 0 => g[j - 1] = f[j - 1]
      BY <1>1
    <3>2. Row(f, j) = Row(g, j)
      BY <3>1
    <3>3. QED
      BY <1>4, <3>2
  <2>2. QED
    BY <2>1
<1>6. ResolutionWithin = [j \in 0 .. last |-> Row(ResolutionWithin, j)]
  <2> HIDE DEF g, last
  <2>1. \E h : h = [j \in 0 .. last |-> Row(h, j)]
    BY <1>5
  <2>2. QED
    BY <2>1, Zenon DEF ResolutionWithin, Places, last
<1>7. ResolutionWithin[links] = Row(ResolutionWithin, links)
  <2> HIDE DEF Row
  <2>1. QED
    BY <1>6
<1>8. QED
  BY <1>7

-----------------------------------------------------------------------------

(* The phases an operation goes through.                                     *)
PhasesOf(op) ==
    IF op \in OpenOps THEN {"stat", "statDevice", "save", "fetch"}
    ELSE IF op \in CommandOps THEN {"command"}
    ELSE IF op = "OpenDir" THEN {"list", "load"}
    ELSE IF op = "Readlink" THEN {"readlink"}
    ELSE IF op = "GetAttr" THEN {"stat", "statDevice"}
    ELSE {"stat", "statDevice", "readlink"} \cup (IF op = "StatFs" THEN {"command"} ELSE {})

(* What readLinkRecursively comes to: it follows one link more than          *)
(* MaxLinkResolveDepth.                                                      *)
Resolution == ResolutionWithin[MaxLinkResolveDepth + 1]

(* What the operations answer, in the cases of Apart too.                    *)
Answer(c) ==
    LET file == device[c.name] IN
    IF EarlyError(c) # "nil" THEN EarlyError(c)
    ELSE CASE c.op \in ResolvingOps -> Resolution[c.name]
           [] c.op = "GetAttr" -> IF file = Absent THEN "FileNoExist" ELSE "nil"
           [] c.op \in OpenOps -> IF file = Absent /\ ~Creates(c) THEN "FileNoExist" ELSE "nil"
           [] c.op = "Readlink" -> IF file \in Contents \ Links THEN "NotALink" ELSE "nil"
           [] OTHER -> "nil"

(* How far any operation has come.                                           *)
Underway(r) ==
    /\ doing[r] \notin Active => depth[r] = 0
    /\ doing[r] = "queued" => at[r] = call[r].name
    /\ doing[r] \in Active \cup {"queued"} => EarlyError(call[r]) = "nil"
    /\ doing[r] \in Active =>
           /\ doing[r] \in PhasesOf(call[r].op)
           /\ call[r].op \notin ResolvingOps => at[r] = call[r].name

(* The links an operation may still follow.                                  *)
LinksLeft(r) == MaxLinkResolveDepth + 1 - depth[r]

(* What a quiet operation has yet to find out is what it was asked.          *)
OnCourse(r) ==
    LET c == call[r] IN
    /\ doing[r] \in {"stat", "statDevice"} /\ c.op \in ResolvingOps =>
           ResolutionWithin[LinksLeft(r)][at[r]] = Resolution[c.name]
    /\ doing[r] = "readlink" /\ c.op \in ResolvingOps =>
           /\ at[r] # Nowhere /\ device[at[r]] \in Links
           /\ ResolutionWithin[LinksLeft(r)][LinkTo[device[at[r]]]] = Resolution[c.name]
    /\ doing[r] = "command" /\ c.op = "StatFs" => Resolution[c.name] = "nil"
    /\ doing[r] \in {"save", "fetch"} => Answer(c) = "nil"
    /\ doing[r] = "answered" /\ (c.op \in CommandOps => Refused(c)) =>
           status[r] = StatusOf(c, Answer(c))

Course(r) == Underway(r) /\ (r \in quiet => OnCourse(r))

CourseInvariant == Invariant /\ \A r \in Requests : Course(r)

(* What the directory calls for, case by case.                               *)
LEMMA AnswerCases ==
    ASSUME NEW c, EarlyError(c) = "nil"
    PROVE  /\ c.op \in ResolvingOps => Answer(c) = Resolution[c.name]
           /\ c.op = "GetAttr" =>
                  Answer(c) = IF device[c.name] = Absent THEN "FileNoExist" ELSE "nil"
           /\ c.op \in OpenOps =>
                  Answer(c) = IF device[c.name] = Absent /\ ~Creates(c) THEN "FileNoExist"
                                ELSE "nil"
           /\ c.op = "Readlink" =>
                  Answer(c) = IF device[c.name] \in Contents \ Links THEN "NotALink" ELSE "nil"
           /\ c.op = "OpenDir" => Answer(c) = "nil"
  BY DEF Answer, ResolvingOps, OpenOps

(* The kinds of operations are apart.                                        *)
LEMMA OpsApart ==
    /\ ResolvingOps \cap OpenOps = {} /\ ResolvingOps \cap CommandOps = {}
    /\ OpenOps \cap CommandOps = {}
    /\ "StatFs" \in ResolvingOps
    /\ {"GetAttr", "OpenDir", "Readlink", "Unsupported"}
           \cap (ResolvingOps \cup OpenOps \cup CommandOps) = {}
    /\ Ops = ResolvingOps \cup OpenOps \cup CommandOps
                \cup {"GetAttr", "OpenDir", "Readlink", "Unsupported"}
  BY DEF Ops, ResolvingOps, OpenOps, CommandOps

(* What the directory calls for changes only with the directory.             *)
LEMMA AnswerKept ==
    ASSUME device' = device, readOnly' = readOnly
    PROVE  /\ ResolutionWithin' = ResolutionWithin /\ Resolution' = Resolution
           /\ \A c : /\ Answer(c)' = Answer(c)
                     /\ EarlyError(c)' = EarlyError(c)
                     /\ Refused(c)' <=> Refused(c)
<1>1. ResolutionWithin' = ResolutionWithin
  BY DEF ResolutionWithin
<1>2. \A c : EarlyError(c)' = EarlyError(c) /\ (Refused(c)' <=> Refused(c))
  BY DEF EarlyError, Refused
<1>3. Resolution' = Resolution
  BY <1>1 DEF Resolution
<1>4. \A c : Answer(c)' = Answer(c)
  BY <1>2, <1>3 DEF Answer
<1>5. QED
  BY <1>1, <1>2, <1>3, <1>4

(* A request that does nothing stays on course while the directory stays.    *)
LEMMA CourseKept ==
    ASSUME NEW q, Course(q),
           doing'[q] = doing[q], call'[q] = call[q], at'[q] = at[q],
           depth'[q] = depth[q], status'[q] = status[q], readOnly' = readOnly,
           q \in quiet' => q \in quiet /\ device' = device
    PROVE  Course(q)'
<1>1. EarlyError(call[q])' = EarlyError(call[q])
  BY DEF EarlyError, Refused
<1>2. Underway(q)'
  BY <1>1 DEF Course, Underway
<1>3. ASSUME q \in quiet'
      PROVE  OnCourse(q)'
  BY <1>3, AnswerKept DEF Course, OnCourse, LinksLeft
<1>4. QED
  BY <1>2, <1>3 DEF Course

(* What is given of a request that is under way.                             *)
LEMMA ActiveFacts ==
    ASSUME CourseInvariant, NEW r \in Requests, doing[r] \in Active
    PROVE  /\ EarlyError(call[r]) = "nil" /\ ~Refused(call[r])
           /\ doing[r] \in PhasesOf(call[r].op)
           /\ call[r].op \in Ops \ {"Unsupported"}
           /\ call[r].op \notin ResolvingOps => at[r] = call[r].name
           /\ at[r] \in Places /\ call[r].name \in Names
           /\ LinksLeft(r) \in 0 .. MaxLinkResolveDepth + 1
           /\ r \in quiet => OnCourse(r)
<1>1. Invariant /\ Course(r)
  BY DEF CourseInvariant
<1>2. call[r] \in Calls[r] /\ call[r].op \in Ops /\ call[r].name \in Names
  BY <1>1, CallsAssumption DEF Invariant, TypeOK, Active
<1>3. EarlyError(call[r]) = "nil"
  BY <1>1 DEF Course, Underway
<1>4. call[r].op # "Unsupported"
  BY <1>3 DEF EarlyError
<1>5. ~Refused(call[r])
  BY <1>1 DEF Invariant, Phased
<1>6. LinksLeft(r) \in 0 .. MaxLinkResolveDepth + 1 /\ at[r] \in Places
  BY <1>1, RequestFacts, SizesAssumption DEF LinksLeft, Places
<1>7. QED
  BY <1>1, <1>2, <1>3, <1>4, <1>5, <1>6 DEF Course, Underway

(* A request that answers what was called for.                               *)
LEMMA FinishCourse ==
    ASSUME CourseInvariant, NEW r \in Requests, doing[r] \in Active,
           NEW err, Finish(r, err), UNCHANGED readOnly,
           r \in quiet' => /\ r \in quiet /\ device' = device
                           /\ call[r].op \notin CommandOps => Answer(call[r]) = err
    PROVE  Course(r)'
<1>1. /\ doing \in [Requests -> Phases] /\ depth \in [Requests -> 0 .. MaxLinkResolveDepth + 1]
      /\ status \in [Requests -> Statuses]
  BY DEF CourseInvariant, Invariant, TypeOK
<1>2. /\ doing'[r] = "answered" /\ depth'[r] = 0 /\ call' = call
      /\ status'[r] = StatusOf(call[r], err)
  BY <1>1 DEF Finish
<1>3. Underway(r)'
  BY <1>2 DEF Underway, Active
<1>4. ASSUME r \in quiet'
      PROVE  OnCourse(r)'
  <2>1. \A c : Answer(c)' = Answer(c) /\ (Refused(c)' <=> Refused(c))
    BY <1>4, AnswerKept
  <2>2. ~Refused(call[r])'
    BY <1>2, <2>1, ActiveFacts
  <2>3. call[r].op \notin CommandOps => status'[r] = StatusOf(call'[r], Answer(call[r])')
    BY <1>2, <1>4, <2>1
  <2>4. QED
    BY <1>2, <2>2, <2>3 DEF OnCourse, StatusOf
<1>5. QED
  BY <1>3, <1>4 DEF Course

(* A request that goes on with another device call.                          *)
LEMMA GotoCourse ==
    ASSUME CourseInvariant, NEW r \in Requests, doing[r] \in Active,
           NEW p \in Active, Goto(r, p), UNCHANGED readOnly,
           p \in PhasesOf(call[r].op), p # "readlink",
           r \in quiet' => /\ r \in quiet /\ device' = device
                           /\ p = "command" => Resolution[call[r].name] = "nil"
                           /\ p \in {"save", "fetch"} => Answer(call[r]) = "nil"
                           /\ p \in {"stat", "statDevice"} => doing[r] \in {"stat", "statDevice"}
    PROVE  Course(r)'
<1>1. doing \in [Requests -> Phases]
  BY DEF CourseInvariant, Invariant, TypeOK
<1>2. doing'[r] = p /\ depth' = depth /\ call' = call /\ status' = status /\ at' = at
  BY <1>1 DEF Goto
<1>3. Underway(r)'
  <2>1. EarlyError(call[r])' = EarlyError(call[r])
    BY <1>2 DEF EarlyError, Refused
  <2>2. QED
    BY <1>2, <2>1, ActiveFacts DEF Underway, Active
<1>4. ASSUME r \in quiet'
      PROVE  OnCourse(r)'
  <2>1. /\ ResolutionWithin' = ResolutionWithin /\ Resolution' = Resolution
        /\ Answer(call[r])' = Answer(call[r]) /\ LinksLeft(r)' = LinksLeft(r)
    BY <1>2, <1>4, AnswerKept DEF LinksLeft
  <2>2. OnCourse(r)
    BY <1>4, ActiveFacts
  <2>3. p # "answered"
    BY DEF Active
  <2>4. QED
    BY <1>2, <1>4, <2>1, <2>2, <2>3 DEF OnCourse
<1>5. QED
  BY <1>3, <1>4 DEF Course

LEMMA FollowLinkCourse ==
    ASSUME CourseInvariant, NEW r \in Requests, doing[r] \in {"stat", "statDevice"},
           call[r].op \in ResolvingOps, FollowLink(r), UNCHANGED readOnly,
           r \in quiet' => /\ r \in quiet /\ device' = device
                           /\ at[r] # Nowhere /\ device[at[r]] \in Links
    PROVE  Course(r)'
<1> DEFINE c == call[r]
           left == LinksLeft(r)
<1>1. doing[r] \in Active /\ c.op \notin CommandOps
  BY OpsApart DEF Active, Phases
<1>2. r \in quiet => ResolutionWithin[left][at[r]] = Resolution[c.name]
  BY <1>1, ActiveFacts DEF OnCourse
<1>3. ASSUME r \in quiet'
      PROVE  Resolution[c.name] = IF left = 0 THEN "LinkTooDeep"
                                  ELSE ResolutionWithin[left - 1][LinkTo[device[at[r]]]]
  <2>1. device[at[r]] # Absent /\ at[r] \in Places /\ left \in 0 .. MaxLinkResolveDepth + 1
    BY <1>1, <1>3, ActiveFacts, LinksAssumption, AbsentAssumption
  <2>2. QED
    BY <1>2, <1>3, <2>1, ResolutionDefined
<1>4. depth[r] \in 0 .. MaxLinkResolveDepth + 1
  BY RequestFacts DEF CourseInvariant
<1>5. CASE depth[r] > MaxLinkResolveDepth
  <2>1. Finish(r, "LinkTooDeep") /\ left = 0
    BY <1>4, <1>5, SizesAssumption DEF FollowLink, LinksLeft
  <2>2. r \in quiet' => Answer(c) = "LinkTooDeep"
    BY <1>1, <1>3, <2>1, AnswerCases, ActiveFacts
  <2>3. QED
    BY <1>1, <2>1, <2>2, FinishCourse
<1>6. CASE ~(depth[r] > MaxLinkResolveDepth)
  <2>1. /\ doing \in [Requests -> Phases]
        /\ depth \in [Requests -> 0 .. MaxLinkResolveDepth + 1]
    BY DEF CourseInvariant, Invariant, TypeOK
  <2>2. /\ doing'[r] = "readlink" /\ depth'[r] = depth[r] + 1
        /\ call' = call /\ status' = status /\ at' = at
    BY <1>6, <2>1 DEF FollowLink
  <2>3. left # 0 /\ LinksLeft(r)' = left - 1
    BY <1>4, <1>6, <2>2, SizesAssumption DEF LinksLeft
  <2>4. Underway(r)'
    <3>1. EarlyError(c)' = EarlyError(c)
      BY <2>2 DEF EarlyError, Refused
    <3>2. "readlink" \in PhasesOf(c.op)
      BY <1>1, OpsApart DEF PhasesOf
    <3>3. QED
      BY <1>1, <2>2, <3>1, <3>2, ActiveFacts DEF Underway, Active, Phases
  <2>5. ASSUME r \in quiet'
        PROVE  OnCourse(r)'
    <3>1. ResolutionWithin' = ResolutionWithin /\ Resolution' = Resolution
      BY <2>5, AnswerKept
    <3>2. ResolutionWithin[left - 1][LinkTo[device[at[r]]]] = Resolution[c.name]
      BY <1>3, <2>3, <2>5
    <3> HIDE DEF left
    <3>3. QED
      BY <2>2, <2>3, <2>5, <3>1, <3>2 DEF OnCourse
  <2>6. QED
    BY <2>4, <2>5 DEF Course
<1>7. QED
  BY <1>5, <1>6

(* An operation that learns what its path is, by the cache or not.           *)
LEMMA StattedCourse ==
    ASSUME CourseInvariant, NEW r \in Requests, doing[r] \in {"stat", "statDevice"},
           NEW v, Statted(r, v), UNCHANGED <<readOnly, cacheVars>>, Seen,
           r \in quiet' => v = IF at[r] = Nowhere THEN Absent ELSE device[at[r]]
    PROVE  Course(r)'
<1> DEFINE c == call[r]
<1>1. /\ doing[r] \in Active /\ {"save", "fetch", "command"} \subseteq Active
      /\ device' = device
      /\ r \in quiet' => r \in quiet
  BY DEF Active, Phases, Seen, cacheVars
<1>2. /\ EarlyError(c) = "nil" /\ c.name \in Names /\ at[r] \in Places
      /\ doing[r] \in PhasesOf(c.op)
      /\ c.op \notin ResolvingOps => at[r] = c.name
      /\ LinksLeft(r) \in 0 .. MaxLinkResolveDepth + 1
  BY <1>1, ActiveFacts
<1>3. at[r] = c.name => at[r] # Nowhere
  BY <1>2, NowhereAssumption
<1>4. CASE c.op \in OpenOps
  <2>1. InitializeBuffer(r, v) /\ c.op \notin ResolvingOps
    BY <1>4, OpsApart DEF Statted
  <2>2. r \in quiet' => Answer(c) = IF v = Absent /\ ~Creates(c) THEN "FileNoExist" ELSE "nil"
    BY <1>2, <1>3, <1>4, <2>1, AnswerCases
  <2>3. {"save", "fetch"} \subseteq PhasesOf(c.op)
    BY <1>4 DEF PhasesOf
  <2>4. CASE v = Absent /\ ~Creates(c)
    BY <1>1, <2>1, <2>2, <2>4, FinishCourse DEF InitializeBuffer
  <2>5. CASE ~(v = Absent /\ ~Creates(c))
    BY <1>1, <2>1, <2>2, <2>3, <2>5, GotoCourse DEF InitializeBuffer
  <2>6. QED
    BY <2>4, <2>5
<1>5. CASE c.op \in ResolvingOps
  <2>1. c.op \notin OpenOps /\ c.op \notin CommandOps
    BY <1>5, OpsApart
  <2>2. r \in quiet' => /\ Answer(c) = Resolution[c.name]
                        /\ ResolutionWithin[LinksLeft(r)][at[r]] = Resolution[c.name]
    BY <1>1, <1>2, <1>5, AnswerCases, ActiveFacts DEF OnCourse
  <2>3. CASE v = Absent
    <3>1. r \in quiet' => Answer(c) = "FileNoExist"
      BY <1>2, <2>2, <2>3, ResolutionDefined
    <3>2. Finish(r, "FileNoExist")
      BY <2>1, <2>3 DEF Statted
    <3>3. QED
      BY <1>1, <3>1, <3>2, FinishCourse
  <2>4. CASE v # Absent /\ v \in Links
    <3>1. FollowLink(r)
      BY <1>5, <2>1, <2>4 DEF Statted
    <3>2. QED
      BY <1>1, <1>5, <2>4, <3>1, FollowLinkCourse
  <2>5. CASE v # Absent /\ v \notin Links
    <3>1. r \in quiet' => Answer(c) = "nil" /\ Resolution[c.name] = "nil"
      BY <1>2, <2>2, <2>5, ResolutionDefined
    <3>2. c.op = "StatFs" => Goto(r, "command") /\ "command" \in PhasesOf(c.op)
      BY <1>5, <2>1, <2>5 DEF Statted, PhasesOf
    <3>3. c.op # "StatFs" => Finish(r, "nil")
      BY <1>5, <2>1, <2>5 DEF Statted
    <3>4. QED
      BY <1>1, <3>1, <3>2, <3>3, FinishCourse, GotoCourse
  <2>6. QED
    BY <2>3, <2>4, <2>5
<1>6. CASE c.op \notin OpenOps \cup ResolvingOps
  <2>1. c.op = "GetAttr"
    BY <1>1, <1>2, <1>6, ActiveFacts, OpsApart DEF PhasesOf
  <2>2. r \in quiet' => Answer(c) = IF v = Absent THEN "FileNoExist" ELSE "nil"
    BY <1>2, <1>3, <1>6, <2>1, AnswerCases
  <2>3. Finish(r, IF v = Absent THEN "FileNoExist" ELSE "nil")
    BY <1>6, <2>1 DEF Statted
  <2>4. QED
    BY <1>1, <2>2, <2>3, FinishCourse
<1>7. QED
  BY <1>4, <1>5, <1>6

(* A stat, answered from a listing or by the device.                         *)
LEMMA StatCourse ==
    ASSUME CourseInvariant, NEW r \in Requests, StatCached(r) \/ StatDevice(r),
           UNCHANGED readOnly, Seen
    PROVE  Course(r)'
<1>1. /\ UNCHANGED <<readOnly, cacheVars>>
      /\ doing[r] \in {"stat", "statDevice"} /\ doing[r] \in Active /\ "statDevice" \in Active
  BY DEF StatCached, StatDevice, Active, Phases
<1>2. r \in quiet' => r \in quiet /\ device' = device
  BY DEF Seen
<1>3. CASE StatCached(r) /\ cached # NoListing /\ at[r] # Nowhere
  <2>1. r \in quiet' => cached[at[r]] = device[at[r]]
    BY <1>2, <1>3 DEF CourseInvariant, Invariant, QuietListing
  <2>2. Statted(r, cached[at[r]])
    BY <1>3 DEF StatCached
  <2>3. QED
    BY <1>1, <1>3, <2>1, <2>2, StattedCourse
<1>4. CASE StatCached(r) /\ ~(cached # NoListing /\ at[r] # Nowhere)
  <2>1. Goto(r, "statDevice") /\ doing[r] = "stat"
    BY <1>4 DEF StatCached
  <2>2. "statDevice" \in PhasesOf(call[r].op)
    BY <1>1, <2>1, ActiveFacts DEF PhasesOf
  <2>3. QED
    BY <1>1, <1>2, <2>1, <2>2, GotoCourse
<1>5. CASE StatDevice(r)
  BY <1>1, <1>5, StattedCourse DEF StatDevice
<1>6. QED
  BY <1>3, <1>4, <1>5

(* A link that is read: the path it holds is resolved with a link less.      *)
LEMMA ReadLinkCourse ==
    ASSUME CourseInvariant, NEW r \in Requests, ReadLink(r), UNCHANGED readOnly, Seen
    PROVE  Course(r)'
<1> DEFINE c == call[r]
<1>1. /\ doing[r] = "readlink" /\ doing[r] \in Active /\ "stat" \in Active
      /\ r \in quiet' => r \in quiet /\ device' = device
  BY DEF ReadLink, Active, Phases, Seen
<1>2. c.op \in ResolvingOps \cup {"Readlink"}
  BY <1>1, ActiveFacts, OpsApart DEF PhasesOf
<1>3. CASE c.op = "Readlink"
  <2>1. at[r] = c.name /\ at[r] # Nowhere
    BY <1>1, <1>3, ActiveFacts, OpsApart, NowhereAssumption
  <2>2. Answer(c) = IF IsNoLink(at[r]) THEN "NotALink" ELSE "nil"
    BY <1>1, <1>3, <2>1, ActiveFacts, AnswerCases DEF IsNoLink
  <2>3. Finish(r, IF IsNoLink(at[r]) THEN "NotALink" ELSE "nil")
    BY <1>3 DEF ReadLink
  <2>4. QED
    BY <1>1, <2>2, <2>3, FinishCourse
<1>4. CASE c.op \in ResolvingOps
  <2>1. c.op # "Readlink"
    BY <1>4, OpsApart
  <2>2. r \in quiet =>
           /\ at[r] # Nowhere /\ device[at[r]] \in Links
           /\ ResolutionWithin[LinksLeft(r)][LinkTo[device[at[r]]]] = Resolution[c.name]
    BY <1>1, <1>4, ActiveFacts DEF OnCourse
  <2>3. CASE IsNoLink(at[r])
    <3>1. Finish(r, "Other") /\ r \notin quiet'
      BY <1>1, <2>1, <2>2, <2>3 DEF ReadLink, IsNoLink
    <3>2. QED
      BY <1>1, <3>1, FinishCourse
  <2>4. CASE ~IsNoLink(at[r])
    <3>1. /\ doing' = [doing EXCEPT ![r] = "stat"]
          /\ at' = [at EXCEPT ![r] = LinkText(at[r])]
          /\ UNCHANGED <<clients, call, depth, status>>
      BY <2>1, <2>4 DEF ReadLink
    <3>2. doing \in [Requests -> Phases] /\ at \in [Requests -> Names \cup {Nowhere}]
      BY DEF CourseInvariant, Invariant, TypeOK
    <3>3. doing'[r] = "stat" /\ at'[r] = LinkText(at[r])
      BY <3>1, <3>2
    <3>4. Underway(r)'
      <4>1. EarlyError(c)' = EarlyError(c)
        BY <3>1 DEF EarlyError, Refused
      <4>2. "stat" \in PhasesOf(c.op)
        BY <1>4, OpsApart DEF PhasesOf
      <4>3. QED
        BY <1>1, <1>4, <3>1, <3>3, <4>1, <4>2, ActiveFacts DEF Underway, Active, Phases
    <3>5. ASSUME r \in quiet'
          PROVE  OnCourse(r)'
      <4>1. LinkText(at[r]) = LinkTo[device[at[r]]]
        BY <1>1, <2>2, <3>5 DEF LinkText
      <4>2. /\ ResolutionWithin' = ResolutionWithin /\ Resolution' = Resolution
            /\ LinksLeft(r)' = LinksLeft(r)
        BY <1>1, <3>1, <3>5, AnswerKept DEF LinksLeft
      <4>3. QED
        BY <1>1, <2>2, <3>1, <3>3, <3>5, <4>1, <4>2 DEF OnCourse
    <3>6. QED
      BY <3>4, <3>5 DEF Course
  <2>5. QED
    BY <2>3, <2>4
<1>5. QED
  BY <1>2, <1>3, <1>4

LEMMA ListCourse ==
    ASSUME CourseInvariant, NEW r \in Requests, UNCHANGED readOnly, Seen,
           ListCached(r) \/ ListDevice(r) \/ ListStored(r)
    PROVE  Course(r)'
<1>1. /\ doing[r] \in {"list", "load"} /\ doing[r] \in Active /\ "load" \in Active
      /\ r \in quiet' => r \in quiet /\ device' = device
  BY DEF ListCached, ListDevice, ListStored, Active, Phases, Seen
<1>2. call[r].op = "OpenDir" /\ "load" \in PhasesOf(call[r].op)
  BY <1>1, ActiveFacts DEF PhasesOf, OpenOps, CommandOps
<1>3. Answer(call[r]) = "nil"
  BY <1>1, <1>2, ActiveFacts, AnswerCases
<1>4. CASE Finish(r, "nil")
  BY <1>1, <1>3, <1>4, FinishCourse
<1>5. CASE Goto(r, "load")
  BY <1>1, <1>2, <1>5, GotoCourse
<1>6. CASE ListDevice(r)
  <2>1. UNCHANGED <<doing, call, at, depth, status>>
    BY <1>6 DEF ListDevice, requestVars
  <2>2. QED
    BY <1>1, <2>1, CourseKept DEF CourseInvariant
<1>7. QED
  BY <1>4, <1>5, <1>6 DEF ListCached, ListStored

LEMMA CommandCourse ==
    ASSUME CourseInvariant, NEW r \in Requests, RunCommand(r) \/ RunStatFs(r),
           UNCHANGED readOnly, Seen
    PROVE  Course(r)'
<1>1. /\ doing[r] = "command" /\ doing[r] \in Active
      /\ r \in quiet' => r \in quiet /\ device' = device
  BY DEF RunCommand, RunStatFs, Active, Phases, Seen
<1>2. CASE RunCommand(r)
  <2>1. call[r].op \in CommandOps /\ \E err : Finish(r, err)
    BY <1>2 DEF RunCommand
  <2>2. QED
    BY <1>1, <2>1, FinishCourse
<1>3. CASE RunStatFs(r)
  <2>1. call[r].op = "StatFs" /\ call[r].op \in ResolvingOps /\ Finish(r, "nil")
    BY <1>3, OpsApart DEF RunStatFs
  <2>2. r \in quiet => Answer(call[r]) = "nil"
    BY <1>1, <2>1, ActiveFacts, AnswerCases DEF OnCourse
  <2>3. QED
    BY <1>1, <2>1, <2>2, FinishCourse
<1>4. QED
  BY <1>2, <1>3

LEMMA InitialCourse ==
    ASSUME CourseInvariant, NEW r \in Requests, InitialSave(r) \/ InitialLoad(r),
           UNCHANGED readOnly, Seen
    PROVE  Course(r)'
<1>1. /\ doing[r] \in {"save", "fetch"} /\ doing[r] \in Active /\ Finish(r, "nil")
      /\ r \in quiet' => r \in quiet /\ device' = device
  BY DEF InitialSave, InitialLoad, Active, Phases, Seen
<1>2. r \in quiet => Answer(call[r]) = "nil"
  BY <1>1, ActiveFacts DEF OnCourse
<1>3. QED
  BY <1>1, <1>2, FinishCourse

(* A request whose device call fails, or that returns, is quiet no more.     *)
LEMMA EndCourse ==
    ASSUME CourseInvariant, NEW r \in Requests, Fails(r) \/ Return(r),
           UNCHANGED readOnly, r \notin quiet'
    PROVE  Course(r)'
<1>1. CASE Fails(r)
  <2>1. doing[r] \in Active /\ \E err : Finish(r, err)
    BY <1>1 DEF Fails, Active, Phases
  <2>2. QED
    BY <2>1, FinishCourse
<1>2. CASE Return(r)
  <2>1. doing \in [Requests -> Phases]
    BY DEF CourseInvariant, Invariant, TypeOK
  <2>2. doing[r] = "answered" /\ doing'[r] = "idle" /\ depth' = depth
    BY <1>2, <2>1 DEF Return
  <2>3. QED
    BY <2>2 DEF CourseInvariant, Course, Underway, Active
<1>3. QED
  BY <1>1, <1>2

LEMMA GetClientCourse ==
    ASSUME CourseInvariant, NEW r \in Requests, GetClient(r), UNCHANGED readOnly, Seen
    PROVE  Course(r)'
<1> DEFINE c == call[r]
           p == FirstPhase(c.op)
<1>1. /\ doing[r] = "queued" /\ doing' = [doing EXCEPT ![r] = p]
      /\ UNCHANGED <<device, cached, loaded, call, at, depth, status>>
  BY DEF GetClient, cacheVars
<1>2. doing \in [Requests -> Phases] /\ c \in Calls[r] /\ c.op \notin OpenOps
  BY <1>1 DEF CourseInvariant, Invariant, TypeOK, Phased
<1>3. doing'[r] = p
  BY <1>1, <1>2
<1>4. depth[r] = 0 /\ at[r] = c.name /\ EarlyError(c) = "nil"
  BY <1>1 DEF CourseInvariant, Course, Underway, Active
<1>5. c.op # "Unsupported"
  BY <1>4 DEF EarlyError
<1>6. p \in PhasesOf(c.op) /\ p \in {"list", "readlink", "command", "stat"}
  <2>1. c.op \in Ops
    BY <1>2, CallsAssumption
  <2>2. QED
    BY <1>2, <1>5, <2>1, OpsApart DEF FirstPhase, PhasesOf
<1>7. /\ p = "readlink" => c.op \notin ResolvingOps
      /\ p = "command" => c.op # "StatFs"
  BY OpsApart DEF FirstPhase
<1>8. Underway(r)'
  <2>1. EarlyError(c)' = EarlyError(c)
    BY <1>1 DEF EarlyError, Refused
  <2>2. QED
    BY <1>1, <1>3, <1>4, <1>6, <2>1 DEF Underway, Active, Phases
<1>9. OnCourse(r)'
  <2>1. ResolutionWithin' = ResolutionWithin /\ Resolution' = Resolution
    BY <1>1, AnswerKept
  <2>2. LinksLeft(r)' = MaxLinkResolveDepth + 1
    BY <1>1, <1>4, SizesAssumption DEF LinksLeft
  <2>3. p \notin {"save", "fetch", "answered"}
    BY <1>6
  <2> HIDE DEF p
  <2>4. QED
    BY <1>1, <1>3, <1>4, <1>7, <2>1, <2>2, <2>3 DEF OnCourse, Resolution
<1>10. QED
  BY <1>8, <1>9 DEF Course

LEMMA ReceiveCourse ==
    ASSUME CourseInvariant, NEW r \in Requests, NEW c \in Calls[r], Receive(r, c),
           Observe({r}, {}), UNCHANGED readOnly
    PROVE  Course(r)'
<1> DEFINE p == IF c.op \in OpenOps THEN "stat" ELSE "queued"
<1>1. /\ doing \in [Requests -> Phases] /\ at \in [Requests -> Names \cup {Nowhere}]
      /\ status \in [Requests -> Statuses]
      /\ call \in [Requests -> {NoCall} \cup UNION {Calls[q] : q \in Requests}]
  BY DEF CourseInvariant, Invariant, TypeOK
<1>2. /\ doing[r] = "idle" /\ call'[r] = c /\ depth'[r] = depth[r] /\ device' = device
  BY <1>1 DEF Receive, cacheVars
<1>3. depth'[r] = 0
  BY <1>2 DEF CourseInvariant, Course, Underway, Active
<1>4. /\ ResolutionWithin' = ResolutionWithin /\ Resolution' = Resolution
      /\ Answer(c)' = Answer(c) /\ EarlyError(c)' = EarlyError(c)
  BY <1>2, AnswerKept
<1>5. CASE EarlyError(c) # "nil"
  <2>1. doing'[r] = "answered" /\ status'[r] = StatusOf(c, EarlyError(c))
    BY <1>1, <1>5 DEF Receive
  <2>2. Answer(c) = EarlyError(c)
    BY <1>5 DEF Answer
  <2>3. QED
    BY <1>2, <1>3, <1>4, <2>1, <2>2 DEF Course, Underway, OnCourse, Active, StatusOf
<1>6. CASE EarlyError(c) = "nil"
  <2>1. doing'[r] = p /\ at'[r] = c.name
    BY <1>1, <1>6 DEF Receive
  <2>2. p = "stat" => c.op \notin ResolvingOps /\ p \in PhasesOf(c.op)
    BY OpsApart DEF PhasesOf
  <2>3. Underway(r)'
    BY <1>2, <1>3, <1>4, <1>6, <2>1, <2>2 DEF Underway, Active
  <2>4. OnCourse(r)'
    BY <1>2, <2>1, <2>2 DEF OnCourse
  <2>5. QED
    BY <2>3, <2>4 DEF Course
<1>7. QED
  BY <1>5, <1>6

-----------------------------------------------------------------------------

LEMMA InitCourse == Init => CourseInvariant
<1> SUFFICES ASSUME Init
             PROVE  CourseInvariant
  OBVIOUS
<1>1. ASSUME NEW r \in Requests
      PROVE  Course(r)
  BY DEF Init, Course, Underway, Active
<1>2. QED
  BY <1>1, InitInvariant DEF CourseInvariant

(* A step of a request is of no other.                                       *)
LEMMA OneAtATime ==
    ASSUME Invariant, NEW r \in Requests,
           TakeClient(r) \/ Serve(r) \/ \E c \in Calls[r] : Receive(r, c),
           NEW q \in Requests \ {r}
    PROVE  /\ doing'[q] = doing[q] /\ call'[q] = call[q] /\ at'[q] = at[q]
           /\ depth'[q] = depth[q] /\ status'[q] = status[q]
<1>1. /\ doing \in [Requests -> Phases] /\ at \in [Requests -> Names \cup {Nowhere}]
      /\ depth \in [Requests -> 0 .. MaxLinkResolveDepth + 1]
      /\ status \in [Requests -> Statuses]
      /\ call \in [Requests -> {NoCall} \cup UNION {Calls[s] : s \in Requests}]
  BY DEF Invariant, TypeOK
<1>2. CASE TakeClient(r)
  BY <1>1, <1>2 DEF TakeClient, GetClient
<1>3. CASE \E c \in Calls[r] : Receive(r, c)
  BY <1>1, <1>3 DEF Receive
<1>4. ASSUME NEW err, Finish(r, err)
      PROVE  /\ doing'[q] = doing[q] /\ call'[q] = call[q] /\ at'[q] = at[q]
             /\ depth'[q] = depth[q] /\ status'[q] = status[q]
  BY <1>1, <1>4 DEF Finish
<1>5. ASSUME NEW p, Goto(r, p)
      PROVE  /\ doing'[q] = doing[q] /\ call'[q] = call[q] /\ at'[q] = at[q]
             /\ depth'[q] = depth[q] /\ status'[q] = status[q]
  BY <1>1, <1>5 DEF Goto
<1>6. ASSUME NEW v, Statted(r, v)
      PROVE  /\ doing'[q] = doing[q] /\ call'[q] = call[q] /\ at'[q] = at[q]
             /\ depth'[q] = depth[q] /\ status'[q] = status[q]
  BY <1>1, <1>4, <1>5, <1>6 DEF Statted, InitializeBuffer, FollowLink
<1>7. CASE Steps(r)
  <2>1. CASE StatCached(r) \/ StatDevice(r)
    BY <1>5, <1>6, <2>1 DEF StatCached, StatDevice
  <2>2. CASE ReadLink(r)
    BY <1>1, <1>4, <2>2 DEF ReadLink
  <2>3. CASE ListCached(r) \/ ListDevice(r) \/ ListStored(r)
    BY <1>4, <1>5, <2>3 DEF ListCached, ListDevice, ListStored, requestVars
  <2>4. CASE RunCommand(r) \/ RunStatFs(r) \/ InitialSave(r) \/ InitialLoad(r)
    BY <1>4, <2>4 DEF RunCommand, RunStatFs, InitialSave, InitialLoad
  <2>5. QED
    BY <1>7, <2>1, <2>2, <2>3, <2>4 DEF Steps
<1>8. CASE Fails(r)
  BY <1>4, <1>8 DEF Fails
<1>9. CASE Return(r)
  BY <1>1, <1>9 DEF Return
<1>10. QED
  BY <1>2, <1>3, <1>7, <1>8, <1>9 DEF Serve

LEMMA NextCourse == CourseInvariant /\ [Next]_vars => CourseInvariant'
<1> SUFFICES ASSUME CourseInvariant, [Next]_vars
             PROVE  CourseInvariant'
  OBVIOUS
<1>1. Invariant'
  BY NextInvariant DEF CourseInvariant
<1>2. ASSUME NEW r \in Requests, NEW c \in Calls[r],
             Receive(r, c), Observe({r}, {}), UNCHANGED readOnly, NEW q \in Requests
      PROVE  Course(q)'
  <2>1. CASE q = r
    BY <1>2, <2>1, ReceiveCourse
  <2>2. CASE q # r
    <3>1. q \in quiet' => q \in quiet /\ device' = device
      BY <1>2, <2>2 DEF Observe
    <3>2. QED
      BY <1>2, <2>2, <3>1, OneAtATime, CourseKept DEF CourseInvariant
  <2>3. QED
    BY <2>1, <2>2
<1>3. ASSUME NEW r \in Requests, TakeClient(r) \/ Serve(r), NEW q \in Requests
      PROVE  Course(q)'
  <2>1. Seen /\ UNCHANGED readOnly
    BY <1>3, ObserveSeen DEF Serve, TakeClient
  <2>2. CASE q = r /\ TakeClient(r)
    BY <2>1, <2>2, GetClientCourse DEF TakeClient
  <2>3. CASE q = r /\ Serve(r) /\ Steps(r)
    BY <2>1, <2>3, StatCourse, ReadLinkCourse, ListCourse, CommandCourse, InitialCourse
       DEF Steps
  <2>4. CASE q = r /\ Serve(r) /\ ~Steps(r)
    <3>1. (Fails(r) \/ Return(r)) /\ r \notin quiet'
      BY <2>4 DEF Serve, Observe
    <3>2. QED
      BY <2>1, <2>4, <3>1, EndCourse
  <2>5. CASE q # r
    <3>1. q \in quiet' => q \in quiet /\ device' = device
      BY <2>1 DEF Seen
    <3>2. QED
      BY <1>3, <2>1, <2>5, <3>1, OneAtATime, CourseKept DEF CourseInvariant
  <2>6. QED
    BY <1>3, <2>2, <2>3, <2>4, <2>5
<1>4. ASSUME Others \/ UNCHANGED vars, NEW q \in Requests
      PROVE  Course(q)'
  <2>1. q \in quiet' => q \in quiet /\ device' = device
    BY <1>4, ObserveSeen DEF Others, Seen, vars
  <2>2. UNCHANGED <<doing, call, at, depth, status, readOnly>>
    BY <1>4 DEF Others, requestVars, vars
  <2>3. QED
    BY <2>1, <2>2, CourseKept DEF CourseInvariant
<1>5. \A q \in Requests : Course(q)'
  BY <1>2, <1>3, <1>4 DEF Next
<1>6. QED
  BY <1>1, <1>5 DEF CourseInvariant

(* Outside the cases of Apart, what is answered is what is called for.        *)
LEMMA AnswerIsExpected ==
    ASSUME Invariant, NEW r \in Requests, doing[r] = "answered", ~Apart(call[r])
    PROVE  Answer(call[r]) = Expected(call[r])
<1> DEFINE c == call[r]
<1>1. device[c.name] \in Contents \cup {Absent}
  BY RequestFacts DEF CacheTypeOK, Files
<1>2. c.op \in ResolvingOps => Resolution[c.name] = ResolutionWithin[MaxLinkResolveDepth][c.name]
  BY DEF Apart, Resolution
<1>3. c.op = "Readlink" => device[c.name] \in Contents
  BY <1>1 DEF Apart
<1>4. CASE EarlyError(c) # "nil"
  BY <1>4 DEF Answer, Expected
<1>5. CASE EarlyError(c) = "nil" /\ c.op \in ResolvingOps
  BY <1>2, <1>5, OpsApart DEF Answer, Expected
<1>6. CASE EarlyError(c) = "nil" /\ c.op = "Readlink"
  BY <1>3, <1>6, OpsApart, AbsentAssumption DEF Answer, Expected
<1>7. CASE EarlyError(c) = "nil" /\ c.op = "GetAttr"
  BY <1>7, OpsApart DEF Answer, Expected
<1>8. CASE EarlyError(c) = "nil" /\ c.op \in OpenOps
  BY <1>8, OpsApart DEF Answer, Expected
<1>9. CASE EarlyError(c) = "nil" /\ c.op \notin ResolvingOps \cup OpenOps \cup {"Readlink", "GetAttr"}
  BY <1>9 DEF Answer, Expected
<1>10. QED
  BY <1>4, <1>5, <1>6, <1>7, <1>8, <1>9

(* A request that nothing got in the way of answers what the directory calls *)
(* for: an operation that resolves its path, for any directory, chains and   *)
(* cycles of links, and MaxLinkResolveDepth, what following that many links  *)
(* comes to, unless the path takes exactly one more (readLinkRecursively,    *)
(* readLink, getAttr, createFile, toErrno).                                  *)
THEOREM QuietRequestsAnswer == Spec => []QuietAnswers
<1>1. ASSUME CourseInvariant
      PROVE  QuietAnswers
  <2> SUFFICES ASSUME NEW r \in Requests, AnsweredQuietly(r), ~Apart(call[r])
               PROVE  status[r] = StatusOf(call[r], Expected(call[r]))
    BY DEF QuietAnswers
  <2>1. OnCourse(r) /\ doing[r] = "answered" /\ (call[r].op \in CommandOps => Refused(call[r]))
    BY <1>1 DEF CourseInvariant, Course, AnsweredQuietly
  <2>2. status[r] = StatusOf(call[r], Answer(call[r]))
    BY <2>1 DEF OnCourse
  <2>3. QED
    BY <1>1, <2>1, <2>2, AnswerIsExpected DEF CourseInvariant
<1>2. QED
  BY <1>1, InitCourse, NextCourse, PTL DEF Spec

-----------------------------------------------------------------------------
(* How an operation ends.                                                   *)

(* How far a request is from its return.                                     *)
LEMMA StepsLeftCases ==
    ASSUME Invariant, NEW r \in Requests
    PROVE  /\ StepsLeft(r) \in Nat
           /\ doing[r] = "answered" => StepsLeft(r) = 1
           /\ doing[r] \in Active => StepsLeft(r) > 1
<1>1. /\ doing[r] \in Phases /\ MaxLinkResolveDepth + 1 - depth[r] \in Nat
  BY RequestFacts, SizesAssumption
<1>2. QED
  BY <1>1 DEF StepsLeft, Active, Phases

LEMMA FinishDescends ==
    ASSUME Invariant, NEW r \in Requests, doing[r] \in Active, NEW err, Finish(r, err)
    PROVE  StepsLeft(r)' < StepsLeft(r)
<1>1. doing'[r] = "answered"
  BY DEF Finish, Invariant, TypeOK
<1>2. StepsLeft(r)' = 1
  BY <1>1 DEF StepsLeft
<1>3. QED
  BY <1>2, StepsLeftCases

LEMMA GotoDescends ==
    ASSUME Invariant, NEW r \in Requests, NEW p, Goto(r, p),
           \/ doing[r] = "stat" /\ p = "statDevice"
           \/ doing[r] \in {"stat", "statDevice"} /\ p \in {"command", "save", "fetch"}
           \/ doing[r] = "list" /\ p = "load"
    PROVE  StepsLeft(r)' < StepsLeft(r)
<1>1. doing'[r] = p /\ depth'[r] = depth[r]
  BY DEF Goto, Invariant, TypeOK
<1>2. MaxLinkResolveDepth + 1 - depth[r] \in Nat
  BY RequestFacts, SizesAssumption
<1>3. QED
  BY <1>1, <1>2 DEF StepsLeft

LEMMA FollowLinkDescends ==
    ASSUME Invariant, NEW r \in Requests, doing[r] \in {"stat", "statDevice"}, FollowLink(r)
    PROVE  StepsLeft(r)' < StepsLeft(r)
<1>1. CASE depth[r] > MaxLinkResolveDepth
  BY <1>1, FinishDescends DEF FollowLink, Active, Phases
<1>2. CASE ~(depth[r] > MaxLinkResolveDepth)
  <2>1. doing'[r] = "readlink" /\ depth'[r] = depth[r] + 1
    BY <1>2 DEF FollowLink, Invariant, TypeOK
  <2>2. MaxLinkResolveDepth + 1 - depth[r] \in Nat /\ depth[r] \in Int
    BY RequestFacts, SizesAssumption
  <2>3. QED
    BY <2>1, <2>2, SizesAssumption DEF StepsLeft
<1>3. QED
  BY <1>1, <1>2

LEMMA StatDescends ==
    ASSUME Invariant, NEW r \in Requests, StatCached(r) \/ StatDevice(r)
    PROVE  StepsLeft(r)' < StepsLeft(r)
<1>1. doing[r] \in {"stat", "statDevice"} /\ doing[r] \in Active
  BY DEF StatCached, StatDevice, Active, Phases
<1>2. ASSUME NEW v, Statted(r, v)
      PROVE  StepsLeft(r)' < StepsLeft(r)
  <2>1. \/ \E err \in Errors : Finish(r, err)
        \/ \E p \in {"command", "save", "fetch"} : Goto(r, p)
        \/ FollowLink(r)
    BY <1>2, ErrorNames DEF Statted, InitializeBuffer
  <2>2. QED
    BY <1>1, <2>1, FinishDescends, GotoDescends, FollowLinkDescends
<1>3. CASE \E v : Statted(r, v)
  BY <1>2, <1>3
<1>4. CASE doing[r] = "stat" /\ Goto(r, "statDevice")
  BY <1>4, GotoDescends
<1>5. QED
  BY <1>3, <1>4 DEF StatCached, StatDevice

LEMMA ReadLinkDescends ==
    ASSUME Invariant, NEW r \in Requests, ReadLink(r)
    PROVE  StepsLeft(r)' < StepsLeft(r)
<1>1. doing[r] = "readlink" /\ doing[r] \in Active
  BY DEF ReadLink, Active, Phases
<1>2. CASE \E err : Finish(r, err)
  BY <1>1, <1>2, FinishDescends
<1>3. CASE ~ \E err : Finish(r, err)
  <2>1. doing'[r] = "stat" /\ depth'[r] = depth[r]
    BY <1>3 DEF ReadLink, Invariant, TypeOK
  <2>2. MaxLinkResolveDepth + 1 - depth[r] \in Nat
    BY RequestFacts, SizesAssumption
  <2>3. QED
    BY <1>1, <2>1, <2>2 DEF StepsLeft
<1>4. QED
  BY <1>2, <1>3

LEMMA ListDescends ==
    ASSUME Invariant, NEW r \in Requests, ListCached(r) \/ ListDevice(r) \/ ListStored(r)
    PROVE  StepsLeft(r)' < StepsLeft(r)
<1>1. doing[r] \in {"list", "load"} /\ doing[r] \in Active
  BY DEF ListCached, ListDevice, ListStored, Active, Phases
<1>2. CASE ListCached(r)
  BY <1>1, <1>2, FinishDescends, GotoDescends DEF ListCached
<1>3. CASE ListDevice(r)
  <2>1. doing[r] = "load" /\ doing'[r] = "load" /\ loaded[r] = NoListing
    BY <1>3 DEF ListDevice, Load, requestVars
  <2>2. loaded'[r] # NoListing
    BY <1>3, NoListingAssumption DEF ListDevice, Load, Invariant, TypeOK
  <2>3. QED
    BY <2>1, <2>2 DEF StepsLeft
<1>4. CASE ListStored(r)
  BY <1>1, <1>4, FinishDescends DEF ListStored
<1>5. QED
  BY <1>2, <1>3, <1>4

(* Each step of a request brings it closer to its return.                    *)
LEMMA ServeDescends ==
    ASSUME Invariant, NEW r \in Requests, Serve(r)
    PROVE  StepsLeft(r)' < StepsLeft(r)
<1>1. CASE RunCommand(r) \/ RunStatFs(r) \/ InitialSave(r) \/ InitialLoad(r) \/ Fails(r)
  <2>1. doing[r] \in Active /\ \E err : Finish(r, err)
    BY <1>1 DEF RunCommand, RunStatFs, InitialSave, InitialLoad, Fails, Active, Phases
  <2>2. QED
    BY <2>1, FinishDescends
<1>2. CASE Return(r)
  <2>1. doing[r] = "answered" /\ doing'[r] = "idle"
    BY <1>2 DEF Return, Invariant, TypeOK
  <2>2. QED
    BY <2>1 DEF StepsLeft
<1>3. QED
  BY <1>1, <1>2, StatDescends, ReadLinkDescends, ListDescends DEF Serve, Steps

LEMMA TakeClientDescends ==
    ASSUME Invariant, NEW r \in Requests, TakeClient(r)
    PROVE  StepsLeft(r)' < StepsLeft(r)
<1>1. doing[r] = "queued" /\ doing' = [doing EXCEPT ![r] = FirstPhase(call[r].op)]
      /\ depth' = depth
  BY DEF TakeClient, GetClient
<1>2. doing'[r] \in {"list", "readlink", "command", "stat"}
  BY <1>1 DEF FirstPhase, Invariant, TypeOK
<1>3. MaxLinkResolveDepth + 1 - depth[r] \in Nat
  BY RequestFacts, SizesAssumption
<1>4. QED
  BY <1>1, <1>2, <1>3 DEF StepsLeft

(* A step of a request leaves the others where they are.                     *)
LEMMA OthersStay ==
    ASSUME Invariant, NEW r \in Requests,
           Serve(r) \/ TakeClient(r) \/ \E c \in Calls[r] : Receive(r, c),
           NEW q \in Requests, q # r
    PROVE  UNCHANGED <<doing[q], at[q], depth[q], loaded[q]>>
<1>1. UNCHANGED <<doing[q], at[q], depth[q]>>
  BY OneAtATime
<1>2. loaded'[q] = loaded[q]
  BY DEF Serve, TakeClient, Receive, GetClient, Steps, StatCached, StatDevice, ReadLink, ListCached,
         ListDevice, ListStored, RunCommand, RunStatFs, InitialSave, InitialLoad, Fails,
         Return, Effect, Change, Load, Store, cacheVars, Invariant, TypeOK
<1>3. QED
  BY <1>1, <1>2

(* Whatever happens, an operation that has begun only comes closer to its    *)
(* return, which is at most 3 * MaxLinkResolveDepth + 9 steps away: with the *)
(* client it waits for, it answers (readLinkRecursively, GetOrLoad,          *)
(* createFile).                                                              *)
THEOREM NothingLoops == Spec => StepsDescend
<1> DEFINE Place(q) == <<doing[q], at[q], depth[q], loaded[q]>>
<1>1. ASSUME Invariant, [Next]_vars, NEW q \in Requests, doing[q] # "idle",
             Place(q)' # Place(q)
      PROVE  StepsLeft(q)' < StepsLeft(q)
  <2>1. ASSUME NEW r \in Requests, NEW c \in Calls[r], Receive(r, c)
        PROVE  FALSE
    <3>1. r # q
      BY <1>1, <2>1 DEF Receive
    <3>2. QED
      BY <1>1, <2>1, <3>1, OthersStay
  <2>2. ASSUME NEW r \in Requests, Serve(r) \/ TakeClient(r)
        PROVE  r = q
    BY <1>1, <2>2, OthersStay
  <2>3. ~Others /\ ~UNCHANGED vars
    BY <1>1 DEF Others, Change, Forget, requestVars, vars
  <2>4. QED
    BY <1>1, <2>1, <2>2, <2>3, ServeDescends, TakeClientDescends DEF Next
<1>2. Invariant /\ [Next]_vars =>
        [\A r \in Requests :
            doing[r] # "idle" /\ <<doing[r], at[r], depth[r], loaded[r]>>'
                                     # <<doing[r], at[r], depth[r], loaded[r]>>
            => StepsLeft(r)' < StepsLeft(r)]_vars
  BY <1>1
<1>3. QED
  BY <1>2, InitInvariant, NextInvariant, PTL DEF Spec, StepsDescend

-----------------------------------------------------------------------------

(* Every step of the operations is, to the cache, one that ListingCache      *)
(* allows.                                                                   *)
LEMMA CacheSteps ==
    ASSUME Invariant, [Next]_vars
    PROVE  [CacheNext]_cacheVars
<1>1. device' \in Files
  BY NextInvariant DEF Invariant, TypeOK
<1>2. CASE UNCHANGED <<cached, loaded>>
  BY <1>1, <1>2 DEF CacheNext, Change
<1>3. ASSUME NEW r \in Requests, Serve(r), ~UNCHANGED <<cached, loaded>>
      PROVE  Load(r) \/ Store(r)
  BY <1>3
     DEF Serve, Steps, StatCached, StatDevice, ReadLink, ListCached, ListDevice, ListStored,
         RunCommand, RunStatFs, InitialSave, InitialLoad, Fails, Return, Effect, Change, cacheVars
<1>4. ASSUME NEW r \in Requests, TakeClient(r) \/ \E c \in Calls[r] : Receive(r, c)
      PROVE  UNCHANGED <<cached, loaded>>
  BY <1>4 DEF TakeClient, GetClient, Receive, cacheVars
<1>5. ASSUME Others, ~UNCHANGED <<cached, loaded>>
      PROVE  Forget
  BY <1>5 DEF Others, Change
<1>6. CASE UNCHANGED vars
  BY <1>2, <1>6 DEF vars
<1>7. QED
  BY <1>2, <1>3, <1>4, <1>5, <1>6 DEF Next, CacheNext

(* The operations use the cache of listings as ListingCache promises it, and *)
(* in no other way: with CacheImplementsListings of DirCacheProofs, they can *)
(* be served by the real cache (OpenDir and getAttr through                  *)
(* CachingDeviceClient).                                                     *)
THEOREM OperationsUseListings == Spec => CacheSpec
<1>1. Init => CacheInit
  BY DEF Init
<1>2. QED
  BY <1>1, CacheSteps, InitInvariant, NextInvariant, PTL DEF Spec, CacheSpec
=============================================================================
