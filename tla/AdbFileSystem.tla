--------------------------- MODULE AdbFileSystem ---------------------------
(***************************************************************************)
(* The operations on paths (src/adb_filesystem.go), each served on a       *)
(* goroutine of its own: the pool of device clients they share, what a     *)
(* read-only filesystem refuses, the resolution of symbolic links, and the *)
(* status each of them answers (src/errors.go).                            *)
(*                                                                         *)
(* The paths are the files of one directory, seen through the cache of     *)
(* listings (ListingCache).  Between two device calls of a request, other  *)
(* requests and other programs act.  An open is followed through its       *)
(* initial load or save, for a path that has no FileBuffer yet; it uses a  *)
(* client of its own.                                                      *)
(***************************************************************************)
EXTENDS Integers, FiniteSets, ListingCache, FileOpenFlags

CONSTANTS
    Links,                \* the contents that are symbolic links
    LinkTo,               \* the path a link holds
    Nowhere,              \* a path that leads nowhere; not a path at all
    MaxLinkResolveDepth,
    ConnectionPoolSize,   \* Config.ConnectionPoolSize
    Calls,                \* bound: the operations a request may be asked for
    NoCall                \* none

CommandOps == {"Mkdir", "Rename", "Rmdir", "Unlink"}
ResolvingOps == {"Access", "AccessToWrite", "StatFs"}
OpenOps == {"Open", "Create"}
Ops == CommandOps \cup ResolvingOps \cup OpenOps
           \cup {"GetAttr", "OpenDir", "Readlink", "Unsupported"}

ASSUME LinksAssumption == Links \subseteq Contents /\ LinkTo \in [Links -> Names \cup {Nowhere}]
ASSUME NowhereAssumption == Nowhere \notin Names
ASSUME SizesAssumption == MaxLinkResolveDepth \in Nat /\ ConnectionPoolSize \in Int
ASSUME CallsAssumption ==
    Calls \in [Requests -> SUBSET [op : Ops, name : Names, to : Names, flags : OpenFlags]]
ASSUME NoCallAssumption == \A r \in Requests : NoCall \notin Calls[r]

VARIABLES
    readOnly,  \* Config.ReadOnly, which never changes
    clients,   \* how many clients are in quickUseClientPool
    doing,     \* where a request is
    call,      \* the operation it serves
    at,        \* the path it has come to
    depth,     \* currentDepth of readLinkRecursively
    status,    \* what it answers
    quiet      \* history: the requests nothing has got in the way of

requestVars == <<clients, doing, call, at, depth, status>>
vars == <<device, cached, loaded, readOnly, clients, doing, call, at, depth, status, quiet>>

(* "queued" waits for a client, "stat" is before Cache.Get and "statDevice"  *)
(* after a miss; "list", "load" are GetOrLoad; "save" and "fetch" are the    *)
(* Sync of FileBuffer.initialize; "answered" has its status.                 *)
Phases == {"idle", "queued", "stat", "statDevice", "readlink", "list", "load",
           "command", "save", "fetch", "answered"}

(* toErrno.  "Other" is any error it does not know.                          *)
toErrno == [nil |-> "OK", LinkTooDeep |-> "ELOOP", NotALink |-> "EINVAL",
            NoPermission |-> "EACCES", NotPermitted |-> "EPERM",
            FileNoExist |-> "ENOENT", EINVAL |-> "EINVAL", ENOSYS |-> "ENOSYS",
            Other |-> "EIO"]
Errors == DOMAIN toErrno

(* StatFs has no status: it answers nil, whatever the error.                 *)
StatusOf(c, err) == IF c.op = "StatFs" /\ err # "nil" THEN "nothing" ELSE toErrno[err]

Statuses == {toErrno[err] : err \in Errors} \cup {"nothing", "none"}

(* NewAdbFileSystem makes a pool for ConnectionPoolSize clients and puts one  *)
(* in it.                                                                    *)
ClientsMade == 1

Init ==
    /\ CacheInit
    /\ readOnly \in BOOLEAN
    /\ clients = ClientsMade
    /\ doing = [r \in Requests |-> "idle"]
    /\ call = [r \in Requests |-> NoCall]
    /\ at = [r \in Requests |-> Nowhere]
    /\ depth = [r \in Requests |-> 0]
    /\ status = [r \in Requests |-> "none"]
    /\ quiet = {}

-----------------------------------------------------------------------------

(* The capacity of the channel.                                              *)
PoolCapacity == IF ConnectionPoolSize < 1 THEN 1 ELSE ConnectionPoolSize

(* Create adds its own flags to those of the caller.                         *)
FlagsOf(c) ==
    IF c.op # "Create" THEN c.flags
    ELSE c.flags \cup {"O_CREATE", "O_TRUNC"}
                 \cup (IF Contains(c.flags, {"O_RDWR"}) THEN {} ELSE {"O_WRONLY"})

Creates(c) == c.op \in OpenOps /\ Contains(FlagsOf(c), {"O_CREATE"})

(* Mutant of Refused: Rename forgets to look.                                *)
RefusedButRename(c) ==
    readOnly /\ \/ c.op \in CommandOps \ {"Rename"} \/ c.op = "AccessToWrite"
                \/ c.op \in OpenOps /\ IsWriteOp(FlagsOf(c))

(* What a read-only filesystem refuses.                                      *)
Refused(c) ==
    readOnly /\ \/ c.op \in CommandOps \/ c.op = "AccessToWrite"
                \/ c.op \in OpenOps /\ IsWriteOp(FlagsOf(c))

(* Errors found before the device is asked.                                  *)
EarlyError(c) ==
    IF c.op = "Unsupported" THEN "ENOSYS"
    ELSE IF \/ Refused(c)
            \/ c.op \in OpenOps /\ RequiresWrite(FlagsOf(c)) /\ ~CanWrite(FlagsOf(c))
         THEN "NotPermitted" ELSE "nil"

(* FUSE calls an operation.                                                  *)
Receive(r, c) ==
    LET err == EarlyError(c) IN
    /\ doing[r] = "idle"
    /\ call' = [call EXCEPT ![r] = c]
    /\ IF err # "nil"
       THEN /\ doing' = [doing EXCEPT ![r] = "answered"]
            /\ status' = [status EXCEPT ![r] = StatusOf(c, err)]
            /\ UNCHANGED at
       ELSE /\ doing' = [doing EXCEPT ![r] = IF c.op \in OpenOps THEN "stat" ELSE "queued"]
            /\ at' = [at EXCEPT ![r] = c.name]
            /\ UNCHANGED status
    /\ UNCHANGED <<cacheVars, clients, depth>>

(* The answer reaches the caller.                                            *)
Return(r) ==
    /\ doing[r] = "answered"
    /\ doing' = [doing EXCEPT ![r] = "idle"]
    /\ call' = [call EXCEPT ![r] = NoCall]
    /\ status' = [status EXCEPT ![r] = "none"]
    /\ UNCHANGED <<cacheVars, clients, at, depth>>

(* The first device call of an operation that waits for a client.            *)
FirstPhase(op) ==
    IF op = "OpenDir" THEN "list"
    ELSE IF op = "Readlink" THEN "readlink"
    ELSE IF op \in CommandOps THEN "command" ELSE "stat"

(* getQuickUseClient: a receive from the channel.                            *)
GetClient(r) ==
    /\ doing[r] = "queued"
    /\ clients > 0
    /\ clients' = clients - 1
    /\ doing' = [doing EXCEPT ![r] = FirstPhase(call[r].op)]
    /\ UNCHANGED <<cacheVars, call, at, depth, status>>

(* The operation goes on with its next device call.                          *)
Goto(r, phase) ==
    /\ doing' = [doing EXCEPT ![r] = phase]
    /\ UNCHANGED <<clients, call, at, depth, status>>

(* Mutant of Finish: the client is given back only when all went well.       *)
FinishKeeping(r, err) ==
    /\ doing' = [doing EXCEPT ![r] = "answered"]
    /\ status' = [status EXCEPT ![r] = StatusOf(call[r], err)]
    /\ at' = [at EXCEPT ![r] = Nowhere]
    /\ depth' = [depth EXCEPT ![r] = 0]
    /\ clients' = IF call[r].op \in OpenOps \/ err # "nil" THEN clients ELSE clients + 1
    /\ UNCHANGED call

(* The operation returns, and its deferred recycleQuickUseClient runs.       *)
Finish(r, err) ==
    /\ doing' = [doing EXCEPT ![r] = "answered"]
    /\ status' = [status EXCEPT ![r] = StatusOf(call[r], err)]
    /\ at' = [at EXCEPT ![r] = Nowhere]
    /\ depth' = [depth EXCEPT ![r] = 0]
    /\ \/ call[r].op \in OpenOps /\ UNCHANGED clients
       \/ call[r].op \notin OpenOps /\ clients < PoolCapacity /\ clients' = clients + 1
    /\ UNCHANGED call

-----------------------------------------------------------------------------

(* Mutant of FollowLink: the depth is not tested.                            *)
FollowLinkForever(r) ==
    /\ doing' = [doing EXCEPT ![r] = "readlink"]
    /\ UNCHANGED <<clients, call, at, depth, status>>

(* Mutant of FollowLink: the depth test is one link laxer.                   *)
FollowLinkLate(r) ==
    IF depth[r] > MaxLinkResolveDepth + 1
    THEN Finish(r, "LinkTooDeep")
    ELSE /\ doing' = [doing EXCEPT ![r] = "readlink"]
         /\ depth' = [depth EXCEPT ![r] = @ + 1]
         /\ UNCHANGED <<clients, call, at, status>>

(* One turn of the loop of readLinkRecursively, at a link.                   *)
FollowLink(r) ==
    IF depth[r] > MaxLinkResolveDepth
    THEN Finish(r, "LinkTooDeep")
    ELSE /\ doing' = [doing EXCEPT ![r] = "readlink"]
         /\ depth' = [depth EXCEPT ![r] = @ + 1]
         /\ UNCHANGED <<clients, call, at, status>>

(* Mutant of InitializeBuffer: O_CREATE alone makes the file new.            *)
InitializeBufferAnew(r, v) ==
    IF v = Absent /\ ~Creates(call[r]) THEN Finish(r, "FileNoExist")
    ELSE IF Contains(FlagsOf(call[r]), {"O_CREATE", "O_TRUNC"}) THEN Goto(r, "save")
    ELSE Goto(r, "fetch")

(* FileBuffer.initialize once it knows the file: a file that does not exist  *)
(* is created or an error; a file to create or truncate is saved, empty, and *)
(* any other loaded.                                                         *)
InitializeBuffer(r, v) ==
    IF v = Absent /\ ~Creates(call[r]) THEN Finish(r, "FileNoExist")
    ELSE IF v = Absent \/ Contains(FlagsOf(call[r]), {"O_TRUNC"}) THEN Goto(r, "save")
    ELSE Goto(r, "fetch")

(* Mutant of Statted: Access and StatFs take a link that is there for the    *)
(* file it leads to.                                                         *)
StattedUnresolved(r, v) ==
    IF call[r].op \in OpenOps THEN InitializeBuffer(r, v)
    ELSE IF v = Absent THEN Finish(r, "FileNoExist")
    ELSE IF call[r].op = "StatFs" THEN Goto(r, "command")
    ELSE Finish(r, "nil")

(* What the operation does with the entry, or the lack of one, that Stat     *)
(* returned.                                                                 *)
Statted(r, v) ==
    IF call[r].op \in OpenOps THEN InitializeBuffer(r, v)
    ELSE IF v = Absent THEN Finish(r, "FileNoExist")
    ELSE IF call[r].op \in ResolvingOps /\ v \in Links THEN FollowLink(r)
    ELSE IF call[r].op = "StatFs" THEN Goto(r, "command")
    ELSE Finish(r, "nil")

(* CachingDeviceClient.Stat.  A path that leads nowhere is in no listing.    *)
StatCached(r) ==
    /\ doing[r] = "stat"
    /\ IF cached # NoListing /\ at[r] # Nowhere
       THEN Statted(r, cached[at[r]])
       ELSE Goto(r, "statDevice")
    /\ UNCHANGED cacheVars

StatDevice(r) ==
    /\ doing[r] = "statDevice"
    /\ Statted(r, IF at[r] = Nowhere THEN Absent ELSE device[at[r]])
    /\ UNCHANGED cacheVars

(* What the readlink command prints for a path.  The message it has for a    *)
(* missing file is none that readLink knows: it is taken for the target.     *)
LinkText(n) == IF n # Nowhere /\ device[n] \in Links THEN LinkTo[device[n]] ELSE Nowhere

IsNoLink(n) == n # Nowhere /\ device[n] \in Contents \ Links

(* readLink, for Readlink itself and for readLinkRecursively, which wraps    *)
(* its errors so that toErrno does not know them any more.                   *)
ReadLink(r) ==
    /\ doing[r] = "readlink"
    /\ IF call[r].op = "Readlink" THEN Finish(r, IF IsNoLink(at[r]) THEN "NotALink" ELSE "nil")
       ELSE IF IsNoLink(at[r]) THEN Finish(r, "Other")
       ELSE /\ doing' = [doing EXCEPT ![r] = "stat"]
            /\ at' = [at EXCEPT ![r] = LinkText(at[r])]
            /\ UNCHANGED <<clients, call, depth, status>>
    /\ UNCHANGED cacheVars

(* OpenDir, by way of GetOrLoad.                                             *)
ListCached(r) ==
    /\ doing[r] = "list"
    /\ IF cached # NoListing THEN Finish(r, "nil") ELSE Goto(r, "load")
    /\ UNCHANGED cacheVars

ListDevice(r) ==
    /\ doing[r] = "load"
    /\ Load(r)
    /\ UNCHANGED requestVars

ListStored(r) ==
    /\ doing[r] = "load"
    /\ Store(r)
    /\ Finish(r, "nil")

(* What a command that works does to the device.  A rename onto a directory  *)
(* moves the file into it.                                                   *)
Effect(c) ==
    LET file == device[c.name] IN
    \/ /\ c.op = "Mkdir"
       /\ file = Absent
       /\ \E v \in Contents \ Links : Change([device EXCEPT ![c.name] = v])
    \/ /\ c.op = "Rename"
       /\ file # Absent
       /\ c.to # c.name
       /\ \E v \in {file} \cup ({device[c.to]} \ ({Absent} \cup Links)) :
              Change([device EXCEPT ![c.name] = Absent, ![c.to] = v])
    \/ /\ c.op \in {"Rmdir", "Unlink"}
       /\ file # Absent
       /\ Change([device EXCEPT ![c.name] = Absent])

(* mkdir, mv, rmdir and rm: no output is success.  Any output is taken for a *)
(* refusal, also that of a command which had its effect and warns.           *)
RunCommand(r) ==
    LET c == call[r] IN
    /\ doing[r] = "command"
    /\ c.op \in CommandOps
    /\ \/ Effect(c) /\ Finish(r, "nil")
       \/ /\ UNCHANGED cacheVars \/ Effect(c)
          /\ Finish(r, IF c.op = "Rmdir" THEN "EINVAL" ELSE "NoPermission")

(* stat -f prints what parseStatfs understands.                              *)
RunStatFs(r) ==
    /\ doing[r] = "command"
    /\ call[r].op = "StatFs"
    /\ Finish(r, "nil")
    /\ UNCHANGED cacheVars

(* The initial Sync saves an empty file, or fails to; it says neither.       *)
InitialSave(r) ==
    LET n == at[r] IN
    /\ doing[r] = "save"
    /\ \E v \in (Contents \ Links) \cup {device[n], Absent} : Change([device EXCEPT ![n] = v])
    /\ Finish(r, "nil")

InitialLoad(r) ==
    /\ doing[r] = "fetch"
    /\ Finish(r, "nil")
    /\ UNCHANGED cacheVars

(* A device call fails: the operation answers with the error.  A command may *)
(* have been executed all the same, and readlink may lack the permission.    *)
Fails(r) ==
    \/ /\ doing[r] \in {"statDevice", "readlink", "command"}
             \cup (IF loaded[r] = NoListing THEN {"load"} ELSE {})
       /\ Finish(r, "Other")
       /\ \/ UNCHANGED cacheVars
          \/ doing[r] = "command" /\ Effect(call[r])
    \/ /\ doing[r] = "readlink"
       /\ call[r].op = "Readlink"
       /\ Finish(r, "NoPermission")
       /\ UNCHANGED cacheVars

-----------------------------------------------------------------------------

(* A request is quiet while the directory stays as it was, listings agree    *)
(* with it, and the device calls of the request do not fail.                 *)
Observe(begins, ends) ==
    quiet' = IF device' = device /\ cached' \in {NoListing, device}
             THEN (quiet \cup begins) \ ends ELSE {}

Steps(r) ==
    \/ StatCached(r) \/ StatDevice(r) \/ ReadLink(r)
    \/ ListCached(r) \/ ListDevice(r) \/ ListStored(r)
    \/ RunCommand(r) \/ RunStatFs(r)
    \/ InitialSave(r) \/ InitialLoad(r)

Serve(r) ==
    /\ \/ Steps(r) /\ Observe({}, {})
       \/ (Fails(r) \/ Return(r)) /\ Observe({}, {r})
    /\ UNCHANGED readOnly

TakeClient(r) == GetClient(r) /\ Observe({}, {}) /\ UNCHANGED readOnly

(* Other programs, and the saves of files that are open; listings that go.   *)
Others ==
    /\ \/ \E n \in Names, v \in Contents \cup {Absent} : Change([device EXCEPT ![n] = v])
       \/ Forget
    /\ Observe({}, {})
    /\ UNCHANGED <<readOnly, requestVars>>

Next ==
    \/ \E r \in Requests :
        \/ \E c \in Calls[r] : Receive(r, c) /\ Observe({r}, {}) /\ UNCHANGED readOnly
        \/ TakeClient(r)
        \/ Serve(r)
    \/ Others

(* Goroutines run, device calls answer or fail, and a channel serves its     *)
(* receivers in the order they came.                                         *)
Fairness == \A r \in Requests : WF_vars(Serve(r)) /\ SF_vars(TakeClient(r))

Spec == Init /\ [][Next]_vars /\ Fairness

-----------------------------------------------------------------------------

TypeOK ==
    /\ device \in Files
    /\ cached \in Files \cup {NoListing}
    /\ loaded \in [Requests -> Files \cup {NoListing}]
    /\ readOnly \in BOOLEAN
    /\ clients \in 0 .. PoolCapacity
    /\ doing \in [Requests -> Phases]
    /\ call \in [Requests -> {NoCall} \cup UNION {Calls[r] : r \in Requests}]
    /\ \A r \in Requests : call[r] \in IF doing[r] = "idle" THEN {NoCall} ELSE Calls[r]
    /\ at \in [Requests -> Names \cup {Nowhere}]
    /\ depth \in [Requests -> 0 .. MaxLinkResolveDepth + 1]
    /\ status \in [Requests -> Statuses]
    /\ quiet \subseteq Requests

(* The requests that have taken a client and not given it back.              *)
Holders ==
    {r \in Requests : doing[r] \notin {"idle", "queued", "answered"} /\ call[r].op \notin OpenOps}

(* The clients that NewAdbFileSystem made are each in the pool or with one    *)
(* request: no path through an operation, errors included, loses a client or *)
(* gives it back twice (src/adb_filesystem.go:662 to 668, and the deferred   *)
(* recycleQuickUseClient of every operation).                                *)
ClientsKept ==
    /\ IsFiniteSet(Holders)
    /\ clients + Cardinality(Holders) = ClientsMade

(* adb_filesystem.go:57: "Maximum number of concurrent connections for       *)
(* short-lived connections", and line 32: "The pool is initially filled".    *)
(* An operation has to wait only when that many are under way.               *)
WaitsOnlyAtMaximum ==
    clients = 0 /\ (\E r \in Requests : doing[r] = "queued")
        => Cardinality(Holders) >= PoolCapacity

(* What resolving a path gives when at most so many links are followed.      *)
ResolutionWithin[links \in 0 .. MaxLinkResolveDepth + 1] ==
    [n \in Names \cup {Nowhere} |->
        IF n = Nowhere \/ device[n] = Absent THEN "FileNoExist"
        ELSE IF device[n] \notin Links THEN "nil"
        ELSE IF links = 0 THEN "LinkTooDeep"
        ELSE ResolutionWithin[links - 1][LinkTo[device[n]]]]

(* What the directory as it is calls for: the constant says how many links a *)
(* path may take, and what does not exist cannot be read.                    *)
Expected(c) ==
    LET file == device[c.name] IN
    IF EarlyError(c) # "nil" THEN EarlyError(c)
    ELSE CASE c.op \in ResolvingOps -> ResolutionWithin[MaxLinkResolveDepth][c.name]
           [] c.op \in {"GetAttr", "Readlink"} /\ file = Absent -> "FileNoExist"
           [] c.op = "Readlink" /\ file \notin Links -> "NotALink"
           [] c.op \in OpenOps /\ file = Absent /\ ~Creates(c) -> "FileNoExist"
           [] OTHER -> "nil"

(* Where the code goes its own way: the link after the last that is allowed, *)
(* and a readlink of a missing file, whose message is taken for a target.    *)
Apart(c) ==
    \/ /\ c.op \in ResolvingOps
       /\ ResolutionWithin[MaxLinkResolveDepth + 1][c.name]
              # ResolutionWithin[MaxLinkResolveDepth][c.name]
    \/ c.op = "Readlink" /\ device[c.name] = Absent

(* A request that nothing got in the way of.                                 *)
AnsweredQuietly(r) ==
    doing[r] = "answered" /\ r \in quiet /\ (call[r].op \in CommandOps => Refused(call[r]))

(* A request that nothing got in the way of answers what the directory calls *)
(* for, through the cache or not, over chains of links up to the longest     *)
(* that is allowed, cycles, and links that lead nowhere; of the two cases of *)
(* Apart, TooDeepIsRefused is about the first (readLinkRecursively,          *)
(* readLink, getAttr, createFile, toErrno).                                  *)
QuietAnswers ==
    \A r \in Requests :
        AnsweredQuietly(r) /\ ~Apart(call[r]) => status[r] = StatusOf(call[r], Expected(call[r]))

(* adb_filesystem.go:24: "64 symlinks ought to be deep enough for anybody."  *)
(* A path that takes more links than MaxLinkResolveDepth is too deep for the *)
(* operations that resolve it (readLinkRecursively).                         *)
TooDeepIsRefused ==
    \A r \in Requests :
        /\ AnsweredQuietly(r)
        /\ call[r].op \in ResolvingOps /\ Expected(call[r]) = "LinkTooDeep"
        => status[r] = StatusOf(call[r], "LinkTooDeep")

(* An open that was not told to truncate is about to save an empty file only *)
(* over nothing, unless it was misled by a stale listing or overtaken        *)
(* (src/file_buffer.go:106, src/caching_device_client.go:63).                *)
SparesExisting ==
    \A r \in Requests :
        doing[r] = "save" /\ r \in quiet /\ ~Contains(FlagsOf(call[r]), {"O_TRUNC"})
        => device[at[r]] = Absent

(* No operation on a read-only filesystem changes the device: only others    *)
(* do, between the steps of requests (src/adb_filesystem.go:428 to 549).     *)
ReadOnlyLeavesDevice == [][readOnly /\ device' # device => UNCHANGED requestVars]_vars

(* How many steps a request may still take before it has returned, when it   *)
(* follows every link it is allowed to.                                      *)
StepsLeft(r) ==
    LET links == MaxLinkResolveDepth + 1 - depth[r] IN
    CASE doing[r] = "idle" -> 0
      [] doing[r] = "answered" -> 1
      [] doing[r] \in {"command", "save", "fetch"} -> 2
      [] doing[r] = "load" -> IF loaded[r] = NoListing THEN 3 ELSE 2
      [] doing[r] = "list" -> 4
      [] doing[r] = "statDevice" -> 3 * links + 3
      [] doing[r] = "stat" -> 3 * links + 4
      [] doing[r] = "readlink" -> 3 * links + 5
      [] doing[r] = "queued" -> 3 * links + 6

(* An operation that has begun only comes closer to its return: each of its  *)
(* own steps brings it there, over links that change under it or lead in     *)
(* circles, and no step of another request or program sets it back           *)
(* (readLinkRecursively, GetOrLoad, createFile).                             *)
StepsDescend ==
    [][\A r \in Requests :
          doing[r] # "idle" /\ <<doing[r], at[r], depth[r], loaded[r]>>'
                                   # <<doing[r], at[r], depth[r], loaded[r]>>
          => StepsLeft(r)' < StepsLeft(r)]_vars

(* Every operation returns: it gets the client however many others want it,  *)
(* and no cycle of links keeps it from giving it back                        *)
(* (getQuickUseClient, readLinkRecursively).                                 *)
RequestsReturn == \A r \in Requests : doing[r] # "idle" ~> doing[r] = "idle"
=============================================================================
