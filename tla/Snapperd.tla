------------------------------ MODULE Snapperd ------------------------------
(***************************************************************************)
(* The daemon snapperd: its client sessions, their worker threads, the     *)
(* background comparison thread, the main loop's housekeeping and the use  *)
(* counts that keep a loaded Snapper object alive (src/server).            *)
(*                                                                         *)
(* A D-Bus method handler holds big_mutex exclusively for its whole body   *)
(* and is one action here.  CreateComparison gives the mutex up while it   *)
(* builds the comparison, so it is split there; the background thread      *)
(* never takes big_mutex, so each of its steps is an action.               *)
(***************************************************************************)
EXTENDS Integers, Sequences, FiniteSets

CONSTANTS
  Client,      \* slots for D-Bus clients; a slot is reused by a later client
  Config,      \* config names
  Num,         \* snapshot numbers (bound on nextNumber)
  Addr,        \* addresses of Comparison objects (bound on their number)
  Pair,        \* the pairs of snapshot numbers clients ask to compare
  Method,      \* the D-Bus methods clients call
  Root,        \* clients with uid 0
  Allowed,     \* the clients a config's ALLOW_USERS and ALLOW_GROUPS admit
  Background,  \* configs whose BACKGROUND_COMPARISON is not switched off
  Fault,       \* the faults that may happen: see FaultNames
  MaxTasks,    \* bound on a client's task queue and on the background queue
  MaxMounts    \* bound on the mounts of one snapshot by one client

(* "crash": the process dies; "io": reading, writing or comparing files    *)
(* fails; "delete_config": Snapper::deleteConfig gives up half way.        *)
FaultNames == {"crash", "io", "delete_config"}

ASSUME ConstantsAssumption ==
  /\ IsFiniteSet(Client) /\ IsFiniteSet(Addr) /\ Addr \subseteq Nat
  /\ Num \subseteq Nat \ {0}
  /\ Pair \subseteq (Num \cup {0}) \X (Num \cup {0})
  /\ Root \subseteq Client
  /\ Allowed \in [Config -> SUBSET Client]
  /\ Background \subseteq Config
  /\ Fault \subseteq FaultNames
  /\ MaxTasks \in Nat /\ MaxMounts \in Nat

VARIABLES
  client,       \* "active", "zombie" (disconnected, worker running), "ended"
                \* (disconnected, worker finished), "absent" (not in clients)
  queued,       \* number of tasks waiting in the client's queue
  locks,        \* config names the client has locked
  comparisons,  \* finished Comparison objects owned by clients
  gap,          \* comparisons being built while big_mutex is released
  mounts,       \* the client's record of mounts made with user_request false
  metas,        \* config names in meta_snappers
  counter,      \* RefCounter::counter of each MetaSnapper
  loaded,       \* configs whose MetaSnapper holds a Snapper object
  snaps,        \* the Snapshots list of each loaded Snapper, without number 0
  disk,         \* what Snapshots::read would find on disk
  bg,           \* tasks of the background thread; the first may be in progress
  bgpc,         \* where the background thread is in its loop
  idle,         \* idle_timeout >= 0: the main loop may exit
  daemon        \* "running", "exited" or "aborted"

sessionVars == <<client, queued, locks, comparisons, gap, mounts>>
metaVars == <<metas, counter, loaded, snaps>>
bgVars == <<bg, bgpc>>
mainVars == <<idle, daemon>>
vars == <<sessionVars, metaVars, disk, bgVars, mainVars>>

-----------------------------------------------------------------------------
(* Types                                                                   *)

Snapshot == [num : Num, type : {"single", "pre", "post"}, pre_num : Num \cup {0}]

Comparison == [addr : Addr, client : Client, config : Config,
               num1 : Num \cup {0}, num2 : Num \cup {0}]

(* legal: both numbers named a snapshot when the handler looked them up    *)
Construction == [client : Client, config : Config, num1 : Num \cup {0},
                 num2 : Num \cup {0}, legal : BOOLEAN]

Task == [config : Config, num1 : Num, num2 : Num]

TypeOK ==
  /\ client \in [Client -> {"absent", "active", "zombie", "ended"}]
  /\ queued \in [Client -> 0..MaxTasks]
  /\ locks \in [Client -> SUBSET Config]
  /\ comparisons \subseteq Comparison
  /\ gap \subseteq Construction
  /\ mounts \in [Client -> [Config -> [Num -> 0..MaxMounts]]]
  /\ metas \subseteq Config
  /\ counter \in [Config -> Nat]
  /\ loaded \subseteq metas
  /\ snaps \in [Config -> SUBSET Snapshot]
  /\ disk \in [Config -> SUBSET Snapshot]
  /\ bg \in Seq(Task)
  /\ bgpc \in {"idle", "compare", "counted"}
  /\ idle \in BOOLEAN
  /\ daemon \in {"running", "exited", "aborted"}

-----------------------------------------------------------------------------
(* Helpers                                                                 *)

Numbers(list) == {s.num : s \in list}

(* The list a handler sees once getSnapper() has returned.                 *)
Entries(c) == IF c \in loaded THEN snaps[c] ELSE disk[c]

(* MetaSnapper::getSnapper: load the Snapper object unless it is loaded.   *)
GetSnapper(c) ==
  /\ loaded' = loaded \cup {c}
  /\ snaps' = [snaps EXCEPT ![c] = Entries(c)]

Permitted(n, c) == n \in Root \cup Allowed[c]

(* Client::check_lock passes for client n.                                 *)
LockCheckSelf(n, c) == \/ c \in locks[n]
                       \/ \A m \in Client : client[m] = "active" => c \notin locks[m]
LockCheck(n, c) ==
  \A m \in Client \ {n} : client[m] = "active" => c \notin locks[m]

(* Client::check_snapshot_in_use throws.                                   *)
InUseByNobody(c, k) == FALSE
InUse(c, k) == \E n \in Client : mounts[n][c][k] > 0

(* Snapshots::findPost, as the set of posts of pre number p in list.       *)
FindPost(list, p) == {s \in list : s.type = "post" /\ s.pre_num = p}

(* Snapshots::nextNumber: the first number above the last entry of the     *)
(* list that no snapshot on disk has; a singleton, or empty at the bound.  *)
NextNumberFirstFree(list, ondisk) ==
  {k \in Num : /\ k \notin Numbers(list) \cup Numbers(ondisk)
               /\ \A j \in Num : j < k => j \in Numbers(list) \cup Numbers(ondisk)}
NextNumber(list, ondisk) ==
  LET above == {k \in Num : \A s \in list : s.num < k}
  IN  {k \in above \ Numbers(ondisk) :
         \A j \in above : j < k => j \in Numbers(ondisk)}

Comparing(n) == \E g \in gap : g.client = n

(* Client::worker takes the next task of client n and dispatches method m. *)
Call(n, m) ==
  /\ daemon = "running" /\ m \in Method
  /\ client[n] \in {"active", "zombie"} /\ ~Comparing(n) /\ queued[n] > 0
  /\ queued' = [queued EXCEPT ![n] = @ - 1]
  /\ UNCHANGED <<client, mainVars>>

IncUseCount(c) == counter' = [counter EXCEPT ![c] = @ + 1]
DecUseCount(c) == counter' = [counter EXCEPT ![c] = @ - 1]

-----------------------------------------------------------------------------
(* The state of a daemon that has just started, and of one that is down.   *)

NoMounts == [c \in Config |-> [k \in Num |-> 0]]

Init ==
  /\ client = [n \in Client |-> "absent"]
  /\ queued = [n \in Client |-> 0]
  /\ locks = [n \in Client |-> {}]
  /\ comparisons = {} /\ gap = {}
  /\ mounts = [n \in Client |-> NoMounts]
  /\ metas \in SUBSET Config
  /\ counter = [c \in Config |-> 0]
  /\ loaded = {}
  /\ snaps = [c \in Config |-> {}]
  /\ disk = [c \in Config |-> {}]
  /\ bg = <<>> /\ bgpc = "idle"
  /\ idle = TRUE
  /\ daemon = "running"

(* Everything but the configs and the snapshots on disk is process state.  *)
Stop(reason) ==
  /\ daemon = "running" /\ daemon' = reason
  /\ client' = [n \in Client |-> "absent"]
  /\ queued' = [n \in Client |-> 0]
  /\ locks' = [n \in Client |-> {}]
  /\ comparisons' = {} /\ gap' = {}
  /\ mounts' = [n \in Client |-> NoMounts]
  /\ counter' = [c \in Config |-> 0]
  /\ loaded' = {}
  /\ snaps' = [c \in Config |-> {}]
  /\ bg' = <<>> /\ bgpc' = "idle"
  /\ idle' = TRUE
  /\ UNCHANGED <<metas, disk>>

-----------------------------------------------------------------------------
(* The main loop                                                           *)

(* MyMainLoop::method_call: a call of client n arrives; Client::add_task.  *)
MethodCall(n) ==
  /\ daemon = "running" /\ client[n] \in {"absent", "active"}
  /\ queued[n] < MaxTasks
  /\ client' = [client EXCEPT ![n] = "active"]
  /\ queued' = [queued EXCEPT ![n] = @ + 1]
  /\ idle' = (idle /\ client[n] = "active")
  /\ UNCHANGED <<locks, comparisons, gap, mounts, metaVars, disk, bgVars, daemon>>

(* MyMainLoop::client_disconnected: the client becomes a zombie and its    *)
(* worker thread is interrupted.                                           *)
ClientDisconnected(n) ==
  /\ daemon = "running" /\ client[n] = "active"
  /\ client' = [client EXCEPT ![n] = "zombie"]
  /\ UNCHANGED <<queued, locks, comparisons, gap, mounts, metaVars, disk, bgVars, mainVars>>

(* The zombies whose worker thread has ended (Clients::remove_zombies)     *)
EndedUnlocked == {n \in Client : client[n] = "ended" /\ locks[n] = {} /\
                                \A x \in comparisons : x.client # n}
Ended == {n \in Client : client[n] = "ended"}
OwnedByEnded(c) == {x \in comparisons : x.client \in Ended /\ x.config = c}
MountedByEnded == {ck \in Config \X Num : \E n \in Ended : mounts[n][ck[1]][ck[2]] > 0}
Reloaded == {ck[1] : ck \in MountedByEnded}

(* Client::~Client finds every config and snapshot it must umount.         *)
ReleaseResolves ==
  \A ck \in MountedByEnded : ck[1] \in metas /\ ck[2] \in Numbers(Entries(ck[1]))

(* Each comparison of a destroyed client gives back one use of its config. *)
CountKept(c) == counter[c]
CountDownAboveOne(c) ==
  IF counter[c] > 1 THEN counter[c] - Cardinality(OwnedByEnded(c)) ELSE counter[c]
CountAfterRelease(c) == counter[c] - Cardinality(OwnedByEnded(c))

(* Loaded Snapper objects that nobody has used for snapper_cleanup_time;   *)
(* what ~Client has just touched or the background thread has just counted *)
(* down was used a moment ago.                                             *)
JustUsed(c) == c \in Reloaded \/ (bgpc = "counted" /\ bg[1].config = c)
UnusedIgnoringCount == {c \in loaded : OwnedByEnded(c) = {} /\ ~JustUsed(c)}
Unused == {c \in loaded : counter[c] = 0 /\ ~JustUsed(c)}

(* No client is left and no background comparison either.                  *)
NoClientLeft == \A n \in Client : client[n] \in {"absent", "ended"}
NothingLeft == bg = <<>> /\ \A n \in Client : client[n] \in {"absent", "ended"}

(* MyMainLoop::periodic: remove the finished zombies (Client::~Client      *)
(* deletes their comparisons and gives back their mounts), arm the idle    *)
(* timeout, unload some of the unused Snapper objects.                     *)
Periodic ==
  /\ daemon = "running" /\ ReleaseResolves
  /\ client' = [n \in Client |-> IF n \in Ended THEN "absent" ELSE client[n]]
  /\ locks' = [n \in Client |-> IF n \in Ended THEN {} ELSE locks[n]]
  /\ mounts' = [n \in Client |-> IF n \in Ended THEN NoMounts ELSE mounts[n]]
  /\ comparisons' = {x \in comparisons : x.client \notin Ended}
  /\ counter' = [c \in Config |-> CountAfterRelease(c)]
  /\ \E U \in SUBSET Unused :
       /\ loaded' = (loaded \cup Reloaded) \ U
       /\ snaps' = [c \in Config |-> IF c \in U THEN {}
                                     ELSE IF c \in Reloaded THEN Entries(c) ELSE snaps[c]]
  /\ idle' = (idle \/ NothingLeft)
  /\ UNCHANGED <<queued, gap, metas, disk, bgVars, daemon>>

(* Client::~Client throws UnknownConfig or IllegalSnapshotException;       *)
(* nobody catches it.                                                      *)
PeriodicAborts ==
  /\ ~ReleaseResolves
  /\ Stop("aborted")

(* MainLoop::run leaves its loop when the idle time is up.                 *)
Exit == idle /\ Stop("exited")

(* The process is killed, or an IOErrorException leaves the background     *)
(* thread.                                                                 *)
Crash ==
  /\ \/ "crash" \in Fault
     \/ "io" \in Fault /\ bgpc = "compare"
  /\ Stop("aborted")

(* D-Bus starts the service again.                                         *)
Start ==
  /\ daemon # "running" /\ daemon' = "running"
  /\ UNCHANGED <<sessionVars, metaVars, disk, bgVars, idle>>

-----------------------------------------------------------------------------
(* Configs                                                                 *)

LockConfig(n, c) ==
  /\ Call(n, "LockConfig") /\ c \in metas /\ Permitted(n, c)
  /\ locks' = [locks EXCEPT ![n] = @ \cup {c}]
  /\ UNCHANGED <<comparisons, gap, mounts, metaVars, disk, bgVars>>

UnlockConfig(n, c) ==
  /\ Call(n, "UnlockConfig") /\ c \in metas /\ Permitted(n, c)
  /\ locks' = [locks EXCEPT ![n] = @ \ {c}]
  /\ UNCHANGED <<comparisons, gap, mounts, metaVars, disk, bgVars>>

CreateConfig(n, c) ==
  /\ Call(n, "CreateConfig") /\ n \in Root /\ c \notin metas
  /\ metas' = metas \cup {c}
  /\ UNCHANGED <<locks, comparisons, gap, mounts, counter, loaded, snaps, disk, bgVars>>

(* Client::delete_config passes its checks.                                *)
MayDeleteConfig(n, c) ==
  c \in metas /\ n \in Root /\ LockCheck(n, c) /\ counter[c] = 0

(* MetaSnappers::deleteConfig removes the snapshots, the config and the    *)
(* MetaSnapper with its Snapper.                                           *)
DeleteConfig(n, c) ==
  /\ Call(n, "DeleteConfig") /\ MayDeleteConfig(n, c)
  /\ metas' = metas \ {c}
  /\ loaded' = loaded \ {c}
  /\ snaps' = [snaps EXCEPT ![c] = {}]
  /\ disk' = [disk EXCEPT ![c] = {}]
  /\ UNCHANGED <<locks, comparisons, gap, mounts, counter, bgVars>>

(* Snapper::deleteConfig works on a Snapper of its own: when it gives up,  *)
(* some snapshots are gone and the list of the loaded Snapper is stale.    *)
DeleteConfigFails(n, c) ==
  /\ "delete_config" \in Fault
  /\ Call(n, "DeleteConfig") /\ MayDeleteConfig(n, c)
  /\ \E left \in SUBSET disk[c] : disk' = [disk EXCEPT ![c] = left]
  /\ UNCHANGED <<locks, comparisons, gap, mounts, metaVars, bgVars>>

-----------------------------------------------------------------------------
(* Snapshots                                                               *)

(* The methods that call getSnapper() once the caller is permitted.        *)
LoadingMethods ==
  {"ListSnapshots", "ListSnapshotsAtTime", "GetSnapshot", "SetSnapshot",
   "CreateSingleSnapshot", "CreatePreSnapshot", "CreatePostSnapshot",
   "MountSnapshot", "UmountSnapshot", "GetMountPoint", "DeleteComparison", "GetFiles"}

(* Such a handler that reads, or throws after getSnapper().                *)
Read(n, c) ==
  /\ \E m \in LoadingMethods : Call(n, m)
  /\ c \in metas /\ Permitted(n, c)
  /\ GetSnapper(c)
  /\ UNCHANGED <<locks, comparisons, gap, mounts, metas, counter, disk, bgVars>>

(* A call that is refused, or that does not need the Snapper object.       *)
Reply(n) ==
  /\ \E m \in Method : Call(n, m)
  /\ UNCHANGED <<locks, comparisons, gap, mounts, metaVars, disk, bgVars>>

(* getSnapper() and Snapshots::createHelper.                               *)
AddEntry(c, s) ==
  /\ loaded' = loaded \cup {c}
  /\ snaps' = [snaps EXCEPT ![c] = Entries(c) \cup {s}]
  /\ disk' = [disk EXCEPT ![c] = @ \cup {s}]

CreateSnapshot(n, c, type) ==
  /\ \/ type = "single" /\ Call(n, "CreateSingleSnapshot")
     \/ type = "pre" /\ Call(n, "CreatePreSnapshot")
  /\ c \in metas /\ Permitted(n, c)
  /\ \E k \in NextNumber(Entries(c), disk[c]) :
       AddEntry(c, [num |-> k, type |-> type, pre_num |-> 0])
  /\ UNCHANGED <<locks, comparisons, gap, mounts, metas, counter, bgVars>>

(* Backgrounds::add_task                                                   *)
AddTask(c, p, k) ==
  /\ Len(bg) < MaxTasks
  /\ bg' = Append(bg, [config |-> c, num1 |-> p, num2 |-> k])
  /\ IncUseCount(c)
  /\ UNCHANGED bgpc

(* The second alternative: no background comparison is wanted, or          *)
(* setUserdata threw before add_task although the snapshot is there.       *)
CreatePostSnapshot(n, c, p) ==
  /\ Call(n, "CreatePostSnapshot") /\ c \in metas /\ Permitted(n, c)
  /\ p \in Numbers({s \in Entries(c) : s.type = "pre"})
  /\ FindPost(Entries(c), p) = {}
  /\ \E k \in NextNumber(Entries(c), disk[c]) :
       /\ AddEntry(c, [num |-> k, type |-> "post", pre_num |-> p])
       /\ \/ c \in Background /\ AddTask(c, p, k)
          \/ UNCHANGED <<counter, bgVars>>
  /\ UNCHANGED <<locks, comparisons, gap, mounts, metas>>

(* Client::delete_snapshots passes the checks it makes before its loop.    *)
MayDelete(n, c) ==
  c \in metas /\ Permitted(n, c) /\ LockCheck(n, c) /\ counter[c] = 0

(* D: the numbers deleted before the loop ends or throws.  T: at most one  *)
(* more, gone from disk with its info.xml when deleteSnapshot throws       *)
(* IOErrorException, so it stays in the list.  deleteSnapshot visits the   *)
(* directory of every listed snapshot: with a stale list it always throws. *)
DeleteSnapshots(n, c, D, T) ==
  /\ Call(n, "DeleteSnapshots") /\ MayDelete(n, c)
  /\ D \cup T \subseteq Numbers(Entries(c)) \cap Numbers(disk[c])
  /\ \A k \in D \cup T : ~InUse(c, k)
  /\ D # {} => Numbers(Entries(c)) \subseteq Numbers(disk[c])
  /\ \/ T = {}
     \/ "io" \in Fault
     \/ ~(Numbers(Entries(c)) \subseteq Numbers(disk[c]))
  /\ loaded' = loaded \cup {c}
  /\ snaps' = [snaps EXCEPT ![c] = {s \in Entries(c) : s.num \notin D}]
  /\ disk' = [disk EXCEPT ![c] = {s \in @ : s.num \notin D \cup T}]
  /\ UNCHANGED <<locks, comparisons, gap, mounts, metas, counter, bgVars>>

(* Client::mount_snapshot and umount_snapshot with user_request false; the *)
(* kernel's side of it is module SnapshotMounts.                           *)
MountSnapshot(n, c, k) ==
  /\ Call(n, "MountSnapshot") /\ c \in metas /\ Permitted(n, c)
  /\ k \in Numbers(Entries(c)) /\ mounts[n][c][k] < MaxMounts
  /\ GetSnapper(c)
  /\ mounts' = [mounts EXCEPT ![n][c][k] = @ + 1]
  /\ UNCHANGED <<locks, comparisons, gap, metas, counter, disk, bgVars>>

UmountSnapshot(n, c, k) ==
  /\ Call(n, "UmountSnapshot") /\ c \in metas /\ Permitted(n, c)
  /\ k \in Numbers(Entries(c))
  /\ GetSnapper(c)
  /\ mounts' = [mounts EXCEPT ![n][c][k] = IF @ > 1 THEN @ - 1 ELSE 0]
  /\ UNCHANGED <<locks, comparisons, gap, metas, counter, disk, bgVars>>

-----------------------------------------------------------------------------
(* Comparisons                                                             *)

(* Comparison::Comparison finds two different snapshots.                   *)
Legal(c, p) == p[1] # p[2] /\ {p[1], p[2]} \subseteq Numbers(Entries(c)) \cup {0}

(* Client::create_comparison up to lock.unlock(): the RefHolder counts.    *)
BeginComparisonUncounted(n, c, p) ==
  /\ Call(n, "CreateComparison") /\ c \in metas /\ Permitted(n, c)
  /\ Cardinality(comparisons) + Cardinality(gap) < Cardinality(Addr)
  /\ GetSnapper(c)
  /\ gap' = gap \cup {[client |-> n, config |-> c, num1 |-> p[1], num2 |-> p[2],
                       legal |-> Legal(c, p)]}
  /\ UNCHANGED <<locks, comparisons, mounts, metas, counter, disk, bgVars>>
BeginComparison(n, c, p) ==
  /\ Call(n, "CreateComparison") /\ c \in metas /\ Permitted(n, c)
  /\ Cardinality(comparisons) + Cardinality(gap) < Cardinality(Addr)
  /\ GetSnapper(c)
  /\ gap' = gap \cup {[client |-> n, config |-> c, num1 |-> p[1], num2 |-> p[2],
                       legal |-> Legal(c, p)]}
  /\ IncUseCount(c)
  /\ UNCHANGED <<locks, comparisons, mounts, metas, disk, bgVars>>

(* `new Comparison' throws: no such snapshot, or an IOErrorException.      *)
(* ~RefHolder gives the use back without big_mutex.                        *)
ComparisonFails(g) ==
  /\ daemon = "running"
  /\ ~g.legal \/ "io" \in Fault
  /\ gap' = gap \ {g}
  /\ DecUseCount(g.config)
  /\ UNCHANGED <<client, queued, locks, comparisons, mounts, metas, loaded, snaps,
                 disk, bgVars, mainVars>>

(* The worker of a zombie meets an interruption point in cmpDirs: it ends  *)
(* and the tasks still in its queue are never run.                         *)
ComparisonInterrupted(g) ==
  /\ daemon = "running" /\ g.legal /\ client[g.client] = "zombie"
  /\ gap' = gap \ {g}
  /\ DecUseCount(g.config)
  /\ client' = [client EXCEPT ![g.client] = "ended"]
  /\ queued' = [queued EXCEPT ![g.client] = 0]
  /\ UNCHANGED <<locks, comparisons, mounts, metas, loaded, snaps, disk, bgVars, mainVars>>

(* create_comparison from lock.lock() on: the comparison is the client's   *)
(* and counts in its own right, the RefHolder no longer.  The allocator's  *)
(* choice of the address is immaterial: the least free one.                *)
FinishComparison(g) ==
  /\ daemon = "running" /\ g.legal
  /\ gap' = gap \ {g}
  /\ \E a \in Addr :
       /\ \A x \in comparisons : x.addr # a
       /\ \A b \in Addr : b < a => \E x \in comparisons : x.addr = b
       /\ comparisons' = comparisons \cup
            {[addr |-> a, client |-> g.client, config |-> g.config,
              num1 |-> g.num1, num2 |-> g.num2]}
  /\ UNCHANGED <<client, queued, locks, mounts, metaVars, disk, bgVars, mainVars>>

(* Client::delete_comparison of the comparison find_comparison returns.    *)
DeleteComparison(n, x) ==
  /\ Call(n, "DeleteComparison") /\ x.client = n
  /\ x.config \in metas /\ Permitted(n, x.config) /\ x.config \in loaded
  /\ comparisons' = comparisons \ {x}
  /\ DecUseCount(x.config)
  /\ UNCHANGED <<locks, gap, mounts, metas, loaded, snaps, disk, bgVars>>

(* The interrupted worker finds its queue empty and ends.                  *)
WorkerEnds(n) ==
  /\ daemon = "running" /\ client[n] = "zombie" /\ ~Comparing(n) /\ queued[n] = 0
  /\ client' = [client EXCEPT ![n] = "ended"]
  /\ UNCHANGED <<queued, locks, comparisons, gap, mounts, metaVars, disk, bgVars, mainVars>>

-----------------------------------------------------------------------------
(* The background thread: Backgrounds::worker                              *)

BackgroundTake ==
  /\ daemon = "running" /\ bgpc = "idle" /\ bg # <<>>
  /\ bgpc' = "compare"
  /\ GetSnapper(bg[1].config)
  /\ UNCHANGED <<sessionVars, metas, counter, disk, bg, mainVars>>

BackgroundCompared ==
  /\ daemon = "running" /\ bgpc = "compare"
  /\ bgpc' = "counted"
  /\ DecUseCount(bg[1].config)
  /\ UNCHANGED <<sessionVars, metas, loaded, snaps, disk, bg, mainVars>>

BackgroundPop ==
  /\ daemon = "running" /\ bgpc = "counted"
  /\ bgpc' = "idle"
  /\ bg' = Tail(bg)
  /\ UNCHANGED <<sessionVars, metaVars, disk, mainVars>>

-----------------------------------------------------------------------------

Handler(n) ==
  \/ Reply(n)
  \/ \E c \in Config :
       \/ Read(n, c)
       \/ LockConfig(n, c) \/ UnlockConfig(n, c)
       \/ CreateConfig(n, c) \/ DeleteConfig(n, c) \/ DeleteConfigFails(n, c)
       \/ \E type \in {"single", "pre"} : CreateSnapshot(n, c, type)
       \/ \E p \in Pair : BeginComparison(n, c, p)
       \/ \E k \in Num : \/ CreatePostSnapshot(n, c, k)
                         \/ MountSnapshot(n, c, k)
                         \/ UmountSnapshot(n, c, k)
       \/ \E D \in SUBSET Num : \E T \in {{}} \cup {{k} : k \in Num \ D} :
            DeleteSnapshots(n, c, D, T)
  \/ \E x \in comparisons : DeleteComparison(n, x)

Unlocked(n) ==
  \E g \in gap :
    /\ g.client = n
    /\ ComparisonFails(g) \/ ComparisonInterrupted(g) \/ FinishComparison(g)

Worker(n) == Handler(n) \/ Unlocked(n) \/ WorkerEnds(n)

BackgroundThread == BackgroundTake \/ BackgroundCompared \/ BackgroundPop

Next ==
  \/ \E n \in Client : MethodCall(n) \/ ClientDisconnected(n) \/ Worker(n)
  \/ BackgroundThread
  \/ Periodic \/ PeriodicAborts \/ Exit \/ Crash \/ Start

Spec == Init /\ [][Next]_vars

(* MyMainLoop::periodic_timeout, when poll() is sure to return within a    *)
(* second.  While a client is active its worker may load a Snapper after   *)
(* the timeout was computed, so only zombies count then.                   *)
PeriodicTimeoutForZombies ==
  \E n \in Client : client[n] \in {"zombie", "ended"}
PeriodicTimeout ==
  \/ \E n \in Client : client[n] \in {"zombie", "ended"}
  \/ /\ \A n \in Client : client[n] = "absent"
     /\ bg # <<>> \/ \E c \in loaded : counter[c] = 0

(* The threads run, the main loop wakes up for what periodic_timeout sees  *)
(* and leaves when the idle time is up; clients and crashes owe nothing.   *)
Fairness ==
  /\ \A n \in Client : WF_vars(Worker(n))
  /\ WF_vars(BackgroundThread)
  /\ WF_vars(PeriodicTimeout /\ (Periodic \/ PeriodicAborts))
  /\ WF_vars(Exit)

FairSpec == Spec /\ Fairness

-----------------------------------------------------------------------------
(* Properties                                                              *)

(* The objects that hold a use of config c: finished comparisons, the      *)
(* RefHolders of comparisons being built, background tasks not yet         *)
(* counted down.                                                           *)
ComparisonsOf(c) == {x \in comparisons : x.config = c}
HoldersOf(c) == {g \in gap : g.config = c}
TasksOf(c) == {i \in DOMAIN bg : bg[i].config = c /\ ~(i = 1 /\ bgpc = "counted")}

(* The use count of every config is the number of objects that hold one,   *)
(* whatever clients, worker threads, the background thread and the main    *)
(* loop do in whatever order: the assertion of RefCounter::dec_use_count   *)
(* (counter > 0) never fails and no use is leaked.                         *)
UseCountExact ==
  \A c \in Config :
    counter[c] = Cardinality(ComparisonsOf(c)) + Cardinality(HoldersOf(c))
                   + Cardinality(TasksOf(c))

Alive(c, k) == c \in loaded /\ k \in Numbers(snaps[c]) \cup {0}

(* The Snapper pointers and Snapshots iterators that finished comparisons, *)
(* comparisons under construction without big_mutex and background tasks   *)
(* keep never dangle: their config is in meta_snappers, its Snapper stays  *)
(* loaded and both snapshots stay in its list.                             *)
NoDanglingReference ==
  /\ \A x \in comparisons : Alive(x.config, x.num1) /\ Alive(x.config, x.num2)
  /\ \A g \in gap : /\ g.config \in loaded
                    /\ g.legal => Alive(g.config, g.num1) /\ Alive(g.config, g.num2)
  /\ \A c \in Config : \A i \in TasksOf(c) : Alive(c, bg[i].num1) /\ Alive(c, bg[i].num2)

(* When the idle timeout is armed, so that the daemon may exit, no client, *)
(* comparison, mount record, lock or background task exists, and no config *)
(* is in use.                                                              *)
IdleMeansFree ==
  idle => /\ comparisons = {} /\ gap = {} /\ bg = <<>>
          /\ \A c \in Config : counter[c] = 0
          /\ \A n \in Client : locks[n] = {} /\ mounts[n] = NoMounts

(* What Snapshots::check complains about never comes about through the     *)
(* daemon's own creating and deleting, although a number is given out      *)
(* again once the last snapshot is deleted: numbers are unique, a post     *)
(* snapshot comes after its pre snapshot, its pre number never designates  *)
(* a snapshot of another type, and no pre snapshot has two posts.          *)
Paired(list) ==
  /\ \A s, t \in list : s.num = t.num => s = t
  /\ \A s \in list : s.type = "post" => s.pre_num < s.num
  /\ \A s, t \in list : s.type = "post" /\ t.num = s.pre_num => t.type = "pre"
  /\ \A s, t \in list :
       s.type = "post" /\ t.type = "post" /\ s.pre_num = t.pre_num => s = t
PairingOK == \A c \in Config : Paired(snaps[c]) /\ Paired(disk[c])

(* The mounts recorded for a client can be given back when it goes, so the *)
(* destructor Client::~Client does not throw: no DeleteSnapshots of any    *)
(* client, no reload of the list and no failed deletion takes the snapshot *)
(* away.  (DeleteConfig does: see the README.)                             *)
MountsResolve ==
  \A n \in Client : \A c \in Config : \A k \in Num :
    mounts[n][c][k] > 0 => c \in metas /\ k \in Numbers(disk[c]) \cap Numbers(Entries(c))

(* doc/dbus-protocol.txt on LockConfig: a config or one of its snapshots   *)
(* disappears only by a call of a client such that no other connected      *)
(* client holds the config's lock; with two holders nothing is deleted.    *)
Disappears(c) == \/ c \in metas /\ c \notin metas'
                 \/ \E k \in Numbers(disk[c]) : k \notin Numbers(disk'[c])
RemovalsRespectLocks ==
  \A c \in Config : Disappears(c) =>
    \E n \in Client :
      /\ queued'[n] < queued[n]
      /\ \A m \in Client \ {n} : client[m] = "active" => c \notin locks[m]
LockRespected == [][RemovalsRespectLocks]_vars

(* A client that is gone from the bus is eventually removed, whatever      *)
(* tasks it left in its queue and wherever its worker was.                 *)
ZombieReaped == \A n \in Client : client[n] \in {"zombie", "ended"} ~> client[n] = "absent"

(* Once every client has disconnected for good, all uses are given back,   *)
(* so nothing stays undeletable for ever.                                  *)
UsesReturn ==
  <>[](\A n \in Client : client[n] # "active")
    => <>[](bg = <<>> /\ \A c \in Config : counter[c] = 0)

(* Without clients the daemon goes away: periodic runs again after the     *)
(* last zombie and the last background comparison are gone, whichever goes *)
(* first.  (With delete_config it may not: see the README.)                *)
Quiesces == <>[](\A n \in Client : client[n] = "absent") => []<>(daemon # "running")

=============================================================================
