--------------------------- MODULE SnapshotMounts ---------------------------
(***************************************************************************)
(* The mount bookkeeping of one snapshot on a file system that really      *)
(* mounts (LVM, ext4): Snapshot::mountFilesystemSnapshot and               *)
(* umountFilesystemSnapshot, their callers, and the kernel's mount.        *)
(*                                                                         *)
(* The method handlers and ~Client hold big_mutex, a comparison does not:  *)
(* it mounts and umounts from a client's worker or from the background     *)
(* thread while others run.  The fields of Snapshot have no mutex, so      *)
(* every test, read and write of them is a step of its own.                *)
(***************************************************************************)
EXTENDS Integers, FiniteSetsExt

CONSTANTS
  Client,      \* slots for D-Bus clients
  Bg,          \* the background comparison thread
  Main,        \* the main loop, which runs ~Client
  Nobody,      \* nobody holds big_mutex
  Op,          \* what the threads do in a run: see Operations
  Fault,       \* "mount": mount(2) fails; "interrupt": a zombie's comparison
               \* is interrupted; "stray": a client umounts what it has not
               \* mounted
  Quick,       \* clients never hold a mount over 30 s without other calls
  Width,       \* mount_use_count wraps at this value (2^32 in the code)
  MaxMounts    \* bound on the mounts recorded for one client

Operations == {"mount", "umount", "user_mount", "user_umount", "compare", "background"}

ASSUME MountConstants ==
  /\ IsFiniteSet(Client)
  /\ Bg \notin Client /\ Main \notin Client /\ Bg # Main
  /\ Nobody \notin Client \cup {Bg, Main}
  /\ Op \subseteq Operations
  /\ Fault \subseteq {"mount", "interrupt", "stray"}
  /\ Quick \in BOOLEAN
  /\ Width \in Nat /\ MaxMounts \in Nat /\ MaxMounts < Width

Thread == Client \cup {Bg, Main}

VARIABLES
  client,    \* "absent", "active" or "zombie"
  record,    \* Client::mounts of each client, for this snapshot
  op,        \* what each thread is doing
  pc,        \* where it is in it
  reg,       \* the value of mount_use_count it has read
  up,        \* it is mounting, not umounting
  big,       \* the thread that holds big_mutex over several steps
  loaded,    \* the Snapper object, and the Snapshot in it, exist
  exists,    \* the snapshot exists
  checked,   \* Snapshot::mount_checked
  user,      \* Snapshot::mount_user_request
  count,     \* Snapshot::mount_use_count
  mounted,   \* the kernel's mount of the snapshot
  asked      \* a user-request mount is in force (the requests' history)

threadVars == <<op, pc, reg, up>>
fieldVars == <<checked, user, count>>
vars == <<client, record, threadVars, big, loaded, exists, fieldVars, mounted, asked>>

TypeOK ==
  /\ client \in [Client -> {"absent", "active", "zombie"}]
  /\ record \in [Client -> 0..MaxMounts]
  /\ op \in [Thread -> Operations \cup {"none", "release"}]
  /\ pc \in [Thread -> {"idle", "test", "probe", "flag", "read", "write", "decide", "look",
                      "kernel", "compare"}]
  /\ reg \in [Thread -> 0..Width - 1]
  /\ up \in [Thread -> BOOLEAN]
  /\ big \in Thread \cup {Nobody}
  /\ loaded \in BOOLEAN /\ exists \in BOOLEAN
  /\ checked \in BOOLEAN /\ user \in BOOLEAN /\ count \in 0..Width - 1
  /\ mounted \in BOOLEAN /\ asked \in BOOLEAN

Init ==
  /\ client = [n \in Client |-> "absent"]
  /\ record = [n \in Client |-> 0]
  /\ op = [t \in Thread |-> "none"]
  /\ pc = [t \in Thread |-> "idle"]
  /\ reg = [t \in Thread |-> 0]
  /\ up = [t \in Thread |-> FALSE]
  /\ big = Nobody
  /\ loaded = FALSE /\ exists = TRUE
  /\ checked = FALSE /\ user = FALSE /\ count = 0
  /\ mounted = FALSE /\ asked = FALSE

-----------------------------------------------------------------------------
(* Clients and handlers                                                    *)

Connect(n) ==
  /\ client[n] = "absent"
  /\ client' = [client EXCEPT ![n] = "active"]
  /\ UNCHANGED <<record, threadVars, big, loaded, exists, fieldVars, mounted, asked>>

Disconnect(n) ==
  /\ client[n] = "active"
  /\ client' = [client EXCEPT ![n] = "zombie"]
  /\ UNCHANGED <<record, threadVars, big, loaded, exists, fieldVars, mounted, asked>>

(* Thread t enters mountFilesystemSnapshot or umountFilesystemSnapshot     *)
(* on behalf of operation o, with getSnapper() done.                       *)
Enter(t, o) ==
  /\ pc[t] = "idle" /\ big = Nobody /\ exists
  /\ op' = [op EXCEPT ![t] = o]
  /\ pc' = [pc EXCEPT ![t] = "test"]
  /\ up' = [up EXCEPT ![t] = o \in {"mount", "user_mount", "compare"}]
  /\ loaded' = TRUE
  /\ UNCHANGED <<client, record, reg, exists, fieldVars, mounted>>

(* Client::mount_snapshot and umount_snapshot, holding big_mutex           *)
MountHandler(n, o) ==
  /\ o \in Op \ {"compare", "background"} /\ client[n] = "active"
  /\ o = "mount" => record[n] < MaxMounts
  /\ o = "umount" => record[n] > 0 \/ "stray" \in Fault
  /\ Enter(n, o)
  /\ big' = n
  /\ asked' = (o = "user_mount" \/ (asked /\ o # "user_umount"))

(* Comparison::create called without big_mutex; its Snapper has a use      *)
CompareStart(t) ==
  /\ t = Bg => "background" \in Op
  /\ t # Bg => "compare" \in Op /\ client[t] = "active"
  /\ Enter(t, "compare")
  /\ UNCHANGED <<big, asked>>

(* Client::~Client of a zombie whose worker has ended: one                 *)
(* umountFilesystemSnapshot(false) per recorded mount                      *)
Zombie(n) == client[n] = "zombie" /\ pc[n] = "idle" /\ record[n] > 0
Release(n) ==
  /\ Zombie(n)
  /\ Enter(Main, "release")
  /\ big' = Main
  /\ UNCHANGED asked

RemoveZombie(n) ==
  /\ client[n] = "zombie" /\ pc[n] = "idle" /\ record[n] = 0 /\ big = Nobody
  /\ client' = [client EXCEPT ![n] = "absent"]
  /\ UNCHANGED <<record, threadVars, big, loaded, exists, fieldVars, mounted, asked>>

-----------------------------------------------------------------------------
(* The steps inside Snapshot                                               *)

UserRequest(t) == op[t] \in {"user_mount", "user_umount"}

(* if (!mount_checked)                                                     *)
Test(t) ==
  /\ pc[t] = "test"
  /\ pc' = [pc EXCEPT ![t] = IF ~checked THEN "probe"
                             ELSE IF UserRequest(t) THEN "flag" ELSE "read"]
  /\ UNCHANGED <<client, record, op, reg, up, big, loaded, exists, fieldVars, mounted, asked>>

(* mount_user_request = isSnapshotMounted(num); mount_checked = true       *)
Probe(t) ==
  /\ pc[t] = "probe"
  /\ user' = mounted /\ checked' = TRUE
  /\ pc' = [pc EXCEPT ![t] = IF UserRequest(t) THEN "flag" ELSE "read"]
  /\ UNCHANGED <<client, record, op, reg, up, big, loaded, exists, count, mounted, asked>>

(* mount_user_request = true, or false                                     *)
Flag(t) ==
  /\ pc[t] = "flag"
  /\ user' = (op[t] = "user_mount")
  /\ pc' = [pc EXCEPT ![t] = IF up[t] THEN "look" ELSE "decide"]
  /\ UNCHANGED <<client, record, op, reg, up, big, loaded, exists, checked, count, mounted, asked>>

(* mount_use_count++ and -- are a load and a store                         *)
ReadCount(t) ==
  /\ pc[t] = "read"
  /\ reg' = [reg EXCEPT ![t] = count]
  /\ pc' = [pc EXCEPT ![t] = "write"]
  /\ UNCHANGED <<client, record, op, up, big, loaded, exists, fieldVars, mounted, asked>>

Return(t) ==
  /\ op' = [op EXCEPT ![t] = "none"]
  /\ pc' = [pc EXCEPT ![t] = "idle"]
  /\ big' = IF big = t THEN Nobody ELSE big

StoredKeepsReleased(t) ==
  (reg[t] + (IF up[t] THEN 1 ELSE IF op[t] = "release" THEN 0 ELSE -1)) % Width
Stored(t) == (reg[t] + (IF up[t] THEN 1 ELSE -1)) % Width

(* Client::remove_mount                                                    *)
RemoveMountUnchecked(n) == record[n] - 1
RemoveMount(n) == IF record[n] > 0 THEN record[n] - 1 ELSE 0

(* The count is stored; a mount goes on to the kernel, an umount without   *)
(* user_request is over: Client::remove_mount, or the next one of ~Client. *)
WriteCount(t) ==
  /\ pc[t] = "write"
  /\ reg' = [reg EXCEPT ![t] = 0]
  /\ count' = Stored(t)
  /\ \/ /\ up[t]
        /\ pc' = [pc EXCEPT ![t] = "look"]
        /\ UNCHANGED <<record, op, big>>
     \/ /\ op[t] = "umount"
        /\ record' = [record EXCEPT ![t] = RemoveMount(t)]
        /\ Return(t)
     \/ /\ op[t] = "release"
        /\ \E n \in Client : Zombie(n) /\ record' = [record EXCEPT ![n] = @ - 1]
        /\ Return(t)
     \/ /\ ~up[t] /\ op[t] = "compare"
        /\ Return(t)
        /\ UNCHANGED record
  /\ UNCHANGED <<client, up, loaded, exists, checked, user, mounted, asked>>

(* if (user_request && mount_use_count == 0)                               *)
DecideAlways(t) ==
  /\ pc[t] = "decide"
  /\ pc' = [pc EXCEPT ![t] = "look"]
  /\ UNCHANGED <<client, record, op, reg, up, big, loaded, exists, fieldVars, mounted, asked>>
Decide(t) ==
  /\ pc[t] = "decide"
  /\ \/ count = 0 /\ pc' = [pc EXCEPT ![t] = "look"] /\ UNCHANGED <<op, big>>
     \/ count # 0 /\ Return(t)
  /\ UNCHANGED <<client, record, reg, up, loaded, exists, fieldVars, mounted, asked>>

(* mountFilesystemSnapshot is done: Client::add_mount, or cmpDirs starts.  *)
Mounted(t) ==
  \/ /\ op[t] = "compare"
     /\ pc' = [pc EXCEPT ![t] = "compare"]
     /\ UNCHANGED <<record, op, big>>
  \/ /\ op[t] # "compare"
     /\ record' = IF op[t] = "mount" THEN [record EXCEPT ![t] = @ + 1] ELSE record
     /\ Return(t)

(* Lvm::mountSnapshot and umountSnapshot: if (isSnapshotMounted(num))      *)
Look(t) ==
  /\ pc[t] = "look"
  /\ \/ mounted # up[t] /\ pc' = [pc EXCEPT ![t] = "kernel"] /\ UNCHANGED <<record, op, big>>
     \/ mounted /\ up[t] /\ Mounted(t)
     \/ ~mounted /\ ~up[t] /\ Return(t) /\ UNCHANGED record
  /\ UNCHANGED <<client, reg, up, loaded, exists, fieldVars, mounted, asked>>

(* mount(2), and umount(2) of a directory that no comparison has open      *)
KernelMount(t) ==
  /\ pc[t] = "kernel" /\ up[t]
  /\ mounted' = TRUE
  /\ Mounted(t)
  /\ UNCHANGED <<client, reg, up, loaded, exists, fieldVars, asked>>

KernelUmount(t) ==
  /\ pc[t] = "kernel" /\ ~up[t] /\ \A u \in Thread : pc[u] # "compare"
  /\ mounted' = FALSE
  /\ Return(t)
  /\ UNCHANGED <<client, record, reg, up, loaded, exists, fieldVars, asked>>

(* MountSnapshotFailedException: the count stays incremented (from the     *)
(* background thread it ends the process, and this module).                *)
(* UmountSnapshotFailedException: a comparison has the directory open.     *)
KernelFails(t) ==
  /\ pc[t] = "kernel" /\ t # Bg
  /\ IF up[t] THEN "mount" \in Fault ELSE \E u \in Thread : pc[u] = "compare"
  /\ Return(t)
  /\ asked' = (asked /\ op[t] # "user_mount")
  /\ UNCHANGED <<client, record, reg, up, loaded, exists, fieldVars, mounted>>

(* cmpDirs is done: Comparison::umount                                     *)
Compared(t) ==
  /\ pc[t] = "compare"
  /\ up' = [up EXCEPT ![t] = FALSE]
  /\ pc' = [pc EXCEPT ![t] = "test"]
  /\ UNCHANGED <<client, record, op, reg, big, loaded, exists, fieldVars, mounted, asked>>

(* An interruption point in cmpDirs throws: Comparison::umount is skipped. *)
CompareInterrupted(n) ==
  /\ "interrupt" \in Fault
  /\ pc[n] = "compare" /\ client[n] = "zombie"
  /\ Return(n)
  /\ UNCHANGED <<client, record, reg, up, loaded, exists, fieldVars, mounted, asked>>

-----------------------------------------------------------------------------
(* The Snapper object goes away; the snapshot goes away                    *)

Comparing == {t \in Thread : op[t] = "compare"}

Fresh == checked' = FALSE /\ user' = FALSE /\ count' = 0

(* Snapshot::handleUmountFilesystemSnapshot                                *)
HandleUmountForgetsUser == mounted /\ ~(checked /\ count = 0)
HandleUmountNever == mounted
HandleUmount == mounted /\ ~(checked /\ ~user /\ count = 0)

(* MetaSnapper::unload: 30 s without a call and without a use; recorded    *)
(* mounts are no use.                                                      *)
Unload ==
  /\ loaded /\ big = Nobody /\ Comparing = {}
  /\ Quick => \A n \in Client : record[n] = 0
  /\ loaded' = FALSE
  /\ mounted' = HandleUmount
  /\ Fresh
  /\ UNCHANGED <<client, record, threadVars, big, exists, asked>>

(* Client::delete_snapshots: not in use, umounted first                    *)
DeleteSnapshot ==
  /\ exists /\ big = Nobody /\ Comparing = {}
  /\ \A n \in Client : record[n] = 0
  /\ \E n \in Client : client[n] = "active"
  /\ exists' = FALSE /\ mounted' = FALSE /\ asked' = FALSE /\ loaded' = TRUE
  /\ Fresh
  /\ UNCHANGED <<client, record, threadVars, big>>

(* A snapshot is created that gets the same number again.                  *)
CreateSnapshot ==
  /\ ~exists /\ big = Nobody
  /\ \E n \in Client : client[n] = "active"
  /\ exists' = TRUE /\ loaded' = TRUE
  /\ UNCHANGED <<client, record, threadVars, big, fieldVars, mounted, asked>>

Step(t) ==
  \/ Test(t) \/ Probe(t) \/ Flag(t) \/ ReadCount(t) \/ WriteCount(t)
  \/ Decide(t) \/ Look(t) \/ KernelMount(t) \/ KernelUmount(t) \/ KernelFails(t)
  \/ Compared(t)

Next ==
  \/ \E n \in Client :
       \/ Connect(n) \/ Disconnect(n) \/ CompareInterrupted(n)
       \/ \E o \in Op : MountHandler(n, o)
       \/ Release(n) \/ RemoveZombie(n)
  \/ \E t \in Client \cup {Bg} : CompareStart(t)
  \/ \E t \in Thread : Step(t)
  \/ Unload \/ DeleteSnapshot \/ CreateSnapshot

Spec == Init /\ [][Next]_vars

(* The threads run, the main loop reaps zombies and unloads what is not    *)
(* used; what clients do is their business.                                *)
FairSpec ==
  /\ Spec
  /\ \A t \in Thread : WF_vars(Step(t))
  /\ \A n \in Client : WF_vars(Release(n)) /\ WF_vars(RemoveZombie(n))
  /\ WF_vars(Unload)

-----------------------------------------------------------------------------
(* Properties                                                              *)

(* A thread between its increment of the use count and the decrement or    *)
(* the record that answers it                                              *)
Holding(t) ==
  \/ op[t] \in {"mount", "compare"} /\ up[t] /\ pc[t] \in {"look", "kernel", "compare"}
  \/ op[t] = "compare" /\ ~up[t]

(* While the Snapper stays loaded, mount_use_count is the number of mounts *)
(* recorded for all clients plus the comparisons that hold one: the        *)
(* records of Client::mounts and the counter in libsnapper, which only     *)
(* mount_snapshot, umount_snapshot and ~Client keep in step, agree.        *)
CountExact ==
  loaded => count = (MapThenSumSet(LAMBDA n : record[n], Client)
                       + Cardinality({t \in Thread : Holding(t)})) % Width

(* What a client has mounted stays mounted until it umounts it or goes,    *)
(* whatever other clients umount, with or without user_request.            *)
InUseStaysMounted == (\E n \in Client : record[n] > 0) => mounted

(* A mount made with user_request stays until a user-request umount: the   *)
(* daemon's own umounting when it unloads the Snapper leaves it alone,     *)
(* also after the flag was lost by an earlier unload and probed again.     *)
UserMountKept ==
  asked /\ (\A t \in Thread : op[t] # "user_mount") => mounted

(* doc/dbus-protocol.txt: "Snapshots mounted with user-request set to      *)
(* false will be unmounted (delayed) after the client disconnects."        *)
NobodyNeedsIt ==
  /\ \A n \in Client : client[n] = "absent"
  /\ Comparing = {}
  /\ ~asked
LeftoverUnmounted == NobodyNeedsIt ~> (~mounted \/ ~NobodyNeedsIt)

=============================================================================
