--------------------------- MODULE SnapshotStore ---------------------------
(***************************************************************************)
(* The snapshots of one config on disk and in the daemon's memory, system  *)
(* call by system call (src/snapper/Snapshot.cc with the Btrfs and Lvm     *)
(* back ends, Comparison.cc for the saved file lists).  Calls hold         *)
(* big_mutex, so one is served at a time; comparisons are built with the   *)
(* mutex released and keep the config in use.  A system call may fail and  *)
(* the daemon may die between any two of them.                             *)
(***************************************************************************)
EXTENDS Integers, FiniteSetsExt, Functions

CONSTANTS
  Num,         \* snapshot numbers (bound on nextNumber)
  BackEnds,    \* the back ends a config may have
  Fault,       \* the faults that may happen: see FaultNames
  MaxFaults,   \* bound on their number
  MaxBirths    \* bound on how often a number is given out

(* "fail": a system call fails; "crash": the daemon dies; "skip": a        *)
(* snapshot that is there cannot be read while the list is loaded.         *)
FaultNames == {"fail", "crash", "skip"}

ASSUME StoreConstants ==
  /\ Num \subseteq Nat \ {0} /\ IsFiniteSet(Num)
  /\ BackEnds \subseteq {"btrfs", "lvm"} /\ Fault \subseteq FaultNames
  /\ MaxFaults \in Nat /\ MaxBirths \in Nat

VARIABLES
  fs,        \* the back end of the config
  disk,      \* what is stored: see Disk
  loaded,    \* the daemon has a Snapper object for the config
  entries,   \* its Snapshots, without number 0
  op,        \* the call being served, and where it is
  building,  \* comparisons being made, with their numbers' births
  births,    \* how often each number has been given out
  faults     \* how many faults have happened

vars == <<fs, disk, loaded, entries, op, building, births, faults>>

(* The text of a snapshot: as first written by createHelper; with uid,     *)
(* cleanup and userdata; changed by SetSnapshot; with everything but the   *)
(* userdata setUserdata has rejected.                                      *)
Text == {"first", "full", "changed", "partial"}
Info == [type : {"single", "pre", "post"}, pre_num : Num \cup {0}, text : Text]

(* infos: .snapshots exists; dirs: its directories <num>; info: their      *)
(* info.xml; volume: the subvolumes <num>/snapshot, the logical volumes    *)
(* <lv>-snapshot<num>; point: the mount points <num>/snapshot of Lvm; tmp: *)
(* directories with a temporary file left over; lists: filelist-<low>.txt  *)
(* in directory <high>, with the births of the snapshots it is about.      *)
List == [low : Num, high : Num, births : (1..MaxBirths) \X (1..MaxBirths)]

TypeOK ==
  /\ fs \in BackEnds
  /\ DOMAIN disk = {"infos", "dirs", "info", "volume", "point", "tmp", "lists"}
  /\ disk.infos \in BOOLEAN
  /\ disk.dirs \cup disk.volume \cup disk.point \cup disk.tmp \subseteq Num
  /\ DOMAIN disk.info \subseteq disk.dirs
  /\ \A n \in DOMAIN disk.info : disk.info[n] \in Info
  /\ disk.lists \subseteq List /\ building \subseteq List
  /\ loaded \in BOOLEAN /\ DOMAIN entries \subseteq Num
  /\ \A n \in DOMAIN entries : entries[n] \in [info : Info, info_modified : BOOLEAN]
  /\ births \in [Num -> 0..MaxBirths] /\ faults \in 0..MaxFaults

-----------------------------------------------------------------------------
(* The disk                                                                *)

NoInfo == [n \in {} |-> 0]
EmptyDisk == [infos |-> TRUE, dirs |-> {}, info |-> NoInfo, volume |-> {},
              point |-> {}, tmp |-> {}, lists |-> {}]

(* unlinkat with AT_REMOVEDIR: fails, which is ignored, unless it is empty *)
HasFiles(d, n) ==
  \/ n \in DOMAIN d.info \/ n \in d.tmp \/ n \in d.point
  \/ \E l \in d.lists : l.high = n
  \/ fs = "btrfs" /\ n \in d.volume
RmTree(d, n) == [d EXCEPT !.dirs = @ \ {n}]
RmDir(d, n) == IF HasFiles(d, n) THEN d ELSE [d EXCEPT !.dirs = @ \ {n}]

(* Filesystem::checkSnapshot                                               *)
CheckSnapshot(d, n) == n \in d.volume /\ (fs = "btrfs" => n \in d.dirs)

(* Snapshots::read would add these                                         *)
Readable(d) == IF d.infos THEN {n \in DOMAIN d.info : CheckSnapshot(d, n)} ELSE {}
Durable == Restrict(disk.info, Readable(disk))

FindPost(n) == {m \in DOMAIN entries : entries[m].info.type = "post" /\ entries[m].info.pre_num = n}

(* Filesystem::openInfoDir can open the directory                          *)
CanOpen(n) == disk.infos /\ n \in disk.dirs

-----------------------------------------------------------------------------
(* One call at a time                                                      *)

Idle == [kind |-> "none", pc |-> "idle", num |-> 0, result |-> "none",
         info |-> [type |-> "single", pre_num |-> 0, text |-> "first"], valid |-> TRUE]
Fails == "fail" \in Fault /\ faults < MaxFaults /\ faults' = faults + 1
Works == UNCHANGED faults
Goto(pc) == op' = [op EXCEPT !.pc = pc]
ReplyWith(r) == op' = [op EXCEPT !.pc = "reply", !.result = r]

storeIdle == <<fs, loaded, entries, building, births>>

Init ==
  /\ fs \in BackEnds /\ disk = EmptyDisk
  /\ loaded = FALSE /\ entries = NoInfo
  /\ op = Idle /\ building = {}
  /\ births = [n \in Num |-> 0] /\ faults = 0

(* Snapshots::nextNumber, from the last entry upwards                      *)
NextNumberOfList == {n \in Num : n = 1 + Max(DOMAIN entries \cup {0})}
NextNumber ==
  LET free == {n \in Num : /\ \A m \in DOMAIN entries : n > m
                           /\ ~CheckSnapshot(disk, n) /\ n \notin disk.dirs}
  IN  {n \in free : \A m \in free : n <= m}

(* CreateSingleSnapshot, CreatePreSnapshot, CreatePostSnapshot; userdata   *)
(* may be something setUserdata will reject.                               *)
Create(type, p, valid) ==
  /\ op = Idle /\ loaded /\ disk.infos
  /\ IF type = "post"
     THEN p \in DOMAIN entries /\ entries[p].info.type = "pre" /\ FindPost(p) = {}
     ELSE p = 0
  /\ \E n \in NextNumber :
       /\ births[n] < MaxBirths
       /\ \/ /\ Works
             /\ disk' = [disk EXCEPT !.dirs = @ \cup {n}]
             /\ births' = [births EXCEPT ![n] = @ + 1]
             /\ op' = [Idle EXCEPT !.kind = "create", !.pc = "create_volume", !.num = n, !.valid = valid,
                                   !.info = [type |-> type, pre_num |-> p, text |-> "first"]]
          \/ /\ Fails
             /\ op' = [Idle EXCEPT !.kind = "create", !.pc = "reply", !.result = "error"]
             /\ UNCHANGED <<disk, births>>
  /\ UNCHANGED <<fs, loaded, entries, building>>

(* createHelper: the back end's createSnapshot.  When that fails the       *)
(* directory goes again, but not after the IOErrorException of a directory *)
(* that cannot be opened, which is not caught there ...                    *)
CreateVolume ==
  /\ op.pc = "create_volume"
  /\ \/ /\ Works /\ op.num \notin disk.volume
        /\ disk' = [disk EXCEPT !.volume = @ \cup {op.num}]
        /\ Goto(IF fs = "lvm" THEN "create_point" ELSE "write_info")
     \/ /\ IF op.num \in disk.volume THEN Works ELSE Fails
        /\ disk' = RmDir(disk, op.num)
        /\ ReplyWith("error")
     \/ /\ Fails /\ fs = "btrfs"
        /\ UNCHANGED disk
        /\ ReplyWith("error")
  /\ UNCHANGED storeIdle

(* ... with the mount point of Lvm, whose failure leaves the volume behind *)
CreatePoint ==
  /\ op.pc = "create_point"
  /\ \/ /\ Works
        /\ disk' = [disk EXCEPT !.point = @ \cup {op.num}]
        /\ Goto("write_info")
     \/ /\ Fails
        /\ disk' \in {disk, RmDir(disk, op.num)}
        /\ ReplyWith("error")
  /\ UNCHANGED storeIdle

(* writeInfo writes a temporary file and renames it.                       *)
Written(d, n, i) == [d EXCEPT !.info = [m \in DOMAIN @ \cup {n} |-> IF m = n THEN i ELSE @[m]]]
NotWritten(n) == disk' \in {disk, [disk EXCEPT !.tmp = @ \cup {n}]}

(* ... and flushInfo, after which the snapshot is listed                   *)
WriteInfo ==
  /\ op.pc = "write_info"
  /\ \/ /\ Works
        /\ disk' = Written(disk, op.num, op.info)
        /\ entries' = [n \in DOMAIN entries \cup {op.num} |->
                         IF n = op.num THEN [info |-> op.info, info_modified |-> FALSE] ELSE entries[n]]
        /\ Goto("flush")
     \/ /\ Fails /\ NotWritten(op.num)
        /\ UNCHANGED entries
        /\ Goto("undo_volume")
  /\ UNCHANGED <<fs, loaded, building, births>>

(* SetSnapshot                                                             *)
Set(n, valid) ==
  /\ op = Idle /\ loaded /\ n \in DOMAIN entries
  /\ op' = [Idle EXCEPT !.kind = "set", !.pc = "flush", !.num = n, !.valid = valid,
                        !.info = [entries[n].info EXCEPT !.text = "changed"]]
  /\ UNCHANGED <<fs, disk, loaded, entries, building, births, faults>>

(* The setters have changed the entry, flushInfo may still be asked to.    *)
Forgotten(info) == [info |-> info, info_modified |-> FALSE]
Unwritten(info) == [info |-> info, info_modified |-> TRUE]

(* The setters and flushInfo, of SetSnapshot and of the calls that create  *)
Flush ==
  /\ op.pc = "flush"
  /\ LET text == IF ~op.valid THEN "partial" ELSE IF op.kind = "set" THEN "changed" ELSE "full"
         info == [op.info EXCEPT !.text = text]
     IN  \/ /\ op.valid /\ Works /\ CanOpen(op.num)
            /\ disk' = Written(disk, op.num, info)
            /\ entries' = [entries EXCEPT ![op.num] = [info |-> info, info_modified |-> FALSE]]
            /\ ReplyWith("ok")
         \/ /\ IF op.valid /\ CanOpen(op.num) THEN Fails /\ NotWritten(op.num)
                                              ELSE Works /\ UNCHANGED disk
            /\ entries' = [entries EXCEPT ![op.num] = Unwritten(info)]
            /\ ReplyWith("error")
  /\ UNCHANGED <<fs, loaded, building, births>>

(* DeleteSnapshots of one number; no comparison may use the config.        *)
Delete(n) ==
  /\ op = Idle /\ loaded /\ n \in DOMAIN entries /\ building = {}
  /\ op' = [Idle EXCEPT !.kind = "delete", !.pc = "delete_volume", !.num = n]
  /\ UNCHANGED <<fs, disk, loaded, entries, building, births, faults>>

(* The back end's deleteSnapshot, of Snapshots::deleteSnapshot and of a    *)
(* createHelper that could not write info.xml                              *)
AfterVolume == IF op.pc \in {"undo_volume", "undo_point"} THEN "undo_dir" ELSE "delete_info"
DeleteVolume ==
  /\ op.pc \in {"delete_volume", "undo_volume"}
  /\ \/ /\ Works /\ op.num \in disk.volume /\ (fs = "btrfs" => CanOpen(op.num))
        /\ disk' = [disk EXCEPT !.volume = @ \ {op.num}]
        /\ op' = [op EXCEPT !.pc = IF fs = "btrfs" THEN AfterVolume
                                   ELSE IF @ = "undo_volume" THEN "undo_point" ELSE "delete_point"]
     \/ /\ IF op.num \in disk.volume THEN Fails ELSE Works
        /\ UNCHANGED disk
        /\ ReplyWith("error")
  /\ UNCHANGED storeIdle

(* Lvm::deleteSnapshot goes on in the directory.  Nobody looks at whether  *)
(* an unlink has worked, here and below; a directory that cannot be opened *)
(* ends the call.                                                          *)
DeletePoint ==
  /\ op.pc \in {"delete_point", "undo_point"}
  /\ \/ /\ Works
        /\ disk' = RmDir([disk EXCEPT !.point = @ \ {op.num}], op.num)
        /\ Goto(AfterVolume)
     \/ /\ Fails
        /\ UNCHANGED disk
        /\ Goto(AfterVolume) \/ ReplyWith("error")
  /\ UNCHANGED storeIdle

DeleteInfo ==
  /\ op.pc = "delete_info"
  /\ \/ /\ CanOpen(op.num)
        /\ \/ Works /\ disk' = [disk EXCEPT !.info = Restrict(@, DOMAIN @ \ {op.num})]
           \/ Fails /\ UNCHANGED disk
        /\ Goto("delete_own_lists")
     \/ /\ IF CanOpen(op.num) THEN Fails ELSE Works
        /\ UNCHANGED disk
        /\ ReplyWith("error")
  /\ UNCHANGED storeIdle

(* The saved lists L are unlinked one after the other, then comes `next'.  *)
UnlinkLists(L, next) ==
  \/ \E l \in L : /\ \A k \in L : l.high <= k.high
                  /\ Works /\ disk' = [disk EXCEPT !.lists = @ \ {l}]
                  /\ UNCHANGED op
  \/ L = {} /\ Works /\ UNCHANGED disk /\ op' = next
  \/ /\ Fails
     /\ \E K \in SUBSET L : disk' = [disk EXCEPT !.lists = @ \ K]
     /\ op' = next
  \/ Fails /\ UNCHANGED disk /\ ReplyWith("error")

KeepOwnLists ==
  /\ op.pc = "delete_own_lists"
  /\ Works /\ UNCHANGED disk /\ Goto("delete_lists")
  /\ UNCHANGED storeIdle
DeleteOwnLists ==
  /\ op.pc = "delete_own_lists"
  /\ UnlinkLists({l \in disk.lists : l.high = op.num}, [op EXCEPT !.pc = "delete_lists"])
  /\ UNCHANGED storeIdle

(* filelist-<num>.txt in the directories of the entries, in their order,   *)
(* up to the first that cannot be opened                                   *)
DeleteLists ==
  /\ op.pc = "delete_lists"
  /\ LET closed == {m \in DOMAIN entries : ~CanOpen(m)}
         reached == {m \in DOMAIN entries : \A k \in closed : m < k}
     IN  UnlinkLists({l \in disk.lists : l.low = op.num /\ l.high \in reached},
                     IF closed = {} THEN [op EXCEPT !.pc = "delete_dir"]
                                    ELSE [op EXCEPT !.pc = "reply", !.result = "error"])
  /\ UNCHANGED storeIdle

DeleteDir ==
  /\ op.pc \in {"delete_dir", "undo_dir"}
  /\ \/ /\ \/ Works /\ disk' = RmDir(disk, op.num)
           \/ Fails /\ UNCHANGED disk
        /\ IF op.pc = "delete_dir"
           THEN /\ entries' = Restrict(entries, DOMAIN entries \ {op.num})
                /\ ReplyWith("ok")
           ELSE UNCHANGED entries /\ ReplyWith("error")
     \/ Fails /\ UNCHANGED <<disk, entries>> /\ ReplyWith("error")
  /\ UNCHANGED <<fs, loaded, building, births>>

Reply ==
  /\ op.pc = "reply"
  /\ op' = Idle
  /\ UNCHANGED <<fs, disk, loaded, entries, building, births, faults>>

-----------------------------------------------------------------------------
(* Comparisons: a saved list is loaded, or one is made and saved, always   *)
(* for the lower number in the directory of the higher one.                *)

Births(a, b) == <<births[a], births[b]>>

Compare(a, b) ==
  /\ loaded /\ op.kind \in {"none", "create", "set"}
  /\ a < b /\ {a, b} \subseteq DOMAIN entries \cap disk.volume
  /\ ~\E l \in disk.lists : l.low = a /\ l.high = b
  /\ building' = building \cup {[low |-> a, high |-> b, births |-> Births(a, b)]}
  /\ UNCHANGED <<fs, disk, loaded, entries, op, births, faults>>

(* Comparison::save does not look at what fprintf, fclose and rename say:  *)
(* after a failure there is no list, or one that may be cut off, which     *)
(* load takes all the same.  What is in a list is not modelled here.       *)
Saved(l) == [disk EXCEPT !.lists = {k \in @ : ~(k.low = l.low /\ k.high = l.high)} \cup {l}]
Save(l) ==
  /\ l \in building
  /\ building' = building \ {l}
  /\ \/ Works /\ disk' = Saved(l)
     \/ Fails /\ (disk' = Saved(l) \/ NotWritten(l.high))
  /\ UNCHANGED <<fs, loaded, entries, op, births>>

-----------------------------------------------------------------------------
(* The daemon's memory                                                     *)

(* Snapper::Snapper: Snapshots::initialize                                 *)
Load ==
  /\ ~loaded /\ op = Idle
  /\ \E S \in SUBSET Readable(disk) :
       /\ IF S = {} THEN Works ELSE "skip" \in Fault /\ faults < MaxFaults /\ faults' = faults + 1
       /\ entries' = [n \in Readable(disk) \ S |-> [info |-> disk.info[n], info_modified |-> FALSE]]
  /\ loaded' = TRUE
  /\ UNCHANGED <<fs, disk, op, building, births>>

Modified == {n \in DOMAIN entries : entries[n].info_modified}
Flushed(N) == [disk EXCEPT !.info = [n \in DOMAIN @ \cup N |-> IF n \in N THEN entries[n].info ELSE @[n]]]

(* Snapper::~Snapper writes what is not yet written; an exception there    *)
(* ends the daemon.                                                        *)
WriteBack ==
  /\ \A n \in Modified : CanOpen(n)
  /\ disk' = Flushed(Modified)
WriteBackFails ==
  \E m \in Modified :
    LET before == Flushed({n \in Modified : n < m})
    IN  /\ \A n \in Modified : n < m => CanOpen(n)
        /\ IF CanOpen(m)
           THEN Fails /\ disk' \in {before, [before EXCEPT !.tmp = @ \cup {m}]}
           ELSE Works /\ disk' = before

(* MetaSnapper::unload                                                     *)
Unload ==
  /\ loaded /\ op = Idle /\ building = {}
  /\ WriteBack
  /\ loaded' = FALSE /\ entries' = NoInfo
  /\ UNCHANGED <<fs, op, building, births, faults>>

(* The daemon dies, maybe in the middle of writing a file.                 *)
Die ==
  /\ loaded' = FALSE /\ entries' = NoInfo
  /\ op' = Idle /\ building' = {}
  /\ UNCHANGED <<fs, births>>
Writing == (IF op.pc \in {"write_info", "flush"} THEN {op.num} ELSE {})
             \cup {l.high : l \in building}
Crash ==
  /\ "crash" \in Fault /\ faults < MaxFaults /\ faults' = faults + 1
  /\ \E T \in SUBSET Writing : disk' = [disk EXCEPT !.tmp = @ \cup T]
  /\ Die
Abort ==
  /\ loaded /\ op = Idle /\ building = {}
  /\ WriteBackFails
  /\ Die

Call ==
  \/ \E type \in {"single", "pre", "post"}, p \in Num \cup {0}, v \in BOOLEAN : Create(type, p, v)
  \/ \E n \in Num, v \in BOOLEAN : Set(n, v)
  \/ \E n \in Num : Delete(n)

Work ==
  \/ CreateVolume \/ CreatePoint \/ WriteInfo \/ Flush
  \/ DeleteVolume \/ DeletePoint \/ DeleteInfo \/ DeleteOwnLists \/ DeleteLists \/ DeleteDir
  \/ Reply
  \/ \E a, b \in Num : Compare(a, b)
  \/ \E l \in building : Save(l)
  \/ Unload

Next == Call \/ Load \/ Work \/ Crash \/ Abort
Spec == Init /\ [][Next]_vars

-----------------------------------------------------------------------------
(* Properties                                                              *)

(* The store keeps the promises of SnapshotSet, with the call in progress  *)
(* seen through what it has changed so far.                                *)
Promise == INSTANCE SnapshotSet WITH
  durable <- Durable,
  call <- [kind |-> op.kind, result |-> op.result,
           num |-> IF \/ op.kind = "create" /\ op.num \notin DOMAIN Durable
                      \/ op.kind = "delete_config" THEN 0 ELSE op.num],
  unwritten <- Modified
ImplementsSet == Promise!Spec

(* Between calls the list in memory is what a restart would read, but for  *)
(* texts that are yet to be written and entries whose deletion has lost    *)
(* their volume and then failed.                                           *)
ListMatchesDisk ==
  loaded /\ op = Idle /\ "skip" \notin Fault =>
    /\ DOMAIN Durable = DOMAIN entries \cap disk.volume
    /\ \A n \in DOMAIN Durable : entries[n].info_modified \/ entries[n].info = Durable[n]

(* A saved file list is about the snapshots that have its numbers now,     *)
(* however often those were given out before: Comparison::load takes any.  *)
FileListsFresh ==
  "skip" \notin Fault =>
    \A l \in disk.lists : {l.low, l.high} \subseteq DOMAIN Durable => l.births = Births(l.low, l.high)

(* As long as no system call has failed and the daemon has not died, calls *)
(* leave nothing behind: every directory and volume is a listed snapshot's *)
(* and every saved list is about two of them.                              *)
Tidy ==
  faults = 0 /\ op = Idle =>
    /\ disk.dirs = DOMAIN Durable /\ disk.volume = DOMAIN Durable /\ disk.tmp = {}
    /\ \A l \in disk.lists : {l.low, l.high} \subseteq DOMAIN Durable

=============================================================================
