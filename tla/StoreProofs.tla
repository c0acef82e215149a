---------------------------- MODULE StoreProofs ----------------------------
(***************************************************************************)
(* The store of a config, proved for any numbers, back ends and faults:    *)
(* what a restart would find keeps the promises of SnapshotSet, the list   *)
(* in memory agrees with it; whose saved file lists there are, what is     *)
(* left behind while nothing has failed, and what deleting the config      *)
(* leaves.                                                                 *)
(***************************************************************************)
EXTENDS ConfigStore, TLAPS

(* What would be read, see ReadableListed                                  *)
Listed == DOMAIN disk.info \cap disk.volume

(* The list in memory: a snapshot that has a volume has its text stored,   *)
(* and the stored one differs in nothing but a text yet to be written.     *)
Agree ==
  /\ ~loaded => entries = NoInfo
  /\ DOMAIN entries \cap disk.volume \subseteq DOMAIN disk.info
  /\ "skip" \notin Fault /\ loaded => Listed \subseteq DOMAIN entries
  /\ \A n \in DOMAIN entries \cap DOMAIN disk.info :
       /\ entries[n].info.type = disk.info[n].type
       /\ entries[n].info.pre_num = disk.info[n].pre_num
       /\ n \in disk.volume => entries[n].info_modified \/ entries[n].info = disk.info[n]

NumbersUsed ==
  /\ ~disk.infos => disk.dirs = {}
  /\ \A n \in disk.dirs \cup DOMAIN entries : births[n] >= 1

(* Where a call can be                                                     *)
Creating == {"create_volume", "create_point", "write_info", "undo_volume", "undo_point", "undo_dir"}
Deleting == {"delete_volume", "delete_point", "delete_info", "delete_own_lists", "delete_lists", "delete_dir"}
Making == {"add_name", "copy_template", "set_values", "create_infos"}
Wiping == {"wipe", "wipe_point", "wipe_files", "wipe_root", "delete_file", "remove_name", "erase"}

CallTyping ==
  /\ DOMAIN op = {"kind", "pc", "num", "result", "info", "valid"}
  /\ op.pc \in Creating \cup Deleting \cup Making \cup Wiping \cup {"idle", "flush", "reply"}
  /\ op.kind \in {"none", "create", "set", "delete", "create_config", "delete_config"}
  /\ op.num \in Num \cup {0} /\ op.info \in Info /\ op.valid \in BOOLEAN
  /\ op.pc = "idle" => op = Idle
  /\ op.kind = "none" => op.pc = "idle"
  /\ op.result \in (IF op.pc = "reply" THEN {"ok", "error"} ELSE {"none"})

(* ... and what it has done by then                                        *)
CallProgress ==
  /\ op.pc \in Creating =>
       op.kind = "create" /\ op.num \in Num /\ op.num \notin DOMAIN disk.info \cup DOMAIN entries
  /\ op.pc \in {"create_volume", "create_point", "write_info"} => op.num \in disk.dirs
  /\ op.pc \in {"create_point", "write_info"} => op.num \in disk.volume
  /\ op.pc = "flush" =>
       /\ op.kind \in {"create", "set"} /\ op.num \in DOMAIN entries
       /\ op.kind = "create" => op.num \in Listed
       /\ op.info.type = entries[op.num].info.type
       /\ op.info.pre_num = entries[op.num].info.pre_num
  /\ op.pc \in Deleting => op.kind = "delete" /\ op.num \in DOMAIN entries
  /\ op.pc \in (Deleting \ {"delete_volume"}) \cup {"wipe_point", "wipe_files"} => op.num \notin disk.volume
  /\ op.pc \in Making => op.kind = "create_config" /\ op.num = 0
  /\ op.pc \in Wiping => op.kind = "delete_config"
  /\ op.pc \in Creating \cup Deleting \cup {"flush"} => loaded

StoreInv == TypeOK /\ Agree /\ NumbersUsed /\ CallTyping /\ CallProgress

(* The rest of ConfigTypeOK                                                *)
ConfigTyping ==
  /\ names \subseteq {"this", "other"} /\ conf \in {"none", "template", "set", "torn"}
  /\ meta \in BOOLEAN /\ torn \in BOOLEAN /\ wiping \subseteq Num
  /\ root \in {"kept", "wiped"} /\ astray \subseteq {"daemon", "deleteConfig"}

-----------------------------------------------------------------------------
(* What the actions are made of                                            *)

Fields == {"infos", "dirs", "info", "volume", "point", "tmp", "lists"}

LEMMA DiskFields == TypeOK => DOMAIN disk = Fields
BY DEF TypeOK, Fields

(* RmDir takes away nothing but a directory without info.xml.              *)
LEMMA RmDirKeeps ==
  ASSUME NEW d, DOMAIN d = Fields, NEW n
  PROVE  /\ DOMAIN RmDir(d, n) = Fields
         /\ RmDir(d, n).infos = d.infos /\ RmDir(d, n).info = d.info
         /\ RmDir(d, n).volume = d.volume /\ RmDir(d, n).point = d.point
         /\ RmDir(d, n).tmp = d.tmp /\ RmDir(d, n).lists = d.lists
         /\ RmDir(d, n).dirs \subseteq d.dirs
         /\ DOMAIN d.info \subseteq d.dirs => DOMAIN d.info \subseteq RmDir(d, n).dirs
BY DEF RmDir, HasFiles, Fields

(* A call is answered, or comes to its next step.                          *)
LEMMA Answered ==
  ASSUME CallTyping, op.pc # "idle", NEW r \in {"ok", "error"}, ReplyWith(r)
  PROVE  CallTyping' /\ CallProgress'
<1>1. op'.pc = "reply" /\ op'.result = r /\ op'.kind = op.kind
  BY DEF CallTyping, ReplyWith
<1>2. CallTyping'
  BY <1>1 DEF CallTyping, ReplyWith
<1>3. CallProgress'
  BY <1>1 DEF CallProgress, Creating, Deleting, Making, Wiping
<1> QED
  BY <1>2, <1>3

LEMMA WentOn ==
  ASSUME CallTyping, op.pc \notin {"idle", "reply"}, NEW pc, Goto(pc),
         pc \in Creating \cup Deleting \cup Making \cup Wiping \cup {"flush"}
  PROVE  /\ CallTyping'
         /\ op'.pc = pc /\ op'.kind = op.kind /\ op'.num = op.num /\ op'.info = op.info
BY DEF CallTyping, Goto, Creating, Deleting, Making, Wiping

LEMMA FaultCounted == TypeOK /\ (Works \/ Fails) => faults' \in 0..MaxFaults
BY StoreConstants DEF TypeOK, Works, Fails

(* The call waits while comparisons go on.                                 *)
LEMMA CallWaits ==
  ASSUME CallTyping, CallProgress, UNCHANGED <<op, loaded, entries>>,
         disk'.dirs = disk.dirs, disk'.info = disk.info, disk'.volume = disk.volume
  PROVE  CallTyping' /\ CallProgress'
<1>1. CallTyping'
  BY DEF CallTyping
<1>2. CallProgress'
  BY DEF CallProgress, Listed
<1> QED
  BY <1>1, <1>2

-----------------------------------------------------------------------------
(* The steps of CreateSnapshot                                             *)

LEMMA CreateKeeps ==
  ASSUME StoreInv, NEW type \in {"single", "pre", "post"}, NEW p \in Num \cup {0},
         NEW valid \in BOOLEAN, Create(type, p, valid)
  PROVE  StoreInv'
<1> USE DEF StoreInv
<1>1. PICK n \in NextNumber :
        /\ births[n] < MaxBirths
        /\ \/ /\ Works
              /\ disk' = [disk EXCEPT !.dirs = @ \cup {n}]
              /\ births' = [births EXCEPT ![n] = @ + 1]
              /\ op' = [Idle EXCEPT !.kind = "create", !.pc = "create_volume", !.num = n, !.valid = valid,
                                    !.info = [type |-> type, pre_num |-> p, text |-> "first"]]
           \/ /\ Fails
              /\ op' = [Idle EXCEPT !.kind = "create", !.pc = "reply", !.result = "error"]
              /\ UNCHANGED <<disk, births>>
  BY DEF Create
<1>2. n \in Num /\ n \notin disk.dirs /\ n \notin DOMAIN entries
  <2>1. n \in Num /\ n \notin disk.dirs /\ \A m \in DOMAIN entries : n > m
    BY DEF NextNumber
  <2>2. n \in Nat
    BY <2>1, StoreConstants
  <2> QED
    BY <2>1, <2>2
<1>3. CASE op'.pc = "create_volume"
  <2>1. /\ disk' = [disk EXCEPT !.dirs = @ \cup {n}]
        /\ births' = [births EXCEPT ![n] = @ + 1]
        /\ op' = [Idle EXCEPT !.kind = "create", !.pc = "create_volume", !.num = n, !.valid = valid,
                              !.info = [type |-> type, pre_num |-> p, text |-> "first"]]
    BY <1>1, <1>3 DEF Idle
  <2>2. TypeOK'
    <3>1. births' \in [Num -> 0..MaxBirths]
      <4>1. births \in [Num -> 0..MaxBirths] /\ births[n] < MaxBirths
        BY <1>1 DEF TypeOK
      <4>2. births[n] + 1 \in 0..MaxBirths
        BY <1>2, <4>1, StoreConstants
      <4> QED
        BY <2>1, <4>1, <4>2
    <3>2. faults' \in 0..MaxFaults
      BY <1>1, FaultCounted
    <3>3. /\ DOMAIN disk' = Fields
          /\ disk'.infos = disk.infos /\ disk'.dirs = disk.dirs \cup {n} /\ disk'.info = disk.info
          /\ disk'.volume = disk.volume /\ disk'.point = disk.point /\ disk'.tmp = disk.tmp
          /\ disk'.lists = disk.lists
      BY <2>1 DEF TypeOK, Fields
    <3>4. UNCHANGED <<fs, loaded, entries, building>>
      BY DEF Create
    <3> QED
      BY <1>2, <3>1, <3>2, <3>3, <3>4 DEF TypeOK, Fields
  <2>3. Agree'
    BY <2>1 DEF Create, Agree, TypeOK, Listed
  <2>4. NumbersUsed'
    BY <1>2, <2>1 DEF Create, NumbersUsed, TypeOK
  <2>5. CallTyping'
    BY <1>2, <2>1 DEF CallTyping, Idle, Info, Text, Creating
  <2>6. CallProgress'
    BY <1>2, <2>1 DEF Create, CallProgress, TypeOK, Idle, Creating, Deleting, Making, Wiping
  <2> QED
    BY <2>2, <2>3, <2>4, <2>5, <2>6
<1>4. CASE op'.pc # "create_volume"
  <2>1. /\ op' = [Idle EXCEPT !.kind = "create", !.pc = "reply", !.result = "error"]
        /\ UNCHANGED <<disk, births, entries, loaded, fs, building>>
    BY <1>1, <1>4 DEF Idle, Create
  <2>2. TypeOK'
    BY <1>1, <2>1, FaultCounted DEF TypeOK
  <2>3. Agree' /\ NumbersUsed'
    BY <2>1 DEF Agree, NumbersUsed, Listed
  <2>4. CallTyping'
    BY <2>1 DEF CallTyping, Idle, Info, Text
  <2>5. CallProgress'
    BY <2>1 DEF CallProgress, Idle, Creating, Deleting, Making, Wiping
  <2> QED
    BY <2>2, <2>3, <2>4, <2>5
<1> QED
  BY <1>3, <1>4

(* A directory is removed, or stays.                                       *)
LEMMA RemovedOrNot ==
  ASSUME StoreInv, NEW n, disk' \in {disk, RmDir(disk, n)}, Works \/ Fails, UNCHANGED storeIdle
  PROVE  TypeOK' /\ Agree' /\ NumbersUsed'
<1> USE DEF StoreInv
<1>1. /\ DOMAIN disk' = Fields
      /\ disk'.infos = disk.infos /\ disk'.info = disk.info
      /\ disk'.volume = disk.volume /\ disk'.point = disk.point
      /\ disk'.tmp = disk.tmp /\ disk'.lists = disk.lists
      /\ disk'.dirs \subseteq disk.dirs /\ DOMAIN disk.info \subseteq disk'.dirs
  <2>1. DOMAIN disk = Fields /\ DOMAIN disk.info \subseteq disk.dirs
    BY DiskFields DEF TypeOK
  <2>2. CASE disk' = disk
    BY <2>1, <2>2
  <2>3. CASE disk' = RmDir(disk, n)
    BY <2>1, <2>3, RmDirKeeps
  <2> QED
    BY <2>2, <2>3
<1>2. TypeOK'
  BY <1>1, FaultCounted DEF TypeOK, storeIdle, Fields
<1>3. Agree' /\ NumbersUsed'
  BY <1>1 DEF Agree, NumbersUsed, storeIdle, Listed
<1> QED
  BY <1>2, <1>3

LEMMA CreateVolumeKeeps == ASSUME StoreInv, CreateVolume PROVE StoreInv'
<1> USE DEF StoreInv
<1>1. CASE disk' = [disk EXCEPT !.volume = @ \cup {op.num}]
           /\ Goto(IF fs = "lvm" THEN "create_point" ELSE "write_info")
  <2>1. TypeOK'
    BY <1>1, FaultCounted DEF TypeOK, CreateVolume, storeIdle, CallProgress, Creating
  <2>2. Agree'
    BY <1>1 DEF Agree, TypeOK, CreateVolume, storeIdle, Listed, CallProgress, Creating
  <2>3. NumbersUsed'
    BY <1>1 DEF TypeOK, CreateVolume, storeIdle, NumbersUsed
  <2>4. CallTyping' /\ op'.pc \in {"create_point", "write_info"} /\ op'.kind = op.kind /\ op'.num = op.num
    BY <1>1, WentOn DEF CreateVolume, Creating
  <2>5. CallProgress'
    BY <1>1, <2>4 DEF TypeOK, CreateVolume, storeIdle, CallProgress, Creating, Deleting, Making, Wiping
  <2> QED
    BY <2>1, <2>2, <2>3, <2>4, <2>5
<1>2. CASE disk' \in {disk, RmDir(disk, op.num)} /\ ReplyWith("error")
  <2>1. (Works \/ Fails) /\ UNCHANGED storeIdle
    BY DEF CreateVolume
  <2>2. TypeOK' /\ Agree' /\ NumbersUsed'
    BY <1>2, <2>1, RemovedOrNot
  <2>3. CallTyping' /\ CallProgress'
    BY <1>2, Answered DEF CreateVolume
  <2> QED
    BY <2>2, <2>3
<1> QED
  BY <1>1, <1>2 DEF CreateVolume

LEMMA CreatePointKeeps == ASSUME StoreInv, CreatePoint PROVE StoreInv'
<1> USE DEF StoreInv
<1>1. CASE disk' = [disk EXCEPT !.point = @ \cup {op.num}] /\ Goto("write_info")
  <2>1. TypeOK'
    BY <1>1, FaultCounted DEF TypeOK, CreatePoint, storeIdle, CallProgress, Creating
  <2>2. Agree' /\ NumbersUsed'
    BY <1>1 DEF Agree, NumbersUsed, TypeOK, CreatePoint, storeIdle, Listed
  <2>3. CallTyping' /\ op'.pc = "write_info" /\ op'.kind = op.kind /\ op'.num = op.num
    BY <1>1, WentOn DEF CreatePoint, Creating
  <2>4. CallProgress'
    BY <1>1, <2>3 DEF TypeOK, CreatePoint, storeIdle, CallProgress, Creating, Deleting, Making, Wiping
  <2> QED
    BY <2>1, <2>2, <2>3, <2>4
<1>2. CASE disk' \in {disk, RmDir(disk, op.num)} /\ ReplyWith("error")
  <2>1. (Works \/ Fails) /\ UNCHANGED storeIdle
    BY DEF CreatePoint
  <2>2. TypeOK' /\ Agree' /\ NumbersUsed'
    BY <1>2, <2>1, RemovedOrNot
  <2>3. CallTyping' /\ CallProgress'
    BY <1>2, Answered DEF CreatePoint
  <2> QED
    BY <2>2, <2>3
<1> QED
  BY <1>1, <1>2 DEF CreatePoint

(* A failed write leaves a temporary file at most.                         *)
LEMMA NotWrittenKeeps ==
  ASSUME TypeOK, NEW n \in Num, NotWritten(n)
  PROVE  /\ DOMAIN disk' = Fields
         /\ disk'.infos = disk.infos /\ disk'.dirs = disk.dirs /\ disk'.info = disk.info
         /\ disk'.volume = disk.volume /\ disk'.point = disk.point /\ disk'.lists = disk.lists
         /\ disk'.tmp \subseteq Num
BY DEF TypeOK, NotWritten, Fields

(* The text of a snapshot is stored.                                       *)
LEMMA WrittenKeeps ==
  ASSUME TypeOK, NEW n \in disk.dirs, NEW i \in Info
  PROVE  LET d == Written(disk, n, i) IN
         /\ DOMAIN d = Fields
         /\ d.infos = disk.infos /\ d.dirs = disk.dirs /\ d.volume = disk.volume
         /\ d.point = disk.point /\ d.lists = disk.lists /\ d.tmp = disk.tmp
         /\ DOMAIN d.info = DOMAIN disk.info \cup {n} /\ d.info[n] = i
         /\ \A m \in DOMAIN disk.info : m # n => d.info[m] = disk.info[m]
         /\ \A m \in DOMAIN d.info : d.info[m] \in Info
BY DEF TypeOK, Written, Fields

LEMMA WriteInfoKeeps == ASSUME StoreInv, WriteInfo PROVE StoreInv'
<1> USE DEF StoreInv
<1>1. op.num \in disk.dirs /\ op.num \in Num /\ op.info \in Info /\ op.num \in disk.volume
  BY DEF WriteInfo, CallProgress, CallTyping, TypeOK, Creating
<1>2. CASE /\ disk' = Written(disk, op.num, op.info)
           /\ entries' = [n \in DOMAIN entries \cup {op.num} |->
                            IF n = op.num THEN [info |-> op.info, info_modified |-> FALSE] ELSE entries[n]]
           /\ Goto("flush")
  <2>1. TypeOK'
    BY <1>1, <1>2, WrittenKeeps, FaultCounted DEF TypeOK, WriteInfo, Fields
  <2>2. Agree'
    BY <1>1, <1>2, WrittenKeeps DEF Agree, WriteInfo, Listed, CallProgress, Creating
  <2>3. NumbersUsed'
    BY <1>1, <1>2, WrittenKeeps DEF NumbersUsed, WriteInfo
  <2>4. CallTyping' /\ op'.pc = "flush" /\ op'.kind = op.kind /\ op'.num = op.num /\ op'.info = op.info
    BY <1>2, WentOn DEF WriteInfo, Creating
  <2>5. CallProgress'
    BY <1>1, <1>2, <2>4, WrittenKeeps DEF WriteInfo, CallProgress, Creating, Deleting, Making, Wiping, Listed
  <2> QED
    BY <2>1, <2>2, <2>3, <2>4, <2>5
<1>3. CASE NotWritten(op.num) /\ UNCHANGED entries /\ Goto("undo_volume")
  <2>1. TypeOK'
    BY <1>1, <1>3, NotWrittenKeeps, FaultCounted DEF TypeOK, WriteInfo, Fields
  <2>2. Agree' /\ NumbersUsed'
    BY <1>1, <1>3, NotWrittenKeeps DEF Agree, NumbersUsed, WriteInfo, Listed
  <2>3. CallTyping' /\ op'.pc = "undo_volume" /\ op'.kind = op.kind /\ op'.num = op.num
    BY <1>3, WentOn DEF WriteInfo, Creating
  <2>4. CallProgress'
    BY <1>1, <1>3, <2>3, NotWrittenKeeps DEF WriteInfo, CallProgress, Creating, Deleting, Making, Wiping
  <2> QED
    BY <2>1, <2>2, <2>3, <2>4
<1> QED
  BY <1>2, <1>3 DEF WriteInfo

-----------------------------------------------------------------------------
(* SetSnapshot and DeleteSnapshots                                         *)

LEMMA SetKeeps ==
  ASSUME StoreInv, NEW n \in Num, NEW valid \in BOOLEAN, Set(n, valid)
  PROVE  StoreInv'
<1> USE DEF StoreInv
<1>1. /\ op' = [Idle EXCEPT !.kind = "set", !.pc = "flush", !.num = n, !.valid = valid,
                           !.info = [entries[n].info EXCEPT !.text = "changed"]]
      /\ n \in DOMAIN entries /\ loaded /\ entries[n].info \in Info
  BY DEF Set, TypeOK
<1>2. TypeOK' /\ Agree' /\ NumbersUsed'
  BY DEF Set, TypeOK, Agree, NumbersUsed, Listed
<1>3. CallTyping'
  BY <1>1 DEF CallTyping, Idle, Info, Text
<1>4. CallProgress'
  BY <1>1 DEF Set, CallProgress, Idle, Info, Creating, Deleting, Making, Wiping
<1> QED
  BY <1>2, <1>3, <1>4

LEMMA DeleteKeeps == ASSUME StoreInv, NEW n \in Num, Delete(n) PROVE StoreInv'
<1> USE DEF StoreInv
<1>1. op' = [Idle EXCEPT !.kind = "delete", !.pc = "delete_volume", !.num = n]
      /\ n \in DOMAIN entries /\ loaded
  BY DEF Delete
<1>2. TypeOK' /\ Agree' /\ NumbersUsed'
  BY DEF Delete, TypeOK, Agree, NumbersUsed, Listed
<1>3. CallTyping'
  BY <1>1 DEF CallTyping, Idle, Info, Text, Deleting
<1>4. CallProgress'
  BY <1>1 DEF Delete, CallProgress, Idle, Creating, Deleting, Making, Wiping
<1> QED
  BY <1>2, <1>3, <1>4

(* What Flush writes, or leaves in the entry to be written                 *)
FlushedInfo ==
  [op.info EXCEPT !.text = IF ~op.valid THEN "partial" ELSE IF op.kind = "set" THEN "changed" ELSE "full"]

LEMMA FlushedInfoTyped ==
  ASSUME CallTyping
  PROVE  /\ FlushedInfo \in Info
         /\ FlushedInfo.type = op.info.type /\ FlushedInfo.pre_num = op.info.pre_num
BY DEF FlushedInfo, CallTyping, Info, Text

LEMMA FlushKeeps == ASSUME StoreInv, Flush PROVE StoreInv'
<1> USE DEF StoreInv
<1>1. /\ op.num \in DOMAIN entries /\ op.num \in Num /\ loaded
      /\ op.info.type = entries[op.num].info.type
      /\ op.info.pre_num = entries[op.num].info.pre_num
  BY DEF Flush, CallProgress, TypeOK
<1>2. CallTyping' /\ CallProgress'
  BY Answered DEF Flush
<1>3. CASE /\ CanOpen(op.num) /\ disk' = Written(disk, op.num, FlushedInfo)
           /\ entries' = [entries EXCEPT ![op.num] = [info |-> FlushedInfo, info_modified |-> FALSE]]
  <2>1. op.num \in disk.dirs
    BY <1>3 DEF CanOpen
  <2>2. TypeOK'
    BY <1>1, <1>3, <2>1, FlushedInfoTyped, WrittenKeeps, FaultCounted DEF TypeOK, Flush, Fields
  <2>3. Agree'
    BY <1>1, <1>3, <2>1, FlushedInfoTyped, WrittenKeeps DEF Agree, Flush, Listed
  <2>4. NumbersUsed'
    BY <1>1, <1>3, <2>1, FlushedInfoTyped, WrittenKeeps DEF NumbersUsed, Flush
  <2> QED
    BY <1>2, <2>2, <2>3, <2>4
<1>4. CASE /\ disk' = disk \/ NotWritten(op.num)
           /\ entries' = [entries EXCEPT ![op.num] = [info |-> FlushedInfo, info_modified |-> TRUE]]
  <2>1. /\ DOMAIN disk' = Fields
        /\ disk'.infos = disk.infos /\ disk'.dirs = disk.dirs /\ disk'.info = disk.info
        /\ disk'.volume = disk.volume /\ disk'.point = disk.point /\ disk'.lists = disk.lists
        /\ disk'.tmp \subseteq Num
    <3>1. CASE disk' = disk
      BY <3>1, DiskFields DEF TypeOK
    <3> QED
      BY <1>1, <1>4, <3>1, NotWrittenKeeps
  <2>2. TypeOK'
    BY <1>1, <1>4, <2>1, FlushedInfoTyped, FaultCounted DEF TypeOK, Flush, Fields
  <2>3. Agree'
    BY <1>1, <1>4, <2>1, FlushedInfoTyped DEF Agree, Flush, Listed
  <2>4. NumbersUsed'
    BY <1>1, <1>4, <2>1 DEF NumbersUsed, Flush
  <2> QED
    BY <1>2, <2>2, <2>3, <2>4
<1> QED
  BY <1>3, <1>4 DEF Flush, FlushedInfo, Unwritten

LEMMA DeleteVolumeKeeps == ASSUME StoreInv, DeleteVolume PROVE StoreInv'
<1> USE DEF StoreInv
<1>1. CASE disk' = disk /\ ReplyWith("error")
  <2>1. TypeOK' /\ Agree' /\ NumbersUsed'
    BY <1>1, FaultCounted DEF DeleteVolume, storeIdle, TypeOK, Agree, NumbersUsed, Listed
  <2> QED
    BY <1>1, <2>1, Answered DEF DeleteVolume
<1>2. CASE /\ disk' = [disk EXCEPT !.volume = @ \ {op.num}]
           /\ op' = [op EXCEPT !.pc = IF fs = "btrfs" THEN AfterVolume
                                     ELSE IF @ = "undo_volume" THEN "undo_point" ELSE "delete_point"]
  <2>1. TypeOK'
    BY <1>2, FaultCounted DEF TypeOK, DeleteVolume, storeIdle
  <2>2. Agree' /\ NumbersUsed'
    BY <1>2 DEF Agree, NumbersUsed, TypeOK, DeleteVolume, storeIdle, Listed
  <2>3. /\ CallTyping' /\ op'.kind = op.kind /\ op'.num = op.num
        /\ IF op.pc = "undo_volume" THEN op'.pc \in {"undo_dir", "undo_point"}
                                    ELSE op'.pc \in {"delete_info", "delete_point"}
    BY <1>2 DEF DeleteVolume, AfterVolume, CallTyping, Creating, Deleting
  <2>4. CallProgress'
    BY <1>2, <2>3 DEF TypeOK, DeleteVolume, storeIdle, CallProgress, Creating, Deleting, Making, Wiping
  <2> QED
    BY <2>1, <2>2, <2>3, <2>4
<1> QED
  BY <1>1, <1>2 DEF DeleteVolume

LEMMA DeletePointKeeps == ASSUME StoreInv, DeletePoint PROVE StoreInv'
<1> USE DEF StoreInv
<1>1. CASE disk' = disk /\ ReplyWith("error")
  <2>1. TypeOK' /\ Agree' /\ NumbersUsed'
    BY <1>1, FaultCounted DEF DeletePoint, storeIdle, TypeOK, Agree, NumbersUsed, Listed
  <2> QED
    BY <1>1, <2>1, Answered DEF DeletePoint
<1>2. CASE disk' = RmDir([disk EXCEPT !.point = @ \ {op.num}], op.num) /\ Goto(AfterVolume)
  <2> DEFINE d == [disk EXCEPT !.point = @ \ {op.num}]
  <2>1. /\ DOMAIN d = Fields /\ d.infos = disk.infos /\ d.dirs = disk.dirs /\ d.info = disk.info
        /\ d.volume = disk.volume /\ d.point \subseteq disk.point /\ d.tmp = disk.tmp /\ d.lists = disk.lists
    BY DEF TypeOK, Fields
  <2> HIDE DEF d
  <2>2. disk' = RmDir(d, op.num)
    BY <1>2 DEF d
  <2>3. TypeOK'
    BY <2>1, <2>2, RmDirKeeps, FaultCounted, <1>2 DEF TypeOK, DeletePoint, storeIdle, Fields
  <2>4. Agree' /\ NumbersUsed'
    BY <2>1, <2>2, RmDirKeeps DEF Agree, NumbersUsed, DeletePoint, storeIdle, Listed
  <2>5. /\ CallTyping' /\ op'.kind = op.kind /\ op'.num = op.num
        /\ IF op.pc = "undo_point" THEN op'.pc = "undo_dir" ELSE op'.pc = "delete_info"
    BY <1>2, WentOn DEF DeletePoint, AfterVolume, Creating, Deleting
  <2>6. CallProgress'
    BY <2>1, <2>2, <2>5, RmDirKeeps DEF DeletePoint, storeIdle, CallProgress, Creating, Deleting, Making, Wiping
  <2> QED
    BY <2>3, <2>4, <2>5, <2>6
<1>3. CASE disk' = disk /\ Goto(AfterVolume)
  <2>1. TypeOK' /\ Agree' /\ NumbersUsed'
    BY <1>3, FaultCounted DEF DeletePoint, storeIdle, TypeOK, Agree, NumbersUsed, Listed
  <2>2. /\ CallTyping' /\ op'.kind = op.kind /\ op'.num = op.num
        /\ IF op.pc = "undo_point" THEN op'.pc = "undo_dir" ELSE op'.pc = "delete_info"
    BY <1>3, WentOn DEF DeletePoint, AfterVolume, Creating, Deleting
  <2>3. CallProgress'
    BY <1>3, <2>2 DEF DeletePoint, storeIdle, CallProgress, Creating, Deleting, Making, Wiping
  <2> QED
    BY <2>1, <2>2, <2>3
<1> QED
  BY <1>1, <1>2, <1>3 DEF DeletePoint

LEMMA DeleteInfoKeeps == ASSUME StoreInv, DeleteInfo PROVE StoreInv'
<1> USE DEF StoreInv
<1>1. CASE disk' = disk /\ ReplyWith("error")
  <2>1. TypeOK' /\ Agree' /\ NumbersUsed'
    BY <1>1, FaultCounted DEF DeleteInfo, storeIdle, TypeOK, Agree, NumbersUsed, Listed
  <2> QED
    BY <1>1, <2>1, Answered DEF DeleteInfo
<1>2. CASE /\ disk' \in {disk, [disk EXCEPT !.info = Restrict(@, DOMAIN @ \ {op.num})]}
           /\ Goto("delete_own_lists")
  <2>1. op.num \notin disk.volume
    BY DEF DeleteInfo, CallProgress, Deleting
  <2>2. TypeOK'
    BY <1>2, FaultCounted DEF TypeOK, DeleteInfo, storeIdle, Restrict
  <2>3. Agree'
    BY <1>2, <2>1 DEF Agree, TypeOK, DeleteInfo, storeIdle, Listed, Restrict
  <2>4. NumbersUsed'
    BY <1>2 DEF NumbersUsed, TypeOK, DeleteInfo, storeIdle
  <2>5. CallTyping' /\ op'.kind = op.kind /\ op'.num = op.num /\ op'.pc = "delete_own_lists"
    BY <1>2, WentOn DEF DeleteInfo, Deleting
  <2>6. CallProgress'
    BY <1>2, <2>5 DEF TypeOK, DeleteInfo, storeIdle, CallProgress, Creating, Deleting, Making, Wiping
  <2> QED
    BY <2>2, <2>3, <2>4, <2>5, <2>6
<1> QED
  BY <1>1, <1>2 DEF DeleteInfo

(* Saved lists are unlinked, one or, when some cannot be, several.         *)
Fewer(K) ==
  /\ DOMAIN disk' = Fields
  /\ disk'.infos = disk.infos /\ disk'.dirs = disk.dirs /\ disk'.info = disk.info
  /\ disk'.volume = disk.volume /\ disk'.point = disk.point /\ disk'.tmp = disk.tmp
  /\ disk'.lists = disk.lists \ K

LEMMA FewerLists ==
  ASSUME TypeOK, NEW K, disk' = [disk EXCEPT !.lists = @ \ K]
  PROVE  Fewer(K)
BY DEF TypeOK, Fewer, Fields

LEMMA Unlinking ==
  ASSUME TypeOK, NEW L, NEW next, UnlinkLists(L, next)
  PROVE  /\ Works \/ Fails
         /\ \E K \in SUBSET L : Fewer(K)
         /\ op' = op \/ op' = next \/ ReplyWith("error")
<1>1. Works \/ Fails
  BY DEF UnlinkLists
<1>2. \/ disk' = disk
      \/ \E K \in SUBSET L : disk' = [disk EXCEPT !.lists = @ \ K]
  <2>1. ASSUME NEW l \in L, disk' = [disk EXCEPT !.lists = @ \ {l}]
        PROVE  \E K \in SUBSET L : disk' = [disk EXCEPT !.lists = @ \ K]
    BY <2>1
  <2> QED
    BY <2>1 DEF UnlinkLists
<1>3. ASSUME disk' = disk PROVE Fewer({})
  <2>1. disk.lists \ {} = disk.lists
    OBVIOUS
  <2> QED
    BY <1>3, <2>1 DEF Fewer, TypeOK, Fields
<1>4. \E K \in SUBSET L : Fewer(K)
  BY <1>2, <1>3, FewerLists
<1>5. op' = op \/ op' = next \/ ReplyWith("error")
  BY DEF UnlinkLists
<1> QED
  BY <1>1, <1>4, <1>5

LEMMA UnlinkListsKeeps ==
  ASSUME StoreInv, NEW L, NEW next, UnlinkLists(L, next), UNCHANGED storeIdle, op.pc \in Deleting \ {"delete_volume"},
         \/ \E pc \in Deleting \ {"delete_volume"} : next = [op EXCEPT !.pc = pc]
         \/ next = [op EXCEPT !.pc = "reply", !.result = "error"]
  PROVE  StoreInv'
<1> USE DEF StoreInv
<1>1. Works \/ Fails
  BY Unlinking
<1>2. PICK K : Fewer(K)
  BY Unlinking
<1>3. TypeOK'
  BY <1>1, <1>2, FaultCounted DEF Fewer, TypeOK, storeIdle, Fields
<1>4. Agree' /\ NumbersUsed'
  BY <1>2 DEF Fewer, Agree, NumbersUsed, storeIdle, Listed
<1>5. CASE op' = op
  <2>1. CallTyping' /\ CallProgress'
    BY <1>2, <1>5, CallWaits DEF Fewer, storeIdle
  <2> QED
    BY <1>3, <1>4, <2>1
<1>6. CASE ReplyWith("error")
  BY <1>3, <1>4, <1>6, Answered DEF Deleting
<1>7. ASSUME NEW pc \in Deleting \ {"delete_volume"}, Goto(pc)
      PROVE  StoreInv'
  <2>1. CallTyping' /\ op'.kind = op.kind /\ op'.num = op.num /\ op'.pc = pc
    BY <1>7, WentOn DEF Deleting
  <2>2. CallProgress'
    BY <1>2, <1>7, <2>1 DEF Fewer, storeIdle, CallProgress, Creating, Deleting, Making, Wiping
  <2> QED
    BY <1>3, <1>4, <2>1, <2>2
<1> QED
  BY <1>5, <1>6, <1>7, Unlinking DEF Goto, ReplyWith

LEMMA DeleteOwnListsKeeps == ASSUME StoreInv, DeleteOwnLists PROVE StoreInv'
BY UnlinkListsKeeps DEF DeleteOwnLists, Deleting

LEMMA DeleteListsKeeps == ASSUME StoreInv, DeleteLists PROVE StoreInv'
<1> DEFINE closed == {m \in DOMAIN entries : ~CanOpen(m)}
           reached == {m \in DOMAIN entries : \A k \in closed : m < k}
           L == {l \in disk.lists : l.low = op.num /\ l.high \in reached}
           next == IF closed = {} THEN [op EXCEPT !.pc = "delete_dir"]
                                  ELSE [op EXCEPT !.pc = "reply", !.result = "error"]
<1>1. UnlinkLists(L, next) /\ UNCHANGED storeIdle /\ op.pc = "delete_lists"
  BY DEF DeleteLists
<1>2. \/ next = [op EXCEPT !.pc = "delete_dir"]
      \/ next = [op EXCEPT !.pc = "reply", !.result = "error"]
  OBVIOUS
<1> HIDE DEF L, next
<1> QED
  BY <1>1, <1>2, UnlinkListsKeeps DEF Deleting

LEMMA DeleteDirKeeps == ASSUME StoreInv, DeleteDir PROVE StoreInv'
<1> USE DEF StoreInv
<1>1. /\ disk' \in {disk, RmDir(disk, op.num)}
      /\ \/ entries' = entries
         \/ op.pc = "delete_dir" /\ entries' = Restrict(entries, DOMAIN entries \ {op.num})
      /\ UNCHANGED <<fs, loaded, building, births>> /\ faults' \in 0..MaxFaults
  BY FaultCounted DEF DeleteDir
<1>2. op.pc = "delete_dir" => loaded /\ op.num \notin disk.volume
  BY DEF CallProgress, Deleting
<1>3. /\ DOMAIN disk' = Fields
      /\ disk'.infos = disk.infos /\ disk'.info = disk.info
      /\ disk'.volume = disk.volume /\ disk'.point = disk.point
      /\ disk'.tmp = disk.tmp /\ disk'.lists = disk.lists
      /\ disk'.dirs \subseteq disk.dirs /\ DOMAIN disk.info \subseteq disk'.dirs
  <2>1. DOMAIN disk = Fields /\ DOMAIN disk.info \subseteq disk.dirs
    BY DiskFields DEF TypeOK
  <2>2. CASE disk' = disk
    BY <2>1, <2>2
  <2>3. CASE disk' = RmDir(disk, op.num)
    BY <2>1, <2>3, RmDirKeeps
  <2> QED
    BY <1>1, <2>2, <2>3
<1>4. TypeOK'
  BY <1>1, <1>3 DEF TypeOK, Fields, Restrict
<1>5. Agree'
  BY <1>1, <1>2, <1>3 DEF Agree, Listed, Restrict
<1>6. NumbersUsed'
  BY <1>1, <1>3 DEF NumbersUsed, Restrict
<1>7. CallTyping' /\ CallProgress'
  BY Answered DEF DeleteDir
<1> QED
  BY <1>4, <1>5, <1>6, <1>7

LEMMA ReplyKeeps == ASSUME StoreInv, Reply PROVE StoreInv'
<1> USE DEF StoreInv
<1>1. TypeOK' /\ Agree' /\ NumbersUsed'
  BY DEF Reply, TypeOK, Agree, NumbersUsed, Listed
<1>2. CallTyping' /\ CallProgress'
  BY DEF Reply, CallTyping, CallProgress, Idle, Info, Text, Creating, Deleting, Making, Wiping
<1> QED
  BY <1>1, <1>2

-----------------------------------------------------------------------------
(* Comparisons, and the daemon's memory                                    *)

LEMMA CompareKeeps ==
  ASSUME StoreInv, NEW a \in Num, NEW b \in Num, Compare(a, b)
  PROVE  StoreInv'
<1> USE DEF StoreInv
<1>1. /\ building' = building \cup {[low |-> a, high |-> b, births |-> Births(a, b)]}
      /\ {a, b} \subseteq DOMAIN entries
      /\ UNCHANGED <<fs, disk, loaded, entries, op, births, faults>>
  BY DEF Compare
<1>2. [low |-> a, high |-> b, births |-> Births(a, b)] \in List
  <2>1. \A n \in {a, b} : births[n] \in 1..MaxBirths
    BY <1>1, StoreConstants DEF TypeOK, NumbersUsed
  <2> QED
    BY <2>1 DEF Births, List
<1>3. TypeOK'
  BY <1>1, <1>2 DEF TypeOK
<1>4. Agree' /\ NumbersUsed'
  BY <1>1 DEF Agree, NumbersUsed, Listed
<1> QED
  BY <1>1, <1>3, <1>4, CallWaits

LEMMA SaveKeeps == ASSUME StoreInv, NEW l \in building, Save(l) PROVE StoreInv'
<1> USE DEF StoreInv
<1>1. /\ DOMAIN disk' = Fields
      /\ disk'.infos = disk.infos /\ disk'.dirs = disk.dirs /\ disk'.info = disk.info
      /\ disk'.volume = disk.volume /\ disk'.point = disk.point
      /\ disk'.tmp \subseteq Num /\ disk'.lists \subseteq List
  <2>1. l \in List /\ l.high \in Num
    BY DEF TypeOK, List
  <2>2. CASE disk' = Saved(l)
    BY <2>1, <2>2 DEF TypeOK, Saved, Fields
  <2>3. CASE NotWritten(l.high)
    BY <2>1, <2>3, NotWrittenKeeps DEF TypeOK
  <2> QED
    BY <2>2, <2>3 DEF Save
<1>2. TypeOK'
  <2>1. faults' \in 0..MaxFaults
    BY FaultCounted DEF Save
  <2> QED
    BY <1>1, <2>1 DEF TypeOK, Save, Fields
<1>3. Agree' /\ NumbersUsed'
  BY <1>1 DEF Agree, NumbersUsed, Save, Listed
<1> QED
  BY <1>1, <1>2, <1>3, CallWaits DEF Save

(* Everything that is stored and has a volume is readable.                 *)
LEMMA ReadableListed ==
  ASSUME TypeOK, NumbersUsed
  PROVE  /\ Readable(disk) = Listed
         /\ Durable = [n \in Listed |-> disk.info[n]]
BY DEF TypeOK, NumbersUsed, Readable, CheckSnapshot, Listed, Durable, Restrict

LEMMA LoadKeeps == ASSUME StoreInv, Load PROVE StoreInv'
<1> USE DEF StoreInv
<1>1. PICK S \in SUBSET Listed :
        /\ IF S = {} THEN Works ELSE "skip" \in Fault /\ faults < MaxFaults /\ faults' = faults + 1
        /\ entries' = [n \in Listed \ S |-> [info |-> disk.info[n], info_modified |-> FALSE]]
  BY ReadableListed DEF Load
<1>2. TypeOK'
  <2>1. faults' \in 0..MaxFaults
    BY <1>1, FaultCounted, StoreConstants DEF TypeOK
  <2> QED
    BY <1>1, <2>1 DEF Load, TypeOK, Listed
<1>3. Agree'
  BY <1>1 DEF Load, Agree, Listed
<1>4. NumbersUsed'
  BY <1>1 DEF Load, NumbersUsed, Listed, TypeOK
<1>5. CallTyping' /\ CallProgress'
  BY DEF Load, CallTyping, CallProgress, Idle, Creating, Deleting, Making, Wiping
<1> QED
  BY <1>2, <1>3, <1>4, <1>5

(* Texts are written that differ from the stored ones in nothing else.     *)
LEMMA FlushedKeeps ==
  ASSUME StoreInv, NEW N \in SUBSET Modified, \A n \in N : CanOpen(n)
  PROVE  /\ DOMAIN Flushed(N) = Fields
         /\ Flushed(N).infos = disk.infos /\ Flushed(N).dirs = disk.dirs
         /\ Flushed(N).volume = disk.volume /\ Flushed(N).point = disk.point
         /\ Flushed(N).tmp = disk.tmp /\ Flushed(N).lists = disk.lists
         /\ DOMAIN disk.info \subseteq DOMAIN Flushed(N).info
         /\ DOMAIN Flushed(N).info \subseteq DOMAIN disk.info \cup (disk.dirs \ disk.volume)
         /\ DOMAIN Flushed(N).info \subseteq DOMAIN disk.info \cup N
         /\ \A n \in DOMAIN Flushed(N).info : Flushed(N).info[n] \in Info
         /\ \A n \in DOMAIN disk.info :
              /\ n \notin N => Flushed(N).info[n] = disk.info[n]
              /\ Flushed(N).info[n].type = disk.info[n].type
              /\ Flushed(N).info[n].pre_num = disk.info[n].pre_num
<1> USE DEF StoreInv
<1>1. N \subseteq DOMAIN entries /\ N \subseteq disk.dirs
  BY DEF Modified, CanOpen
<1> DEFINE new == [n \in DOMAIN disk.info \cup N |-> IF n \in N THEN entries[n].info ELSE disk.info[n]]
<1>2. /\ DOMAIN Flushed(N) = Fields
      /\ Flushed(N).infos = disk.infos /\ Flushed(N).dirs = disk.dirs
      /\ Flushed(N).volume = disk.volume /\ Flushed(N).point = disk.point
      /\ Flushed(N).tmp = disk.tmp /\ Flushed(N).lists = disk.lists
      /\ Flushed(N).info = new
  BY DEF TypeOK, Flushed, Fields
<1>3. DOMAIN new = DOMAIN disk.info \cup N
  OBVIOUS
<1>4. N \cap disk.volume \subseteq DOMAIN disk.info
  BY <1>1 DEF Agree
<1>5. \A n \in DOMAIN new : new[n] \in Info
  BY <1>1 DEF TypeOK
<1>6. \A n \in DOMAIN disk.info :
        /\ n \notin N => new[n] = disk.info[n]
        /\ new[n].type = disk.info[n].type
        /\ new[n].pre_num = disk.info[n].pre_num
  BY <1>1 DEF Agree
<1> HIDE DEF new
<1> QED
  BY <1>1, <1>2, <1>3, <1>4, <1>5, <1>6

(* What a destructor that fails has written                                *)
LEMMA PartlyFlushed ==
  ASSUME StoreInv, WriteBackFails
  PROVE  \E N \in SUBSET Modified :
           /\ \A n \in N : CanOpen(n)
           /\ DOMAIN disk' = Fields
           /\ disk'.infos = disk.infos /\ disk'.dirs = disk.dirs
           /\ disk'.volume = disk.volume /\ disk'.point = disk.point
           /\ disk'.tmp \subseteq Num /\ disk'.lists = disk.lists
           /\ disk'.info = Flushed(N).info
<1>1. PICK m \in Modified :
        /\ \A n \in Modified : n < m => CanOpen(n)
        /\ \/ disk' = Flushed({n \in Modified : n < m})
           \/ disk' = [Flushed({n \in Modified : n < m}) EXCEPT !.tmp = @ \cup {m}]
  BY DEF WriteBackFails
<1> DEFINE N == {n \in Modified : n < m}
<1>2. N \in SUBSET Modified /\ \A n \in N : CanOpen(n)
  BY <1>1
<1>3. disk.tmp \subseteq Num /\ m \in Num
  BY DEF StoreInv, TypeOK, Modified
<1>4. disk' = Flushed(N) \/ disk' = [Flushed(N) EXCEPT !.tmp = @ \cup {m}]
  BY <1>1
<1> HIDE DEF N
<1>5. /\ DOMAIN Flushed(N) = Fields
      /\ Flushed(N).infos = disk.infos /\ Flushed(N).dirs = disk.dirs
      /\ Flushed(N).volume = disk.volume /\ Flushed(N).point = disk.point
      /\ Flushed(N).tmp = disk.tmp /\ Flushed(N).lists = disk.lists
  BY <1>2, FlushedKeeps
<1>6. /\ DOMAIN disk' = Fields
      /\ disk'.infos = disk.infos /\ disk'.dirs = disk.dirs
      /\ disk'.volume = disk.volume /\ disk'.point = disk.point
      /\ disk'.tmp \subseteq Num /\ disk'.lists = disk.lists
      /\ disk'.info = Flushed(N).info
  BY <1>3, <1>4, <1>5 DEF Fields
<1> QED
  BY <1>2, <1>6

(* Without a list in memory and without a call there is little to keep.    *)
LEMMA FreshKeeps ==
  ASSUME StoreInv, ~loaded', entries' = NoInfo, op' = Idle, building' \subseteq building,
         UNCHANGED <<fs, births>>, faults' \in 0..MaxFaults,
         DOMAIN disk' = Fields, disk'.infos = disk.infos, disk'.dirs = disk.dirs,
         disk'.volume = disk.volume, disk'.point = disk.point, disk'.lists = disk.lists,
         disk'.tmp \subseteq Num, DOMAIN disk'.info \subseteq disk.dirs,
         \A n \in DOMAIN disk'.info : disk'.info[n] \in Info,
         loaded' \in BOOLEAN
  PROVE  StoreInv'
<1> USE DEF StoreInv
<1>1. TypeOK'
  BY DEF TypeOK, Fields, NoInfo
<1>2. Agree' /\ NumbersUsed'
  BY DEF Agree, NumbersUsed, NoInfo
<1>3. CallTyping' /\ CallProgress'
  BY DEF CallTyping, CallProgress, Idle, Info, Text, Creating, Deleting, Making, Wiping
<1> QED
  BY <1>1, <1>2, <1>3

LEMMA UnloadKeeps == ASSUME StoreInv, Unload PROVE StoreInv'
<1>1. /\ disk' = Flushed(Modified) /\ ~loaded' /\ loaded' \in BOOLEAN /\ entries' = NoInfo
      /\ op' = Idle /\ UNCHANGED <<fs, building, births, faults>>
      /\ \A n \in Modified : CanOpen(n)
  BY DEF Unload, WriteBack
<1>2. disk.tmp \subseteq Num /\ faults \in 0..MaxFaults /\ DOMAIN disk.info \subseteq disk.dirs
  BY DEF StoreInv, TypeOK
<1> QED
  BY <1>1, <1>2, FlushedKeeps, FreshKeeps

LEMMA CrashKeeps == ASSUME StoreInv, Crash PROVE StoreInv'
<1>1. Writing \subseteq Num
  BY DEF StoreInv, TypeOK, List, Writing, CallProgress, Creating
<1>2. /\ DOMAIN disk' = Fields
      /\ disk'.infos = disk.infos /\ disk'.dirs = disk.dirs /\ disk'.info = disk.info
      /\ disk'.volume = disk.volume /\ disk'.point = disk.point /\ disk'.lists = disk.lists
      /\ disk'.tmp \subseteq Num
  BY <1>1 DEF StoreInv, TypeOK, Crash, Fields
<1>3. faults' \in 0..MaxFaults
  BY StoreConstants DEF StoreInv, TypeOK, Crash
<1>4. DOMAIN disk.info \subseteq disk.dirs /\ \A n \in DOMAIN disk.info : disk.info[n] \in Info
  BY DEF StoreInv, TypeOK
<1> QED
  BY <1>2, <1>3, <1>4, FreshKeeps DEF Crash, Die

(* The destructor fails, in the middle of a call or between calls.         *)
LEMMA BreakingKeeps == ASSUME StoreInv, WriteBackFails, Die PROVE StoreInv'
<1>1. PICK N \in SUBSET Modified :
        /\ \A n \in N : CanOpen(n)
        /\ DOMAIN disk' = Fields
        /\ disk'.infos = disk.infos /\ disk'.dirs = disk.dirs
        /\ disk'.volume = disk.volume /\ disk'.point = disk.point
        /\ disk'.tmp \subseteq Num /\ disk'.lists = disk.lists
        /\ disk'.info = Flushed(N).info
  BY PartlyFlushed
<1>2. faults' \in 0..MaxFaults
  BY FaultCounted DEF WriteBackFails, StoreInv
<1>3. DOMAIN disk'.info \subseteq disk.dirs /\ \A n \in DOMAIN disk'.info : disk'.info[n] \in Info
  BY <1>1, FlushedKeeps DEF StoreInv, TypeOK
<1>4. building' \subseteq building /\ ~loaded' /\ loaded' \in BOOLEAN /\ entries' = NoInfo /\ op' = Idle
      /\ UNCHANGED <<fs, births>>
  BY DEF Die
<1> QED
  BY <1>1, <1>2, <1>3, <1>4, FreshKeeps

LEMMA AbortKeeps == ASSUME StoreInv, Abort PROVE StoreInv'
BY BreakingKeeps DEF Abort

-----------------------------------------------------------------------------
(* CreateConfig and DeleteConfig                                           *)

(* A step of a call that touches nothing but the config's own files        *)
LEMMA FilesKeep ==
  ASSUME StoreInv, UNCHANGED <<fs, disk, loaded, entries, building, births>>,
         Works \/ Fails, CallTyping' /\ CallProgress'
  PROVE  StoreInv'
<1>1. TypeOK'
  BY FaultCounted DEF StoreInv, TypeOK
<1>2. Agree' /\ NumbersUsed'
  BY DEF StoreInv, Agree, NumbersUsed, Listed
<1> QED
  BY <1>1, <1>2 DEF StoreInv

LEMMA CreateConfigKeeps == ASSUME StoreInv, CreateConfig PROVE StoreInv'
<1>1. CallTyping'
  BY DEF CreateConfig, CallTyping, Idle, Info, Text, Making
<1>2. CallProgress'
  BY DEF CreateConfig, CallProgress, Idle, Creating, Deleting, Making, Wiping
<1> QED
  BY <1>1, <1>2, FilesKeep DEF CreateConfig, Works

LEMMA MakingKeeps ==
  ASSUME StoreInv, AddName \/ CopyTemplate \/ SetValues
  PROVE  StoreInv'
<1>1. /\ op.pc \in Making
      /\ Works \/ Fails
      /\ UNCHANGED <<fs, disk, loaded, entries, building, births>>
      /\ ReplyWith("error") \/ \E pc \in Making : Goto(pc)
  BY DEF AddName, CopyTemplate, SetValues, SaveNames, storeVars, Making
<1>2. CallTyping' /\ CallProgress'
  <2>1. CASE ReplyWith("error")
    BY <1>1, <2>1, Answered DEF StoreInv, Making
  <2>2. ASSUME NEW pc \in Making, Goto(pc) PROVE CallTyping' /\ CallProgress'
    <3>1. CallTyping' /\ op'.pc \in Making /\ op'.kind = op.kind /\ op'.num = op.num
      BY <1>1, <2>2, WentOn DEF StoreInv, Making
    <3>2. CallProgress'
      BY <1>1, <3>1 DEF StoreInv, CallProgress, Creating, Deleting, Making, Wiping
    <3> QED
      BY <3>1, <3>2
  <2> QED
    BY <1>1, <2>1, <2>2
<1> QED
  BY <1>1, <1>2, FilesKeep

LEMMA CreateInfosKeeps == ASSUME StoreInv, CreateInfos PROVE StoreInv'
<1> USE DEF StoreInv
<1>1. CallTyping' /\ CallProgress'
  BY Answered DEF CreateInfos
<1>2. TypeOK'
  BY FaultCounted DEF TypeOK, CreateInfos, storeVars
<1>3. Agree' /\ NumbersUsed'
  BY DEF Agree, NumbersUsed, TypeOK, CreateInfos, storeVars, Listed
<1> QED
  BY <1>1, <1>2, <1>3

LEMMA DeleteConfigKeeps == ASSUME StoreInv, DeleteConfig PROVE StoreInv'
<1>1. CallTyping'
  <2>1. DOMAIN op' = {"kind", "pc", "num", "result", "info", "valid"} /\ op'.kind = "delete_config" /\ op'.num = 0
        /\ op'.info \in Info /\ op'.valid \in BOOLEAN /\ op'.pc \in {"wipe", "wipe_root", "reply"}
        /\ op'.result \in (IF op'.pc = "reply" THEN {"ok", "error"} ELSE {"none"})
    BY DEF DeleteConfig, Idle, Info, Text
  <2> QED
    BY <2>1 DEF CallTyping, Wiping
<1>2. CallProgress'
  BY DEF DeleteConfig, CallProgress, Idle, Creating, Deleting, Making, Wiping
<1> QED
  BY <1>1, <1>2, FilesKeep DEF DeleteConfig, Works

LEMMA WipeVolumeKeeps ==
  ASSUME StoreInv, ConfigTyping, WipeVolume
  PROVE  StoreInv'
<1> USE DEF StoreInv
<1>1. PICK n \in wiping :
        \/ /\ Works
           /\ disk' = [disk EXCEPT !.volume = @ \ {n}]
           /\ op' = [op EXCEPT !.pc = IF fs = "lvm" THEN "wipe_point" ELSE "wipe_files", !.num = n]
        \/ Fails /\ UNCHANGED disk /\ (UNCHANGED op \/ ReplyWith("error"))
  BY DEF WipeVolume
<1>2. UNCHANGED <<fs, loaded, entries, building, births>> /\ n \in Num /\ op.pc = "wipe"
  BY DEF WipeVolume, storeVars, ConfigTyping
<1>3. CASE Fails /\ UNCHANGED disk /\ (UNCHANGED op \/ ReplyWith("error"))
  <2>1. CallTyping' /\ CallProgress'
    <3>1. CASE UNCHANGED op
      BY <1>2, <1>3, <3>1, CallWaits
    <3>2. CASE ReplyWith("error")
      BY <1>2, <3>2, Answered
    <3> QED
      BY <1>3, <3>1, <3>2
  <2> QED
    BY <1>2, <1>3, <2>1, FilesKeep
<1>4. CASE /\ Works
           /\ disk' = [disk EXCEPT !.volume = @ \ {n}]
           /\ op' = [op EXCEPT !.pc = IF fs = "lvm" THEN "wipe_point" ELSE "wipe_files", !.num = n]
  <2>1. TypeOK'
    BY <1>2, <1>4, FaultCounted DEF TypeOK
  <2>2. Agree' /\ NumbersUsed'
    BY <1>2, <1>4 DEF Agree, NumbersUsed, TypeOK, Listed
  <2>3. CallTyping' /\ op'.pc \in {"wipe_point", "wipe_files"} /\ op'.num = n /\ op'.kind = op.kind
    BY <1>2, <1>4 DEF CallTyping, Wiping
  <2>4. CallProgress'
    BY <1>2, <1>4, <2>3 DEF CallProgress, TypeOK, Creating, Deleting, Making, Wiping
  <2> QED
    BY <2>1, <2>2, <2>3, <2>4
<1> QED
  BY <1>1, <1>3, <1>4

(* Steps of a DeleteConfig, which goes on or gives up                      *)
LEMMA WipingWentOn ==
  ASSUME StoreInv, op.pc \in Wiping, NEW pc \in Wiping, Goto(pc) \/ ReplyWith("error"),
         UNCHANGED <<loaded, entries>>, disk'.volume = disk.volume,
         pc = "wipe_files" => op.pc = "wipe_point", pc # "wipe_point"
  PROVE  CallTyping' /\ CallProgress'
<1> USE DEF StoreInv
<1>1. CASE ReplyWith("error")
  BY <1>1, Answered DEF Wiping
<1>2. CASE Goto(pc)
  <2>1. CallTyping' /\ op'.pc = pc /\ op'.kind = op.kind /\ op'.num = op.num
    BY <1>2, WentOn DEF Wiping
  <2>2. CallProgress'
    BY <2>1 DEF CallProgress, Creating, Deleting, Making, Wiping
  <2> QED
    BY <2>1, <2>2
<1> QED
  BY <1>1, <1>2

LEMMA WipePointKeeps == ASSUME StoreInv, WipePoint PROVE StoreInv'
<1> USE DEF StoreInv
<1>1. UNCHANGED <<fs, loaded, entries, building, births>> /\ op.pc = "wipe_point"
  BY DEF WipePoint, storeVars
<1>2. CASE Fails /\ UNCHANGED disk /\ (Goto("wipe_files") \/ ReplyWith("error"))
  BY <1>1, <1>2, WipingWentOn, FilesKeep DEF Wiping
<1>3. CASE Works /\ disk' = RmDir([disk EXCEPT !.point = @ \ {op.num}], op.num) /\ Goto("wipe_files")
  <2> DEFINE d == [disk EXCEPT !.point = @ \ {op.num}]
  <2>1. /\ DOMAIN d = Fields /\ d.infos = disk.infos /\ d.dirs = disk.dirs /\ d.info = disk.info
        /\ d.volume = disk.volume /\ d.point \subseteq disk.point /\ d.tmp = disk.tmp /\ d.lists = disk.lists
    BY DEF TypeOK, Fields
  <2> HIDE DEF d
  <2>2. disk' = RmDir(d, op.num)
    BY <1>3 DEF d
  <2>3. TypeOK'
    BY <1>1, <2>1, <2>2, RmDirKeeps, FaultCounted, <1>3 DEF TypeOK, Fields
  <2>4. Agree' /\ NumbersUsed'
    BY <1>1, <2>1, <2>2, RmDirKeeps DEF Agree, NumbersUsed, Listed
  <2>5. disk'.volume = disk.volume
    BY <2>1, <2>2, RmDirKeeps
  <2>6. CallTyping' /\ CallProgress'
    BY <1>1, <1>3, <2>5, WipingWentOn DEF Wiping
  <2> QED
    BY <2>3, <2>4, <2>6
<1> QED
  BY <1>2, <1>3 DEF WipePoint

(* Of its info.xml and of saved lists at most those to be deleted go.      *)
LEMMA WithoutFilesKeeps ==
  ASSUME TypeOK, NEW N, NEW L
  PROVE  /\ DOMAIN WithoutFiles(N, L) = Fields
         /\ WithoutFiles(N, L).infos = disk.infos /\ WithoutFiles(N, L).dirs = disk.dirs
         /\ WithoutFiles(N, L).volume = disk.volume /\ WithoutFiles(N, L).point = disk.point
         /\ WithoutFiles(N, L).tmp = disk.tmp
         /\ WithoutFiles(N, L).lists = disk.lists \ L
         /\ DOMAIN WithoutFiles(N, L).info = DOMAIN disk.info \ N
         /\ \A m \in DOMAIN disk.info \ N : WithoutFiles(N, L).info[m] = disk.info[m]
BY DEF TypeOK, WithoutFiles, Restrict, Fields

LEMMA FilesWiped ==
  ASSUME TypeOK, WipeFiles
  PROVE  \E N \in SUBSET {op.num} :
           /\ DOMAIN disk' = Fields
           /\ disk'.infos = disk.infos /\ disk'.dirs \subseteq disk.dirs
           /\ disk'.volume = disk.volume /\ disk'.point = disk.point /\ disk'.tmp = disk.tmp
           /\ disk'.lists \subseteq disk.lists
           /\ DOMAIN disk'.info = DOMAIN disk.info \ N
           /\ \A m \in DOMAIN disk.info \ N : disk'.info[m] = disk.info[m]
           /\ DOMAIN disk'.info \subseteq disk'.dirs
<1>1. PICK N \in SUBSET {op.num}, L \in SUBSET disk.lists :
        disk' \in {WithoutFiles(N, L), RmDir(WithoutFiles(N, L), op.num)}
  <2> DEFINE about == {l \in disk.lists : op.num \in {l.low, l.high}}
  <2>1. \/ disk' = RmDir(WithoutFiles({op.num}, about), op.num)
        \/ \E N \in SUBSET {op.num}, L \in SUBSET about :
             disk' \in {WithoutFiles(N, L), RmDir(WithoutFiles(N, L), op.num)}
    BY DEF WipeFiles
  <2>2. about \subseteq disk.lists /\ {op.num} \subseteq {op.num}
    OBVIOUS
  <2> HIDE DEF about
  <2> QED
    BY <2>1, <2>2
<1> DEFINE d == WithoutFiles(N, L)
<1>2. /\ DOMAIN d = Fields
      /\ d.infos = disk.infos /\ d.dirs = disk.dirs
      /\ d.volume = disk.volume /\ d.point = disk.point /\ d.tmp = disk.tmp
      /\ d.lists = disk.lists \ L
      /\ DOMAIN d.info = DOMAIN disk.info \ N
      /\ \A m \in DOMAIN disk.info \ N : d.info[m] = disk.info[m]
  BY WithoutFilesKeeps
<1>3. DOMAIN d.info \subseteq d.dirs
  BY <1>2 DEF TypeOK
<1> HIDE DEF d
<1>4. CASE disk' = d
  BY <1>2, <1>3, <1>4
<1>5. CASE disk' = RmDir(d, op.num)
  BY <1>2, <1>3, <1>5, RmDirKeeps
<1> QED
  BY <1>1, <1>4, <1>5 DEF d

LEMMA WipeFilesKeeps == ASSUME StoreInv, WipeFiles PROVE StoreInv'
<1> USE DEF StoreInv
<1>1. PICK N \in SUBSET {op.num} :
        /\ DOMAIN disk' = Fields
        /\ disk'.infos = disk.infos /\ disk'.dirs \subseteq disk.dirs
        /\ disk'.volume = disk.volume /\ disk'.point = disk.point /\ disk'.tmp = disk.tmp
        /\ disk'.lists \subseteq disk.lists
        /\ DOMAIN disk'.info = DOMAIN disk.info \ N
        /\ \A m \in DOMAIN disk.info \ N : disk'.info[m] = disk.info[m]
        /\ DOMAIN disk'.info \subseteq disk'.dirs
  BY FilesWiped
<1>2. op.num \notin disk.volume /\ UNCHANGED <<fs, loaded, entries, building, births>> /\ op.pc = "wipe_files"
  BY DEF WipeFiles, storeVars, CallProgress
<1>3. TypeOK'
  <2>1. faults' \in 0..MaxFaults
    BY FaultCounted DEF WipeFiles
  <2> QED
    BY <1>1, <1>2, <2>1 DEF TypeOK, Fields
<1>4. Agree'
  BY <1>1, <1>2 DEF Agree, Listed
<1>5. NumbersUsed'
  BY <1>1, <1>2 DEF NumbersUsed
<1>6. Goto("wipe") \/ ReplyWith("error")
  BY DEF WipeFiles
<1>7. CallTyping' /\ CallProgress'
  BY <1>1, <1>2, <1>6, WipingWentOn DEF Wiping
<1> QED
  BY <1>3, <1>4, <1>5, <1>7

LEMMA DeleteInfosKeeps == ASSUME StoreInv, DeleteInfos PROVE StoreInv'
<1> USE DEF StoreInv
<1>1. CASE disk' = disk /\ ReplyWith("error")
  <2>1. CallTyping' /\ CallProgress'
    BY <1>1, Answered DEF DeleteInfos
  <2> QED
    BY <1>1, <2>1, FilesKeep DEF DeleteInfos, storeVars
<1>2. CASE /\ Works /\ Removable /\ Goto("delete_file")
           /\ disk' = [EmptyDisk EXCEPT !.infos = FALSE, !.volume = disk.volume]
  <2>1. /\ DOMAIN disk' = Fields
        /\ disk'.infos = FALSE /\ disk'.dirs = {} /\ DOMAIN disk'.info = {}
        /\ disk'.volume = disk.volume /\ disk'.point = {} /\ disk'.tmp = {} /\ disk'.lists = {}
    BY <1>2 DEF EmptyDisk, Fields, NoInfo
  <2>2. DOMAIN disk.info \cap disk.volume = {}
    BY <1>2 DEF Removable, TypeOK
  <2>3. UNCHANGED <<fs, loaded, entries, building, births>>
    BY DEF DeleteInfos, storeVars
  <2>4. TypeOK'
    <3>1. faults' \in 0..MaxFaults
      BY <1>2, FaultCounted
    <3> QED
      BY <2>1, <2>3, <3>1 DEF TypeOK, Fields
  <2>5. Agree' /\ NumbersUsed'
    BY <2>1, <2>2, <2>3 DEF Agree, NumbersUsed, Listed
  <2>6. CallTyping' /\ op'.pc = "delete_file" /\ op'.kind = op.kind
    BY <1>2, WentOn DEF DeleteInfos, Wiping
  <2>7. CallProgress'
    BY <2>6 DEF DeleteInfos, CallProgress, Creating, Deleting, Making, Wiping
  <2> QED
    BY <2>4, <2>5, <2>6, <2>7
<1> QED
  BY <1>1, <1>2 DEF DeleteInfos

LEMMA DeleteFileKeeps == ASSUME StoreInv, WipeRoot \/ DeleteFile \/ RemoveName PROVE StoreInv'
<1>1. /\ op.pc \in {"wipe_root", "delete_file", "remove_name"}
      /\ Works \/ Fails
      /\ UNCHANGED <<fs, disk, loaded, entries, building, births>>
      /\ ReplyWith("error") \/ \E pc \in {"delete_file", "remove_name", "erase"} : Goto(pc)
  BY DEF WipeRoot, DeleteFile, RemoveName, SaveNames, storeVars
<1>2. CallTyping' /\ CallProgress'
  BY <1>1, WipingWentOn DEF Wiping
<1> QED
  BY <1>1, <1>2, FilesKeep

LEMMA EraseKeeps == ASSUME StoreInv, Erase PROVE StoreInv'
<1> USE DEF StoreInv
<1>1. CallTyping' /\ CallProgress'
  BY Answered DEF Erase
<1>2. /\ disk' = Flushed(Modified) /\ ~loaded' /\ loaded' \in BOOLEAN /\ entries' = NoInfo
      /\ UNCHANGED <<fs, building, births, faults>>
      /\ \A n \in Modified : CanOpen(n)
  BY DEF Erase, WriteBack
<1>3. /\ DOMAIN disk' = Fields
      /\ disk'.infos = disk.infos /\ disk'.dirs = disk.dirs
      /\ disk'.volume = disk.volume /\ disk'.point = disk.point
      /\ disk'.tmp = disk.tmp /\ disk'.lists = disk.lists
      /\ DOMAIN disk'.info \subseteq DOMAIN disk.info \cup (disk.dirs \ disk.volume)
      /\ \A n \in DOMAIN disk'.info : disk'.info[n] \in Info
  BY <1>2, FlushedKeeps
<1>4. TypeOK'
  BY <1>2, <1>3 DEF TypeOK, NoInfo, Fields
<1>5. Agree' /\ NumbersUsed'
  BY <1>2, <1>3 DEF Agree, NumbersUsed, NoInfo
<1> QED
  BY <1>1, <1>4, <1>5

LEMMA DieErasingKeeps == ASSUME StoreInv, DieErasing PROVE StoreInv'
<1>1. CASE WriteBackFails
  BY <1>1, BreakingKeeps DEF DieErasing
<1>2. CASE UNCHANGED disk /\ Works
  <2>1. /\ DOMAIN disk = Fields /\ disk.tmp \subseteq Num /\ faults' \in 0..MaxFaults
        /\ DOMAIN disk.info \subseteq disk.dirs
        /\ \A n \in DOMAIN disk.info : disk.info[n] \in Info
    BY <1>2 DEF StoreInv, TypeOK, Fields, Works
  <2>2. building' \subseteq building /\ ~loaded' /\ loaded' \in BOOLEAN /\ entries' = NoInfo /\ op' = Idle
        /\ UNCHANGED <<fs, births>>
    BY DEF DieErasing, Die
  <2> QED
    BY <1>2, <2>1, <2>2, FreshKeeps
<1> QED
  BY <1>1, <1>2 DEF DieErasing

-----------------------------------------------------------------------------
(* The invariant                                                           *)

LEMMA ConfigTypingKept ==
  ASSUME StoreInv, ConfigTyping, [ConfigNext]_allVars
  PROVE  ConfigTyping'
<1> USE DEF ConfigTyping
<1>1. CASE UNCHANGED configVars
  BY <1>1 DEF configVars
<1>2. CASE CreateConfig \/ AddName \/ CopyTemplate \/ SetValues \/ CreateInfos
  BY <1>2 DEF CreateConfig, AddName, CopyTemplate, SetValues, CreateInfos, SaveNames, configVars, rootVars
<1>3. CASE DeleteConfig
  BY <1>3, ReadableListed DEF StoreInv, DeleteConfig, Listed, TypeOK
<1>4. CASE WipeVolume \/ WipePoint \/ WipeFiles \/ DeleteInfos
  BY <1>4 DEF WipeVolume, WipePoint, WipeFiles, DeleteInfos, configVars, rootVars
<1>6. CASE WipeRoot \/ DeleteFile \/ RemoveName \/ Erase \/ LoadRoot \/ UnloadRoot
  BY <1>6 DEF WipeRoot, DeleteFile, RemoveName, Erase, LoadRoot, UnloadRoot, SaveNames, rootVars
<1>5. CASE Restarted
  BY <1>5 DEF Restarted
<1> QED
  BY <1>1, <1>2, <1>3, <1>4, <1>5, <1>6
     DEF ConfigNext, allVars, CrashAndRestart, AbortAndRestart, DieErasing

LEMMA StoreInvKept ==
  ASSUME StoreInv, ConfigTyping, [ConfigNext]_allVars
  PROVE  StoreInv'
<1>1. CASE Call
  BY <1>1, CreateKeeps, SetKeeps, DeleteKeeps DEF Call
<1>2. CASE Load
  BY <1>2, LoadKeeps
<1>3. CASE Work
  BY <1>3, CreateVolumeKeeps, CreatePointKeeps, WriteInfoKeeps, FlushKeeps, DeleteVolumeKeeps,
     DeletePointKeeps, DeleteInfoKeeps, DeleteOwnListsKeeps, DeleteListsKeeps, DeleteDirKeeps, ReplyKeeps,
     CompareKeeps, SaveKeeps, UnloadKeeps DEF Work
<1>4. CASE CreateConfig \/ AddName \/ CopyTemplate \/ SetValues \/ CreateInfos
  BY <1>4, CreateConfigKeeps, MakingKeeps, CreateInfosKeeps
<1>5. CASE \/ DeleteConfig \/ WipeRoot \/ WipeVolume \/ WipePoint \/ WipeFiles \/ DeleteInfos
           \/ DeleteFile \/ RemoveName \/ Erase
  BY <1>5, DeleteConfigKeeps, WipeVolumeKeeps, WipePointKeeps, WipeFilesKeeps, DeleteInfosKeeps,
     DeleteFileKeeps, EraseKeeps
<1>6. CASE CrashAndRestart \/ AbortAndRestart \/ DieErasing
  BY <1>6, CrashKeeps, AbortKeeps, DieErasingKeeps DEF CrashAndRestart, AbortAndRestart
<1>7. CASE LoadRoot \/ UnloadRoot \/ UNCHANGED allVars
  <2>1. UNCHANGED vars
    BY <1>7 DEF LoadRoot, UnloadRoot, allVars
  <2> QED
    BY <2>1 DEF vars, StoreInv, TypeOK, Agree, NumbersUsed, CallTyping, CallProgress, Listed
<1> QED
  BY <1>1, <1>2, <1>3, <1>4, <1>5, <1>6, <1>7 DEF ConfigNext

LEMMA StoreInvInit == ConfigInit => StoreInv /\ ConfigTyping
<1> SUFFICES ASSUME ConfigInit PROVE StoreInv /\ ConfigTyping
  OBVIOUS
<1> USE DEF ConfigInit
<1>1. TypeOK
  <2>1. DOMAIN disk = Fields /\ disk.infos = FALSE /\ disk.dirs = {} /\ DOMAIN disk.info = {}
        /\ disk.volume = {} /\ disk.point = {} /\ disk.tmp = {} /\ disk.lists = {}
    BY DEF EmptyDisk, NoInfo, Fields
  <2>2. births \in [Num -> 0..MaxBirths] /\ faults \in 0..MaxFaults
    BY StoreConstants
  <2> QED
    BY <2>1, <2>2 DEF TypeOK, NoInfo, Fields
<1>2. Agree /\ NumbersUsed
  BY DEF Agree, NumbersUsed, EmptyDisk, NoInfo, Listed
<1>3. CallTyping /\ CallProgress
  BY DEF CallTyping, CallProgress, Idle, Info, Text, Creating, Deleting, Making, Wiping
<1> QED
  BY <1>1, <1>2, <1>3 DEF StoreInv, ConfigTyping

(* Whatever fails and whenever the daemon dies, the list in memory and     *)
(* what is stored agree as far as StoreInv says.                           *)
THEOREM StoreInvariance == ConfigSpec => [](StoreInv /\ ConfigTyping)
<1>1. StoreInv /\ ConfigTyping /\ [ConfigNext]_allVars => (StoreInv /\ ConfigTyping)'
  BY StoreInvKept, ConfigTypingKept
<1> QED
  BY StoreInvInit, <1>1, PTL DEF ConfigSpec

(* Every variable of the store and of the config keeps its type.           *)
THEOREM StoreTypes == ConfigSpec => []ConfigTypeOK
<1>1. StoreInv /\ ConfigTyping => ConfigTypeOK
  BY DEF StoreInv, ConfigTyping, ConfigTypeOK
<1> QED
  BY StoreInvariance, <1>1, PTL

(* Between calls the list in memory is what a restart would read, but for  *)
(* texts yet to be written and entries that have lost their volume.        *)
THEOREM MemoryMatchesDisk == ConfigSpec => []ListMatchesDisk
<1>1. StoreInv => ListMatchesDisk
  <2>1. StoreInv => DOMAIN Durable = Listed /\ \A n \in Listed : Durable[n] = disk.info[n]
    BY ReadableListed DEF StoreInv
  <2> QED
    BY <2>1 DEF StoreInv, Agree, Listed, ListMatchesDisk
<1> QED
  BY StoreInvariance, <1>1, PTL

-----------------------------------------------------------------------------
(* The refinement of SnapshotSet                                           *)

Kinds == {"create", "set", "delete", "create_config", "delete_config"}

LEMMA SeenBefore == ASSUME StoreInv PROVE Durable = [n \in Listed |-> disk.info[n]]
BY ReadableListed DEF StoreInv

LEMMA SeenAfter == ASSUME StoreInv' PROVE Durable' = [n \in Listed' |-> disk'.info[n]]
BY DEF StoreInv, TypeOK, NumbersUsed, Readable, CheckSnapshot, Listed, Durable, Restrict

LEMMA SameDurable ==
  ASSUME StoreInv, StoreInv', Listed' = Listed, \A n \in Listed : disk'.info[n] = disk.info[n]
  PROVE  Durable' = Durable
BY SeenBefore, SeenAfter

(* Neither a stored text nor a volume nor the list is touched.             *)
LEMMA SameSnapshots ==
  ASSUME StoreInv, StoreInv', disk'.info = disk.info, disk'.volume = disk.volume, entries' = entries
  PROVE  Durable' = Durable /\ Modified' = Modified
BY SameDurable DEF Listed, Modified

(* A step nobody sees                                                      *)
LEMMA Unseen ==
  ASSUME Durable' = Durable, Modified' = Modified, op'.kind = op.kind, op'.result = op.result,
         op'.num = op.num \/ op.kind = "delete_config"
  PROVE  UNCHANGED Promise!vars
BY DEF Promise!vars

(* A call that has not been answered fails, or succeeds without a change.  *)
LEMMA Failing ==
  ASSUME CallTyping, op.kind \in Kinds, op.result = "none", ReplyWith("error"), Durable' = Durable,
         Modified' \in {Modified, Modified \cup {op.num}, Modified \ {op.num}},
         Modified' = Modified \/ op.kind \in {"set", "delete"} \/ (op.kind = "create" /\ op.num \in DOMAIN Durable)
  PROVE  Promise!Next
<1>1. op'.kind = op.kind /\ op'.num = op.num /\ op'.result = "error"
  BY DEF CallTyping, ReplyWith
<1>2. Promise!Fail(op.kind)
  BY <1>1 DEF Promise!Fail, Promise!Serving, Promise!Remembered
<1> QED
  BY <1>2 DEF Promise!Next, Promise!Kinds, Kinds

LEMMA CreateSeen ==
  ASSUME StoreInv, StoreInv', NEW type, NEW p, NEW valid, Create(type, p, valid)
  PROVE  Promise!Next
<1>1. Durable' = Durable /\ Modified' = Modified
  BY SameSnapshots DEF Create, StoreInv, TypeOK
<1>2. /\ op = Idle /\ op'.kind = "create" /\ op'.result \in {"none", "error"}
      /\ op'.num \notin DOMAIN Durable
  <2>1. 0 \notin DOMAIN Durable
    BY SeenBefore, StoreConstants DEF Listed, StoreInv, TypeOK
  <2>2. \A n \in NextNumber : n \notin DOMAIN Durable
    BY SeenBefore DEF NextNumber, Listed, StoreInv, TypeOK
  <2> QED
    BY <2>1, <2>2 DEF Create, Idle
<1>3. Promise!Begin("create", 0, op'.result)
  BY <1>1, <1>2 DEF Promise!Begin, Promise!NoCall, Idle
<1> QED
  BY <1>2, <1>3 DEF Promise!Next, Promise!Kinds

LEMMA CreateVolumeSeen ==
  ASSUME StoreInv, StoreInv', CreateVolume \/ CreatePoint
  PROVE  [Promise!Next]_(Promise!vars)
<1>1. /\ op.kind = "create" /\ op.result = "none" /\ op.num \notin DOMAIN disk.info
      /\ op.pc \in {"create_volume", "create_point"}
  BY DEF StoreInv, CallTyping, CallProgress, CreateVolume, CreatePoint, Creating
<1>2. disk'.info = disk.info /\ disk'.volume \in {disk.volume, disk.volume \cup {op.num}}
  <2>1. DOMAIN disk = Fields
    BY DiskFields DEF StoreInv
  <2>2. CASE disk' \in {disk, RmDir(disk, op.num)}
    BY <2>1, <2>2, RmDirKeeps
  <2>3. CASE disk' = [disk EXCEPT !.volume = @ \cup {op.num}] \/ disk' = [disk EXCEPT !.point = @ \cup {op.num}]
    BY <2>1, <2>3 DEF Fields
  <2> QED
    BY <2>2, <2>3 DEF CreateVolume, CreatePoint
<1>3. Durable' = Durable /\ Modified' = Modified
  BY <1>1, <1>2, SameDurable DEF Listed, Modified, CreateVolume, CreatePoint, storeIdle
<1>4. CASE ReplyWith("error")
  BY <1>1, <1>3, <1>4, Failing DEF StoreInv, Kinds
<1>5. CASE op'.kind = op.kind /\ op'.num = op.num /\ op'.result = op.result
  BY <1>3, <1>5, Unseen
<1> QED
  BY <1>4, <1>5 DEF CreateVolume, CreatePoint, Goto, StoreInv, CallTyping

LEMMA WriteInfoSeen ==
  ASSUME StoreInv, StoreInv', WriteInfo
  PROVE  [Promise!Next]_(Promise!vars)
<1>1. /\ op.kind = "create" /\ op.result = "none" /\ op.num \notin DOMAIN disk.info
      /\ op.num \notin DOMAIN entries /\ op.num \in disk.dirs /\ op.num \in Num /\ op.num \in disk.volume
      /\ op.info \in Info
  BY DEF StoreInv, CallTyping, CallProgress, WriteInfo, Creating, TypeOK
<1>2. op'.kind = op.kind /\ op'.num = op.num /\ op'.result = op.result
  BY DEF WriteInfo, Goto, StoreInv, CallTyping
<1>3. CASE /\ disk' = Written(disk, op.num, op.info)
           /\ entries' = [n \in DOMAIN entries \cup {op.num} |->
                            IF n = op.num THEN [info |-> op.info, info_modified |-> FALSE] ELSE entries[n]]
  <2>1. Listed' = Listed \cup {op.num} /\ \A n \in Listed : disk'.info[n] = disk.info[n]
    BY <1>1, <1>3, WrittenKeeps DEF StoreInv, Listed
  <2>2. /\ DOMAIN Durable' = DOMAIN Durable \cup {op.num} /\ op.num \notin DOMAIN Durable
        /\ Restrict(Durable', DOMAIN Durable) = Durable
    BY <1>1, <2>1, SeenBefore, SeenAfter DEF Listed, Restrict
  <2>3. Modified' = Modified
    BY <1>1, <1>3 DEF Modified
  <2>4. Promise!Appear(op.num)
    BY <1>1, <1>2, <2>2, <2>3 DEF Promise!Appear, Promise!Serving, Promise!Restrict, Restrict
  <2> QED
    BY <1>1, <2>4 DEF Promise!Next
<1>4. CASE NotWritten(op.num) /\ UNCHANGED entries
  <2>1. disk'.info = disk.info /\ disk'.volume = disk.volume
    BY <1>1, <1>4, NotWrittenKeeps DEF StoreInv
  <2> QED
    BY <1>2, <1>4, <2>1, SameSnapshots, Unseen
<1> QED
  BY <1>3, <1>4 DEF WriteInfo

LEMMA SetSeen ==
  ASSUME StoreInv, StoreInv', NEW n \in Num, NEW valid, Set(n, valid) \/ Delete(n)
  PROVE  Promise!Next
<1>1. Durable' = Durable /\ Modified' = Modified
  BY SameSnapshots DEF Set, Delete
<1>2. op = Idle /\ op'.kind \in {"set", "delete"} /\ op'.result = "none" /\ op'.num = n
  BY DEF Set, Delete, Idle
<1>3. Promise!Begin(op'.kind, n, "none")
  BY <1>1, <1>2 DEF Promise!Begin, Promise!NoCall, Idle
<1> QED
  BY <1>2, <1>3 DEF Promise!Next, Promise!Kinds

LEMMA FlushSeen ==
  ASSUME StoreInv, StoreInv', Flush
  PROVE  Promise!Next
<1>1. /\ op.kind \in {"create", "set"} /\ op.result = "none" /\ op.num \in DOMAIN entries
      /\ op.num \in Num
      /\ op.kind = "create" => op.num \in Listed
      /\ op.info.type = entries[op.num].info.type /\ op.info.pre_num = entries[op.num].info.pre_num
  BY DEF StoreInv, TypeOK, CallTyping, CallProgress, Flush
<1>2. op.kind = "create" => op.num \in DOMAIN Durable
  BY <1>1, SeenBefore
<1>3. CASE /\ CanOpen(op.num) /\ disk' = Written(disk, op.num, FlushedInfo) /\ ReplyWith("ok")
           /\ entries' = [entries EXCEPT ![op.num] = [info |-> FlushedInfo, info_modified |-> FALSE]]
  <2>1. /\ DOMAIN disk'.info = DOMAIN disk.info \cup {op.num} /\ disk'.info[op.num] = FlushedInfo
        /\ disk'.volume = disk.volume
        /\ \A m \in DOMAIN disk.info : m # op.num => disk'.info[m] = disk.info[m]
    <3>1. op.num \in disk.dirs /\ FlushedInfo \in Info /\ TypeOK
      BY <1>3, FlushedInfoTyped DEF StoreInv, CanOpen
    <3> QED
      BY <1>3, <3>1, WrittenKeeps
  <2>2. Listed' = Listed
    BY <1>1, <2>1 DEF StoreInv, Agree, Listed
  <2>3. \A n \in Listed :
          /\ n # op.num => disk'.info[n] = disk.info[n]
          /\ disk'.info[n].type = disk.info[n].type /\ disk'.info[n].pre_num = disk.info[n].pre_num
    BY <1>1, <2>1, FlushedInfoTyped DEF StoreInv, Agree, Listed
  <2>4. Promise!Rewrite({op.num})
    BY <2>2, <2>3, SeenBefore, SeenAfter DEF Promise!Rewrite
  <2>5. Modified' = Modified \ {op.num}
    BY <1>1, <1>3 DEF Modified
  <2>6. op'.kind = op.kind /\ op'.num = op.num /\ op'.result = "ok"
    BY <1>3 DEF ReplyWith, StoreInv, CallTyping
  <2>7. DOMAIN Durable' = DOMAIN Durable
    BY <2>2, SeenBefore, SeenAfter
  <2>8. Promise!Succeed(op.kind)
    BY <1>1, <1>2, <2>4, <2>5, <2>6, <2>7 DEF Promise!Succeed, Promise!Serving, Promise!Remembered
  <2> QED
    BY <1>1, <2>8 DEF Promise!Next, Promise!Kinds
<1>4. CASE /\ disk' = disk \/ NotWritten(op.num)
           /\ entries' = [entries EXCEPT ![op.num] = [info |-> FlushedInfo, info_modified |-> TRUE]]
           /\ ReplyWith("error")
  <2>1. disk'.info = disk.info /\ disk'.volume = disk.volume
    BY <1>1, <1>4, NotWrittenKeeps DEF StoreInv
  <2>2. Durable' = Durable
    BY <2>1, SameDurable DEF Listed
  <2>3. Modified' = Modified \cup {op.num}
    BY <1>1, <1>4 DEF Modified
  <2> QED
    BY <1>1, <1>2, <1>4, <2>2, <2>3, Failing DEF StoreInv, Kinds
<1> QED
  BY <1>3, <1>4 DEF Flush, FlushedInfo, Unwritten

(* The volume of a snapshot goes, and with it the snapshot if it had one.  *)
LEMMA Vanishing ==
  ASSUME StoreInv, StoreInv', NEW kind \in {"delete", "delete_config"}, NEW n,
         op.kind = kind, op'.kind = kind, op.result = "none", op'.result = "none",
         kind = "delete" => op.num = n /\ op'.num = n,
         disk'.info = disk.info, disk'.volume = disk.volume \ {n}, entries' = entries
  PROVE  [Promise!Next]_(Promise!vars)
<1>1. Listed' = Listed \ {n} /\ Modified' = Modified
  BY DEF Listed, Modified
<1>2. Durable' = Restrict(Durable, DOMAIN Durable \ {n})
  BY <1>1, SeenBefore, SeenAfter DEF Restrict
<1>3. CASE n \in DOMAIN Durable
  <2>1. Promise!Vanish(kind)
    BY <1>1, <1>2, <1>3 DEF Promise!Vanish, Promise!Serving, Promise!Restrict, Restrict
  <2> QED
    BY <2>1 DEF Promise!Next
<1>4. CASE n \notin DOMAIN Durable
  <2>1. Durable' = Durable
    BY <1>4, <1>1, SeenBefore, SeenAfter
  <2> QED
    BY <1>1, <2>1, Unseen
<1> QED
  BY <1>3, <1>4

LEMMA DeleteVolumeSeen ==
  ASSUME StoreInv, StoreInv', DeleteVolume
  PROVE  [Promise!Next]_(Promise!vars)
<1>1. /\ op.kind \in {"create", "delete"} /\ op.result = "none"
      /\ op.kind = "create" => op.num \notin DOMAIN disk.info
  BY DEF StoreInv, CallTyping, CallProgress, DeleteVolume, Creating, Deleting
<1>2. CASE disk' = disk /\ ReplyWith("error")
  BY <1>1, <1>2, SameSnapshots, Failing DEF DeleteVolume, storeIdle, StoreInv, Kinds
<1>3. CASE /\ disk' = [disk EXCEPT !.volume = @ \ {op.num}]
           /\ op' = [op EXCEPT !.pc = IF fs = "btrfs" THEN AfterVolume
                                     ELSE IF @ = "undo_volume" THEN "undo_point" ELSE "delete_point"]
  <2>1. op'.kind = op.kind /\ op'.num = op.num /\ op'.result = op.result /\ entries' = entries
    BY <1>3 DEF StoreInv, CallTyping, DeleteVolume, storeIdle
  <2>2. disk'.info = disk.info /\ disk'.volume = disk.volume \ {op.num}
    BY <1>3 DEF StoreInv, TypeOK
  <2>3. CASE op.kind = "delete"
    BY <1>1, <2>1, <2>2, <2>3, Vanishing
  <2>4. CASE op.kind = "create"
    <3>1. Durable' = Durable /\ Modified' = Modified
      BY <1>1, <2>1, <2>2, <2>4, SameDurable DEF Listed, Modified
    <3> QED
      BY <2>1, <3>1, Unseen
  <2> QED
    BY <1>1, <2>3, <2>4
<1> QED
  BY <1>2, <1>3 DEF DeleteVolume

LEMMA DeleteRestSeen ==
  ASSUME StoreInv, StoreInv', DeletePoint \/ DeleteInfo \/ DeleteOwnLists \/ DeleteLists
  PROVE  [Promise!Next]_(Promise!vars)
<1>1. /\ op.kind \in {"create", "delete"} /\ op.result = "none"
      /\ op.pc = "delete_info" => op.num \notin disk.volume
  BY DEF StoreInv, CallTyping, CallProgress, DeletePoint, DeleteInfo, DeleteOwnLists, DeleteLists, Creating, Deleting
<1>2. /\ Listed' = Listed /\ entries' = entries
      /\ \A n \in Listed : disk'.info[n] = disk.info[n]
      /\ ReplyWith("error") \/ (op'.kind = op.kind /\ op'.num = op.num /\ op'.result = op.result)
  <2>1. CASE DeletePoint
    <3>1. disk'.info = disk.info /\ disk'.volume = disk.volume
      BY <2>1, RmDirKeeps DEF DeletePoint, StoreInv, TypeOK, Fields
    <3> QED
      BY <2>1, <3>1 DEF DeletePoint, storeIdle, Listed, Goto, StoreInv, CallTyping
  <2>2. CASE DeleteInfo
    <3>1. op.num \notin disk.volume /\ entries' = entries
      BY <1>1, <2>2 DEF DeleteInfo, storeIdle
    <3>2. CASE disk' = disk
      BY <2>2, <3>1, <3>2 DEF DeleteInfo, Listed, Goto, StoreInv, CallTyping
    <3>3. CASE disk' = [disk EXCEPT !.info = Restrict(@, DOMAIN @ \ {op.num})]
      <4>1. disk'.info = Restrict(disk.info, DOMAIN disk.info \ {op.num}) /\ disk'.volume = disk.volume
        BY <3>3 DEF StoreInv, TypeOK
      <4>2. ReplyWith("error") \/ (op'.kind = op.kind /\ op'.num = op.num /\ op'.result = op.result)
        BY <2>2 DEF DeleteInfo, Goto, StoreInv, CallTyping
      <4> QED
        BY <3>1, <4>1, <4>2 DEF Listed, Restrict
    <3> QED
      BY <2>2, <3>2, <3>3 DEF DeleteInfo
  <2>3. CASE DeleteOwnLists \/ DeleteLists
    <3>1. \E L, next : UnlinkLists(L, next) /\ next.kind = op.kind /\ next.num = op.num
                         /\ (next = [op EXCEPT !.pc = "reply", !.result = "error"] \/ next.result = op.result)
      <4>1. CASE DeleteOwnLists
        <5>1. UnlinkLists({l \in disk.lists : l.high = op.num}, [op EXCEPT !.pc = "delete_lists"])
          BY <4>1 DEF DeleteOwnLists
        <5>2. /\ [op EXCEPT !.pc = "delete_lists"].kind = op.kind /\ [op EXCEPT !.pc = "delete_lists"].num = op.num
              /\ [op EXCEPT !.pc = "delete_lists"].result = op.result
          BY DEF StoreInv, CallTyping
        <5> QED
          BY <5>1, <5>2
      <4>2. CASE DeleteLists
        <5> DEFINE closed == {m \in DOMAIN entries : ~CanOpen(m)}
                   reached == {m \in DOMAIN entries : \A k \in closed : m < k}
                   L == {l \in disk.lists : l.low = op.num /\ l.high \in reached}
                   next == IF closed = {} THEN [op EXCEPT !.pc = "delete_dir"]
                                          ELSE [op EXCEPT !.pc = "reply", !.result = "error"]
        <5>1. UnlinkLists(L, next)
          BY <4>2 DEF DeleteLists
        <5>2. /\ next.kind = op.kind /\ next.num = op.num
              /\ next = [op EXCEPT !.pc = "reply", !.result = "error"] \/ next.result = op.result
          BY DEF StoreInv, CallTyping
        <5> HIDE DEF L, next
        <5> QED
          BY <5>1, <5>2
      <4> QED
        BY <2>3, <4>1, <4>2
    <3>2. PICK L, next : /\ UnlinkLists(L, next) /\ next.kind = op.kind /\ next.num = op.num
                         /\ next = [op EXCEPT !.pc = "reply", !.result = "error"] \/ next.result = op.result
      BY <3>1
    <3>3. disk'.info = disk.info /\ disk'.volume = disk.volume
      BY <3>2, Unlinking DEF StoreInv, Fewer
    <3>4. op' = op \/ op' = next \/ ReplyWith("error")
      BY <3>2, Unlinking DEF StoreInv
    <3>5. ReplyWith("error") \/ (op'.kind = op.kind /\ op'.num = op.num /\ op'.result = op.result)
      BY <3>2, <3>4 DEF ReplyWith
    <3> QED
      BY <2>3, <3>3, <3>5 DEF DeleteOwnLists, DeleteLists, storeIdle, Listed
  <2> QED
    BY <2>1, <2>2, <2>3
<1>3. Durable' = Durable /\ Modified' = Modified
  BY <1>2, SameDurable DEF Modified
<1>4. CASE ReplyWith("error")
  BY <1>1, <1>3, <1>4, Failing DEF StoreInv, Kinds
<1>5. CASE op'.kind = op.kind /\ op'.num = op.num /\ op'.result = op.result
  BY <1>3, <1>5, Unseen
<1> QED
  BY <1>2, <1>4, <1>5

LEMMA DeleteDirSeen ==
  ASSUME StoreInv, StoreInv', DeleteDir
  PROVE  Promise!Next
<1>1. disk'.info = disk.info /\ disk'.volume = disk.volume
  BY DiskFields, RmDirKeeps DEF DeleteDir, StoreInv
<1>2. Durable' = Durable
  BY <1>1, SameDurable DEF Listed
<1>3. op.kind \in {"create", "delete"} /\ op.result = "none"
  BY DEF DeleteDir, StoreInv, CallTyping, CallProgress, Creating, Deleting
<1>4. CASE ReplyWith("error") /\ entries' = entries
  <2>1. Modified' = Modified
    BY <1>4 DEF Modified
  <2> QED
    BY <1>2, <1>3, <1>4, <2>1, Failing DEF StoreInv, Kinds
<1>5. CASE /\ op.pc = "delete_dir" /\ ReplyWith("ok")
           /\ entries' = Restrict(entries, DOMAIN entries \ {op.num})
  <2>1. op.kind = "delete" /\ op.num \notin disk.volume
    BY <1>5 DEF StoreInv, CallProgress, Deleting
  <2>2. op'.kind = op.kind /\ op'.num = op.num /\ op'.result = "ok"
    BY <1>5 DEF ReplyWith, StoreInv, CallTyping
  <2>3. Modified' = Modified \ {op.num}
    BY <1>5 DEF Modified, Restrict
  <2>4. op.num \notin DOMAIN Durable
    BY <2>1, SeenBefore DEF Listed
  <2>5. Promise!Succeed("delete")
    BY <1>2, <1>3, <2>1, <2>2, <2>3, <2>4 DEF Promise!Succeed, Promise!Serving, Promise!Remembered
  <2> QED
    BY <2>5 DEF Promise!Next, Promise!Kinds
<1> QED
  BY <1>4, <1>5 DEF DeleteDir

LEMMA ReplySeen ==
  ASSUME StoreInv, StoreInv', Reply
  PROVE  Promise!Next
<1>1. Durable' = Durable /\ Modified' = Modified
  BY SameSnapshots DEF Reply
<1>2. op.result # "none" /\ op' = Idle
  BY DEF Reply, StoreInv, CallTyping
<1>3. Promise!Return
  BY <1>1, <1>2 DEF Promise!Return, Promise!NoCall, Idle
<1> QED
  BY <1>3 DEF Promise!Next

LEMMA ComparisonSeen ==
  ASSUME StoreInv, StoreInv', (\E a, b \in Num : Compare(a, b)) \/ (\E l \in building : Save(l))
  PROVE  UNCHANGED Promise!vars
<1>1. disk'.info = disk.info /\ disk'.volume = disk.volume /\ UNCHANGED <<entries, op>>
  <2>1. CASE \E a, b \in Num : Compare(a, b)
    BY <2>1 DEF Compare
  <2>2. ASSUME NEW l \in building, Save(l)
        PROVE  disk'.info = disk.info /\ disk'.volume = disk.volume /\ UNCHANGED <<entries, op>>
    BY <2>2 DEF Save, Saved, NotWritten, StoreInv, TypeOK
  <2> QED
    BY <2>1, <2>2
<1> QED
  BY <1>1, SameSnapshots, Unseen

LEMMA LoadSeen ==
  ASSUME StoreInv, StoreInv', Load
  PROVE  UNCHANGED Promise!vars
<1>1. Durable' = Durable
  BY SameDurable DEF Load, Listed
<1>2. Modified = {} /\ Modified' = {}
  BY DEF Load, Modified, StoreInv, Agree, NoInfo
<1> QED
  BY <1>1, <1>2, Unseen DEF Load

(* Texts of N are written late.                                            *)
LEMMA FlushedSeen ==
  ASSUME StoreInv, StoreInv', NEW N \in SUBSET Modified, \A n \in N : CanOpen(n),
         disk'.info = Flushed(N).info, disk'.volume = disk.volume
  PROVE  Promise!Rewrite(Modified)
<1>1. /\ Listed' = Listed
      /\ \A n \in Listed :
           /\ n \notin Modified => disk'.info[n] = disk.info[n]
           /\ disk'.info[n].type = disk.info[n].type /\ disk'.info[n].pre_num = disk.info[n].pre_num
  BY FlushedKeeps DEF Listed
<1> QED
  BY <1>1, SeenBefore, SeenAfter DEF Promise!Rewrite

LEMMA UnloadSeen ==
  ASSUME StoreInv, StoreInv', Unload
  PROVE  Promise!Next
<1>1. Promise!Rewrite(Modified)
  <2>1. disk' = Flushed(Modified) /\ \A n \in Modified : CanOpen(n)
    BY DEF Unload, WriteBack
  <2> QED
    BY <2>1, FlushedKeeps, FlushedSeen
<1>2. Modified' = {}
  BY DEF Unload, Modified, NoInfo
<1>3. Promise!WriteLate
  BY <1>1, <1>2 DEF Promise!WriteLate, Promise!NoCall, Unload, Idle
<1> QED
  BY <1>3 DEF Promise!Next

LEMMA BreakingSeen ==
  ASSUME StoreInv, StoreInv', WriteBackFails
  PROVE  Promise!Rewrite(Modified)
<1>1. PICK N \in SUBSET Modified :
        /\ \A n \in N : CanOpen(n)
        /\ disk'.volume = disk.volume
        /\ disk'.info = Flushed(N).info
  BY PartlyFlushed
<1> QED
  BY <1>1, FlushedSeen

LEMMA DieSeen ==
  ASSUME StoreInv, StoreInv', Crash \/ Abort \/ DieErasing
  PROVE  Promise!Next
<1>1. op' = Idle /\ Modified' = {}
  BY DEF Crash, Abort, DieErasing, Die, Modified, NoInfo
<1>2. Durable' = Durable \/ ((op = Idle \/ Promise!Serving("delete_config")) /\ Promise!Rewrite(Modified))
  <2>1. CASE Crash
    <3>1. disk'.info = disk.info /\ disk'.volume = disk.volume
      BY <2>1 DEF Crash, StoreInv, TypeOK
    <3> QED
      BY <3>1, SameDurable DEF Listed
  <2>2. CASE Abort
    BY <2>2, BreakingSeen DEF Abort
  <2>3. CASE DieErasing
    <3>1. CASE UNCHANGED disk
      BY <3>1, SameDurable DEF Listed
    <3>2. CASE WriteBackFails
      <4>1. Promise!Serving("delete_config")
        BY <2>3 DEF DieErasing, StoreInv, CallTyping, CallProgress, Wiping, Promise!Serving
      <4> QED
        BY <3>2, <4>1, BreakingSeen
    <3> QED
      BY <2>3, <3>1, <3>2 DEF DieErasing
  <2> QED
    BY <2>1, <2>2, <2>3
<1>3. Promise!Restart
  BY <1>1, <1>2 DEF Promise!Restart, Promise!NoCall, Idle
<1> QED
  BY <1>3 DEF Promise!Next

(* CreateConfig and DeleteConfig begin.                                    *)
LEMMA ConfigCallSeen ==
  ASSUME StoreInv, StoreInv', CreateConfig \/ DeleteConfig
  PROVE  Promise!Next
<1>1. Durable' = Durable /\ Modified' = Modified
  BY SameSnapshots DEF CreateConfig, DeleteConfig
<1>2. /\ op = Idle /\ op'.kind \in {"create_config", "delete_config"}
      /\ op'.result \in {"none", "error"} /\ op'.num = 0
  BY DEF CreateConfig, DeleteConfig, Idle
<1>3. Promise!Begin(op'.kind, 0, op'.result)
  BY <1>1, <1>2 DEF Promise!Begin, Promise!NoCall, Idle
<1> QED
  BY <1>2, <1>3 DEF Promise!Next, Promise!Kinds

(* Steps of these calls that change no snapshot                            *)
LEMMA ConfigStepSeen ==
  ASSUME StoreInv, StoreInv', op.kind \in {"create_config", "delete_config"}, op.result = "none",
         Listed' = Listed, \A n \in Listed : disk'.info[n] = disk.info[n], Modified' = Modified,
         UNCHANGED op \/ (\E pc : Goto(pc)) \/ ReplyWith("error")
           \/ (op.kind = "create_config" /\ ReplyWith("ok"))
  PROVE  [Promise!Next]_(Promise!vars)
<1>1. Durable' = Durable
  BY SameDurable
<1>2. CASE UNCHANGED op \/ \E pc : Goto(pc)
  <2>1. op'.kind = op.kind /\ op'.num = op.num /\ op'.result = op.result
    BY <1>2 DEF Goto, StoreInv, CallTyping
  <2> QED
    BY <1>1, <2>1, Unseen
<1>3. CASE ReplyWith("error")
  BY <1>1, <1>3, Failing DEF StoreInv, Kinds
<1>4. CASE op.kind = "create_config" /\ ReplyWith("ok")
  <2>1. op'.kind = op.kind /\ op'.num = op.num /\ op'.result = "ok"
    BY <1>4 DEF ReplyWith, StoreInv, CallTyping
  <2>2. Promise!Succeed(op.kind)
    BY <1>1, <1>4, <2>1 DEF Promise!Succeed, Promise!Serving, Promise!Remembered
  <2> QED
    BY <2>2 DEF Promise!Next, Promise!Kinds
<1> QED
  BY <1>2, <1>3, <1>4

LEMMA MakingSeen ==
  ASSUME StoreInv, StoreInv', AddName \/ CopyTemplate \/ SetValues \/ CreateInfos
  PROVE  [Promise!Next]_(Promise!vars)
<1>1. op.kind = "create_config" /\ op.result = "none"
  BY DEF StoreInv, CallTyping, CallProgress, AddName, CopyTemplate, SetValues, CreateInfos, Making
<1>2. disk'.info = disk.info /\ disk'.volume = disk.volume /\ entries' = entries
  BY DEF StoreInv, TypeOK, AddName, CopyTemplate, SetValues, CreateInfos, storeVars
<1>3. (\E pc : Goto(pc)) \/ ReplyWith("error") \/ ReplyWith("ok")
  BY DEF AddName, CopyTemplate, SetValues, CreateInfos
<1> QED
  BY <1>1, <1>2, <1>3, ConfigStepSeen DEF Listed, Modified

LEMMA WipeVolumeSeen ==
  ASSUME StoreInv, StoreInv', WipeVolume
  PROVE  [Promise!Next]_(Promise!vars)
<1>1. op.kind = "delete_config" /\ op.result = "none" /\ entries' = entries
  BY DEF StoreInv, CallTyping, CallProgress, WipeVolume, storeVars, Wiping
<1>2. CASE UNCHANGED disk /\ (UNCHANGED op \/ ReplyWith("error"))
  BY <1>1, <1>2, ConfigStepSeen DEF Listed, Modified
<1>3. ASSUME NEW n,
             disk' = [disk EXCEPT !.volume = @ \ {n}],
             op' = [op EXCEPT !.pc = IF fs = "lvm" THEN "wipe_point" ELSE "wipe_files", !.num = n]
      PROVE  [Promise!Next]_(Promise!vars)
  <2>1. disk'.info = disk.info /\ disk'.volume = disk.volume \ {n}
    BY <1>3 DEF StoreInv, TypeOK
  <2>2. op'.kind = "delete_config" /\ op'.result = "none"
    BY <1>1, <1>3 DEF StoreInv, CallTyping
  <2> QED
    BY <1>1, <2>1, <2>2, Vanishing
<1> QED
  BY <1>2, <1>3 DEF WipeVolume

LEMMA WipeRestSeen ==
  ASSUME StoreInv, StoreInv', WipeRoot \/ WipePoint \/ WipeFiles \/ DeleteInfos \/ DeleteFile \/ RemoveName
  PROVE  [Promise!Next]_(Promise!vars)
<1>1. op.kind = "delete_config" /\ op.result = "none"
  BY DEF StoreInv, CallTyping, CallProgress, WipeRoot, WipePoint, WipeFiles, DeleteInfos, DeleteFile,
     RemoveName, Wiping
<1>2. Listed' = Listed /\ \A n \in Listed : disk'.info[n] = disk.info[n]
  <2>1. CASE WipeFiles
    <3>1. op.num \notin disk.volume
      BY <2>1 DEF StoreInv, CallProgress, WipeFiles
    <3>2. PICK N \in SUBSET {op.num} :
            /\ disk'.volume = disk.volume
            /\ DOMAIN disk'.info = DOMAIN disk.info \ N
            /\ \A m \in DOMAIN disk.info \ N : disk'.info[m] = disk.info[m]
      BY <2>1, FilesWiped DEF StoreInv
    <3> QED
      BY <3>1, <3>2 DEF Listed
  <2>2. CASE DeleteInfos
    <3>1. CASE disk' = disk
      BY <3>1 DEF Listed
    <3>2. CASE Removable /\ disk' = [EmptyDisk EXCEPT !.infos = FALSE, !.volume = disk.volume]
      BY <3>2 DEF Removable, EmptyDisk, NoInfo, Listed, StoreInv, TypeOK
    <3> QED
      BY <2>2, <3>1, <3>2 DEF DeleteInfos
  <2>3. CASE WipeRoot \/ DeleteFile \/ RemoveName
    BY <2>3 DEF WipeRoot, DeleteFile, RemoveName, Listed
  <2>4. CASE WipePoint
    <3>1. disk'.info = disk.info /\ disk'.volume = disk.volume
      BY <2>4, RmDirKeeps DEF WipePoint, StoreInv, TypeOK, Fields
    <3> QED
      BY <3>1 DEF Listed
  <2> QED
    BY <2>1, <2>2, <2>3, <2>4
<1>3. Modified' = Modified
  BY DEF WipeRoot, WipePoint, WipeFiles, DeleteInfos, DeleteFile, RemoveName, storeVars, Modified
<1>4. (\E pc : Goto(pc)) \/ ReplyWith("error")
  BY DEF WipeRoot, WipePoint, WipeFiles, DeleteInfos, DeleteFile, RemoveName
<1> QED
  BY <1>1, <1>2, <1>3, <1>4, ConfigStepSeen

LEMMA EraseSeen ==
  ASSUME StoreInv, StoreInv', Erase
  PROVE  Promise!Next
<1>1. Promise!Serving("delete_config")
  BY DEF Erase, StoreInv, CallTyping, CallProgress, Wiping, Promise!Serving
<1>2. Promise!Rewrite(Modified)
  <2>1. disk' = Flushed(Modified) /\ \A n \in Modified : CanOpen(n)
    BY DEF Erase, WriteBack
  <2> QED
    BY <2>1, FlushedKeeps, FlushedSeen
<1>3. Modified' = {}
  BY DEF Erase, Modified, NoInfo
<1>4. op'.kind = op.kind /\ op'.num = op.num /\ op'.result = "ok"
  BY DEF Erase, ReplyWith, StoreInv, CallTyping
<1>5. Promise!Forget
  BY <1>1, <1>2, <1>3, <1>4 DEF Promise!Forget, Promise!Serving
<1> QED
  BY <1>5 DEF Promise!Next

LEMMA StepImplemented ==
  ASSUME StoreInv, StoreInv', [ConfigNext]_allVars
  PROVE  [Promise!Next]_(Promise!vars)
<1>1. CASE Call
  BY <1>1, CreateSeen, SetSeen DEF Call
<1>2. CASE Load
  BY <1>2, LoadSeen
<1>3. CASE Work
  BY <1>3, CreateVolumeSeen, WriteInfoSeen, FlushSeen, DeleteVolumeSeen, DeleteRestSeen,
     DeleteDirSeen, ReplySeen, ComparisonSeen, UnloadSeen DEF Work
<1>4. CASE CreateConfig \/ DeleteConfig
  BY <1>4, ConfigCallSeen
<1>5. CASE AddName \/ CopyTemplate \/ SetValues \/ CreateInfos
  BY <1>5, MakingSeen
<1>6. CASE \/ WipeRoot \/ WipeVolume \/ WipePoint \/ WipeFiles \/ DeleteInfos \/ DeleteFile
           \/ RemoveName \/ Erase
  BY <1>6, WipeVolumeSeen, WipeRestSeen, EraseSeen
<1>7. CASE CrashAndRestart \/ AbortAndRestart \/ DieErasing
  BY <1>7, DieSeen DEF CrashAndRestart, AbortAndRestart
<1>8. CASE LoadRoot \/ UnloadRoot \/ UNCHANGED allVars
  <2>1. disk'.info = disk.info /\ disk'.volume = disk.volume /\ UNCHANGED <<entries, op>>
    BY <1>8 DEF LoadRoot, UnloadRoot, allVars, vars
  <2> QED
    BY <2>1, SameSnapshots, Unseen
<1> QED
  BY <1>1, <1>2, <1>3, <1>4, <1>5, <1>6, <1>7, <1>8 DEF ConfigNext

(* The store of a config, with createConfig and deleteConfig around it,    *)
(* keeps every promise of SnapshotSet: whatever fails and whenever the     *)
(* daemon dies, a call changes at most the snapshot it is about, and is    *)
(* answered "ok" only when it has taken effect.                            *)
THEOREM StoreImplementsSet == ConfigSpec => ImplementsSet
<1>1. ConfigInit => Promise!Init
  BY DEF ConfigInit, Promise!Init, Promise!NoCall, Idle, Durable, Readable, Restrict, Modified,
     EmptyDisk, NoInfo
<1>2. /\ StoreInv /\ ConfigTyping /\ (StoreInv /\ ConfigTyping)' /\ [ConfigNext]_allVars
      => [Promise!Next]_(Promise!vars)
  BY StepImplemented
<1> QED
  BY StoreInvariance, <1>1, <1>2, PTL DEF ConfigSpec, ImplementsSet, Promise!Spec

-----------------------------------------------------------------------------
(* Files                                                                   *)

(* A comparison being made is about two listed snapshots, which cannot be  *)
(* deleted as long as it is made.                                          *)
Building ==
  /\ \A l \in building : /\ {l.low, l.high} \subseteq DOMAIN entries \cap disk.volume
                         /\ l.low < l.high /\ l.births = Births(l.low, l.high)
  /\ op.kind \in {"delete", "delete_config"} => building = {}

(* A saved list keeps the directory it is in, and so the number of that    *)
(* directory.  The other number is lower, and as long as the higher one    *)
(* has its volume, that one is an entry, below which none is given out.    *)
Kept(l) ==
  /\ l.low < l.high
  /\ l.high \in disk.dirs /\ l.births[2] = births[l.high]
  /\ l.high \in disk.volume => l.high \in DOMAIN disk.info /\ l.births[1] = births[l.low]
ListsKept ==
  /\ \A l \in disk.lists : Kept(l)
  /\ op.pc \in Creating => \A l \in disk.lists : l.high # op.num

(* What there is as long as nothing has failed: every directory and volume *)
(* is a snapshot's that has its text, but for the one a call is about.     *)
If(P, n) == IF P THEN {n} ELSE {}
Expected ==
  LET N == DOMAIN disk.info
      pc == op.pc
  IN  /\ disk.tmp = {}
      /\ disk.dirs = N \cup If(pc \in {"create_volume", "create_point", "write_info", "delete_own_lists",
                                       "delete_lists", "delete_dir"}, op.num)
      /\ disk.volume = (N \cup If(pc \in {"create_point", "write_info"}, op.num))
                          \ If(pc \in {"delete_point", "delete_info", "wipe_point", "wipe_files"}, op.num)
      /\ disk.point = IF fs = "btrfs" THEN {}
                      ELSE (N \cup If(pc = "write_info", op.num)) \ If(pc \in {"delete_info", "wipe_files"}, op.num)
      /\ \A l \in disk.lists : /\ l.high \in N \cup If(pc = "delete_own_lists", op.num)
                               /\ l.low \in N \cup If(pc \in {"delete_own_lists", "delete_lists"}, op.num)
      /\ pc \in {"delete_point", "delete_info", "wipe_point", "wipe_files"} => op.num \in N
      /\ pc \in {"delete_own_lists", "delete_lists", "delete_dir"} => op.num \notin N
      /\ pc \notin {"undo_volume", "undo_point", "undo_dir"}
      /\ pc \in {"create_point", "wipe_point"} => fs # "btrfs"
      /\ pc \in {"wipe", "wipe_point", "wipe_files"} => wiping = N
      /\ loaded /\ pc \notin Wiping => N \subseteq DOMAIN entries /\ DOMAIN entries \subseteq disk.dirs

(* ... and of the config's four parts, at each place of the calls that     *)
(* make and remove it, while none of them is about "/"                     *)
Parts(listed, file, infos, known) ==
  /\ listed <=> "this" \in names
  /\ conf = file
  /\ disk.infos <=> infos
  /\ meta <=> known
Staged ==
  /\ op.pc = "add_name" => Parts(FALSE, "none", FALSE, FALSE)
  /\ op.pc = "copy_template" => Parts(TRUE, "none", FALSE, FALSE)
  /\ op.pc = "set_values" => Parts(TRUE, "template", FALSE, FALSE)
  /\ op.pc = "create_infos" => Parts(TRUE, "set", FALSE, FALSE)
  /\ op.pc \in {"wipe", "wipe_point", "wipe_files"} => Parts(TRUE, "set", TRUE, TRUE)
  /\ op.pc = "delete_file" => Parts(TRUE, "set", FALSE, TRUE)
  /\ op.pc = "remove_name" => Parts(TRUE, "none", FALSE, TRUE)
  /\ op.pc = "erase" => Parts(FALSE, "none", FALSE, TRUE)
  /\ op.pc \notin Making \cup Wiping =>
       Parts(TRUE, "set", TRUE, TRUE) \/ Parts(FALSE, "none", FALSE, FALSE)
  /\ op.kind = "delete_config" /\ op.result = "ok" => Parts(FALSE, "none", FALSE, FALSE)
  /\ op.pc # "wipe_root" /\ root = "kept" /\ astray = {}

FaultFree == faults = 0 => Expected /\ Staged

(* Whatever has failed: what DeleteConfig has done when it comes to an end *)
Done == op.kind = "delete_config" /\ op.result = "ok"
Wiped ==
  /\ op.pc = "wipe_root" => "deleteConfig" \in astray
  /\ (op.pc \in {"delete_file", "remove_name", "erase"} \/ Done) /\ "deleteConfig" \notin astray =>
       ~disk.infos /\ (fs = "btrfs" => disk.volume = {})
  /\ op.pc \in {"remove_name", "erase"} \/ Done => conf = "none"

(* A snapshot that is there but cannot be read is missing from the list in *)
(* memory, and DeleteSnapshots does not look into its directory.           *)
ListsInv == "skip" \notin Fault => ListsKept
FilesInv == Building /\ ListsInv /\ FaultFree /\ Wiped

-----------------------------------------------------------------------------
(* Parts of the invariant that most steps leave alone                      *)

LEMMA Faultless ==
  ASSUME TypeOK, faults' = 0
  PROVE  /\ Works => faults = 0
         /\ Fails => FALSE
<1>1. faults \in Nat
  <2>1. faults \in 0..MaxFaults /\ MaxFaults \in Nat
    BY StoreConstants DEF TypeOK
  <2> QED BY <2>1
<1> QED BY <1>1 DEF Works, Fails

LEMMA BuildingStays ==
  ASSUME Building, building' \subseteq building,
         op'.kind \in {"delete", "delete_config"} => op'.kind = op.kind \/ building = {},
         building = {} \/ \A n \in DOMAIN entries \cap disk.volume :
                             n \in DOMAIN entries' \cap disk'.volume /\ births'[n] = births[n]
  PROVE  Building'
BY DEF Building, Births

(* A step of a call that is not about the config itself                    *)
LEMMA ConfigAside ==
  ASSUME disk'.infos = disk.infos, UNCHANGED configVars,
         op.pc \notin Making \cup Wiping, op'.pc \notin Making \cup Wiping, op'.kind # "delete_config"
  PROVE  Wiped' /\ (Staged => Staged')
<1>1. Wiped'
  BY DEF Wiped, Done, Wiping
<1>2. Staged => Staged'
  BY DEF Staged, Parts, configVars, Making, Wiping
<1> QED BY <1>1, <1>2

LEMMA ConfigWaits ==
  ASSUME disk'.infos = disk.infos, disk'.volume = disk.volume, UNCHANGED configVars, fs' = fs, op' = op
  PROVE  (Wiped => Wiped') /\ (Staged => Staged')
<1>1. Wiped => Wiped'
  BY DEF Wiped, Done, configVars
<1>2. Staged => Staged'
  BY DEF Staged, Parts, configVars
<1> QED BY <1>1, <1>2

(* RmDir takes the directory away unless there is something in it.         *)
LEMMA RmDirDoes ==
  ASSUME NEW d, DOMAIN d = Fields, NEW n
  PROVE  RmDir(d, n).dirs = IF HasFiles(d, n) THEN d.dirs ELSE d.dirs \ {n}
BY DEF RmDir, Fields

-----------------------------------------------------------------------------
(* CreateSnapshot                                                          *)

LEMMA CreateFiles ==
  ASSUME StoreInv, FilesInv, NEW type \in {"single", "pre", "post"}, NEW p \in Num \cup {0},
         NEW valid \in BOOLEAN, Create(type, p, valid), UNCHANGED configVars
  PROVE  FilesInv'
<1>1. PICK n \in NextNumber :
        \/ /\ Works
           /\ disk' = [disk EXCEPT !.dirs = @ \cup {n}]
           /\ births' = [births EXCEPT ![n] = @ + 1]
           /\ op' = [Idle EXCEPT !.kind = "create", !.pc = "create_volume", !.num = n, !.valid = valid,
                                 !.info = [type |-> type, pre_num |-> p, text |-> "first"]]
        \/ /\ Fails
           /\ op' = [Idle EXCEPT !.kind = "create", !.pc = "reply", !.result = "error"]
           /\ UNCHANGED <<disk, births>>
  BY DEF Create
<1>2. n \in Num /\ n \in Nat /\ n \notin disk.dirs /\ n \notin DOMAIN entries /\ \A m \in DOMAIN entries : n > m
  <2>1. n \in Num /\ n \notin disk.dirs /\ \A m \in DOMAIN entries : n > m
    BY DEF NextNumber
  <2>2. n \in Nat
    BY <2>1, StoreConstants
  <2> QED BY <2>1, <2>2
<1>3. /\ op.pc = "idle" /\ UNCHANGED <<fs, loaded, entries, building>>
      /\ op'.kind = "create" /\ op'.pc \in {"create_volume", "reply"}
  BY <1>1 DEF Create, Idle
<1>4. /\ disk'.infos = disk.infos /\ disk'.info = disk.info /\ disk'.volume = disk.volume
      /\ disk'.point = disk.point /\ disk'.tmp = disk.tmp /\ disk'.lists = disk.lists
  BY <1>1 DEF StoreInv, TypeOK
<1>5. \/ /\ Works /\ disk'.dirs = disk.dirs \cup {n} /\ op'.pc = "create_volume" /\ op'.num = n
      \/ /\ Fails /\ disk'.dirs = disk.dirs /\ op'.pc = "reply"
  BY <1>1 DEF StoreInv, TypeOK, Idle
<1>6. \A m \in Num : m # n => births'[m] = births[m]
  BY <1>1 DEF StoreInv, TypeOK
<1>7. \A l \in disk.lists : l.low \in Num /\ l.high \in Num
  BY DEF StoreInv, TypeOK, List
<1>8. Building'
  <2>1. \A m \in DOMAIN entries : births'[m] = births[m]
    BY <1>2, <1>6 DEF StoreInv, TypeOK
  <2> QED BY <1>3, <1>4, <2>1, BuildingStays DEF FilesInv
<1>9. Wiped' /\ (Staged => Staged')
  BY <1>3, <1>4, ConfigAside DEF Making, Wiping
<1>10. ListsInv'
  <2> SUFFICES ASSUME ListsKept, "skip" \notin Fault PROVE ListsKept'
    BY DEF ListsInv, FilesInv
  <2>1. ASSUME NEW l \in disk.lists
        PROVE  Kept(l)' /\ l.high # n
    <3>1. /\ Kept(l) /\ l.low \in Num /\ l.high \in Num /\ disk.dirs \subseteq disk'.dirs
          /\ l.low \in Nat /\ l.high \in Nat
      BY <1>5, <1>7, StoreConstants DEF ListsKept
    <3>2. l.high # n /\ (l.low = n => l.high \notin disk.volume)
      <4>1. l.high \in disk.volume => l.high \in DOMAIN entries
        BY <3>1 DEF Create, StoreInv, Agree, Listed, Kept
      <4> QED BY <1>2, <3>1, <4>1 DEF Kept
    <3>3. Kept(l)'
      BY <1>4, <1>6, <3>1, <3>2 DEF Kept
    <3> QED BY <3>2, <3>3
  <2> QED BY <1>3, <1>4, <1>5, <2>1 DEF ListsKept, Creating
<1>11. FaultFree'
  <2> SUFFICES ASSUME faults' = 0 PROVE Expected' /\ Staged'
    BY DEF FaultFree
  <2>1. Works /\ faults = 0
    BY <1>1, Faultless DEF StoreInv
  <2>2. Expected /\ Staged
    BY <2>1 DEF FilesInv, FaultFree
  <2>3. ~Fails
    BY Faultless DEF StoreInv
  <2>4. DOMAIN disk.info \subseteq disk.dirs
    BY DEF StoreInv, TypeOK
  <2>5. Expected'
    BY <1>2, <1>3, <1>4, <1>5, <2>2, <2>3, <2>4 DEF Expected, If, Wiping
  <2> QED BY <1>9, <2>2, <2>5
<1> QED BY <1>8, <1>9, <1>10, <1>11 DEF FilesInv

LEMMA CreateVolumeFiles ==
  ASSUME StoreInv, FilesInv, CreateVolume, UNCHANGED configVars
  PROVE  FilesInv'
<1>1. /\ op.pc = "create_volume" /\ op.kind = "create" /\ op.num \notin DOMAIN disk.info \cup DOMAIN entries
      /\ op.num \in disk.dirs /\ UNCHANGED <<fs, loaded, entries, building, births>> /\ fs \in {"btrfs", "lvm"}
      /\ DOMAIN disk = Fields /\ DOMAIN disk.info \subseteq disk.dirs
  BY StoreConstants DEF CreateVolume, storeIdle, StoreInv, CallProgress, Creating, TypeOK, Fields
<1>2. /\ op'.kind = "create" /\ op'.num = op.num /\ op'.pc \in {"create_point", "write_info", "reply"}
  BY <1>1 DEF CreateVolume, Goto, ReplyWith, StoreInv, CallTyping
<1>3. /\ disk'.infos = disk.infos /\ disk'.info = disk.info
      /\ disk'.point = disk.point /\ disk'.tmp = disk.tmp /\ disk'.lists = disk.lists
      /\ \/ /\ Works /\ disk'.dirs = disk.dirs /\ disk'.volume = disk.volume \cup {op.num}
            /\ op'.pc = IF fs = "lvm" THEN "create_point" ELSE "write_info"
         \/ /\ IF op.num \in disk.volume THEN Works ELSE Fails
            /\ disk'.volume = disk.volume /\ op'.pc = "reply"
            /\ disk'.dirs \in {disk.dirs, disk.dirs \ {op.num}}
         \/ /\ Fails /\ disk'.volume = disk.volume /\ op'.pc = "reply" /\ disk'.dirs = disk.dirs
  <2>1. CASE /\ Works /\ disk' = [disk EXCEPT !.volume = @ \cup {op.num}]
             /\ Goto(IF fs = "lvm" THEN "create_point" ELSE "write_info")
    BY <1>1, <2>1 DEF Goto, StoreInv, CallTyping, Fields
  <2>2. CASE /\ IF op.num \in disk.volume THEN Works ELSE Fails
             /\ disk' = RmDir(disk, op.num) /\ ReplyWith("error")
    <3>1. op'.pc = "reply"
      BY <2>2 DEF ReplyWith, StoreInv, CallTyping
    <3>2. disk'.dirs = IF HasFiles(disk, op.num) THEN disk.dirs ELSE disk.dirs \ {op.num}
      BY <1>1, <2>2, RmDirDoes
    <3>3. disk'.dirs \in {disk.dirs, disk.dirs \ {op.num}}
      BY <3>2
    <3>4. /\ disk'.infos = disk.infos /\ disk'.info = disk.info /\ disk'.volume = disk.volume
          /\ disk'.point = disk.point /\ disk'.tmp = disk.tmp /\ disk'.lists = disk.lists
      BY <1>1, <2>2, RmDirKeeps
    <3> QED BY <2>2, <3>1, <3>3, <3>4
  <2>3. CASE Fails /\ UNCHANGED disk /\ ReplyWith("error")
    BY <1>1, <2>3 DEF ReplyWith, StoreInv, CallTyping
  <2> QED BY <2>1, <2>2, <2>3 DEF CreateVolume
<1>4. Building'
  BY <1>1, <1>2, <1>3, BuildingStays DEF FilesInv
<1>5. Wiped' /\ (Staged => Staged')
  BY <1>1, <1>2, <1>3, ConfigAside DEF Making, Wiping
<1>6. ListsInv'
  <2> SUFFICES ASSUME ListsKept PROVE ListsKept'
    BY DEF ListsInv, FilesInv
  <2>1. ASSUME NEW l \in disk.lists
        PROVE  Kept(l)' /\ l.high # op.num
    <3>1. Kept(l) /\ l.high # op.num
      BY <1>1 DEF ListsKept, Creating
    <3>2. l.high \in disk'.dirs /\ (l.high \in disk'.volume => l.high \in disk.volume)
      BY <1>1, <1>3, <3>1 DEF Kept
    <3> QED BY <1>1, <1>2, <1>3, <3>1, <3>2 DEF Kept
  <2> QED BY <1>2, <1>3, <2>1 DEF ListsKept
<1>7. FaultFree'
  <2> SUFFICES ASSUME faults' = 0 PROVE Expected' /\ Staged'
    BY DEF FaultFree
  <2>1. Works /\ faults = 0 /\ ~Fails
    BY <1>3, Faultless DEF StoreInv
  <2>2. Expected /\ Staged
    BY <2>1 DEF FilesInv, FaultFree
  <2>3. op.num \notin disk.volume /\ disk.dirs = DOMAIN disk.info \cup {op.num}
    BY <1>1, <2>2 DEF Expected, If
  <2>4. /\ disk'.dirs = disk.dirs /\ disk'.volume = disk.volume \cup {op.num}
        /\ op'.pc = IF fs = "lvm" THEN "create_point" ELSE "write_info"
    BY <1>3, <2>1, <2>3
  <2>5. Expected'
    BY <1>1, <1>2, <1>3, <2>2, <2>3, <2>4 DEF Expected, If, Wiping
  <2> QED BY <1>5, <2>2, <2>5
<1> QED BY <1>4, <1>5, <1>6, <1>7 DEF FilesInv

LEMMA CreatePointFiles ==
  ASSUME StoreInv, FilesInv, CreatePoint, UNCHANGED configVars
  PROVE  FilesInv'
<1>1. /\ op.pc = "create_point" /\ op.kind = "create" /\ op.num \notin DOMAIN disk.info \cup DOMAIN entries
      /\ op.num \in disk.dirs /\ UNCHANGED <<fs, loaded, entries, building, births>>
      /\ DOMAIN disk = Fields /\ DOMAIN disk.info \subseteq disk.dirs
  BY DEF CreatePoint, storeIdle, StoreInv, CallProgress, Creating, TypeOK, Fields
<1>2. /\ op'.kind = "create" /\ op'.num = op.num /\ op'.pc \in {"write_info", "reply"}
  BY <1>1 DEF CreatePoint, Goto, ReplyWith, StoreInv, CallTyping
<1>3. /\ disk'.infos = disk.infos /\ disk'.info = disk.info /\ disk'.volume = disk.volume
      /\ disk'.tmp = disk.tmp /\ disk'.lists = disk.lists
      /\ \/ /\ Works /\ disk'.dirs = disk.dirs /\ disk'.point = disk.point \cup {op.num}
            /\ op'.pc = "write_info"
         \/ /\ Fails /\ op'.pc = "reply"
            /\ disk'.dirs \in {disk.dirs, disk.dirs \ {op.num}}
  <2>1. CASE /\ Works /\ disk' = [disk EXCEPT !.point = @ \cup {op.num}] /\ Goto("write_info")
    BY <1>1, <2>1 DEF Goto, StoreInv, CallTyping, Fields
  <2>2. CASE Fails /\ disk' = RmDir(disk, op.num) /\ ReplyWith("error")
    <3>1. op'.pc = "reply"
      BY <2>2 DEF ReplyWith, StoreInv, CallTyping
    <3>2. disk'.dirs = IF HasFiles(disk, op.num) THEN disk.dirs ELSE disk.dirs \ {op.num}
      BY <1>1, <2>2, RmDirDoes
    <3>3. disk'.dirs \in {disk.dirs, disk.dirs \ {op.num}}
      BY <3>2
    <3>4. /\ disk'.infos = disk.infos /\ disk'.info = disk.info /\ disk'.volume = disk.volume
          /\ disk'.point = disk.point /\ disk'.tmp = disk.tmp /\ disk'.lists = disk.lists
      BY <1>1, <2>2, RmDirKeeps
    <3> QED BY <2>2, <3>1, <3>3, <3>4
  <2>3. CASE Fails /\ disk' = disk /\ ReplyWith("error")
    BY <1>1, <2>3 DEF ReplyWith, StoreInv, CallTyping
  <2> QED BY <2>1, <2>2, <2>3 DEF CreatePoint
<1>4. Building'
  BY <1>1, <1>2, <1>3, BuildingStays DEF FilesInv
<1>5. Wiped' /\ (Staged => Staged')
  BY <1>1, <1>2, <1>3, ConfigAside DEF Making, Wiping
<1>6. ListsInv'
  <2> SUFFICES ASSUME ListsKept PROVE ListsKept'
    BY DEF ListsInv, FilesInv
  <2>1. ASSUME NEW l \in disk.lists
        PROVE  Kept(l)' /\ l.high # op.num
    <3>1. Kept(l) /\ l.high # op.num
      BY <1>1 DEF ListsKept, Creating
    <3>2. l.high \in disk'.dirs
      BY <1>1, <1>3, <3>1 DEF Kept
    <3> QED BY <1>1, <1>2, <1>3, <3>1, <3>2 DEF Kept
  <2> QED BY <1>2, <1>3, <2>1 DEF ListsKept
<1>7. FaultFree'
  <2> SUFFICES ASSUME faults' = 0 PROVE Expected' /\ Staged'
    BY DEF FaultFree
  <2>1. Works /\ faults = 0 /\ ~Fails
    BY <1>3, Faultless DEF StoreInv
  <2>2. Expected /\ Staged
    BY <2>1 DEF FilesInv, FaultFree
  <2>3. Expected'
    BY <1>1, <1>2, <1>3, <2>1, <2>2 DEF Expected, If, Wiping
  <2> QED BY <1>5, <2>2, <2>3
<1> QED BY <1>4, <1>5, <1>6, <1>7 DEF FilesInv

LEMMA WriteInfoFiles ==
  ASSUME StoreInv, FilesInv, WriteInfo, UNCHANGED configVars
  PROVE  FilesInv'
<1>1. /\ op.pc = "write_info" /\ op.kind = "create" /\ op.num \notin DOMAIN disk.info \cup DOMAIN entries
      /\ op.num \in disk.dirs /\ op.num \in Num /\ op.info \in Info
      /\ UNCHANGED <<fs, loaded, building, births>>
  BY DEF WriteInfo, StoreInv, CallProgress, CallTyping, Creating, TypeOK
<1>2. /\ op'.kind = "create" /\ op'.num = op.num /\ op'.pc \in {"flush", "undo_volume"}
  BY <1>1 DEF WriteInfo, Goto, StoreInv, CallTyping
<1>3. /\ disk'.infos = disk.infos /\ disk'.dirs = disk.dirs /\ disk'.volume = disk.volume
      /\ disk'.point = disk.point /\ disk'.lists = disk.lists
      /\ \/ /\ Works /\ DOMAIN disk'.info = DOMAIN disk.info \cup {op.num} /\ disk'.tmp = disk.tmp
            /\ op'.pc = "flush" /\ DOMAIN entries' = DOMAIN entries \cup {op.num}
         \/ /\ Fails /\ disk'.info = disk.info /\ op'.pc = "undo_volume" /\ entries' = entries
  <2>1. CASE /\ Works /\ disk' = Written(disk, op.num, op.info) /\ Goto("flush")
             /\ DOMAIN entries' = DOMAIN entries \cup {op.num}
    BY <1>1, <2>1, WrittenKeeps DEF Goto, StoreInv, CallTyping
  <2>2. CASE Fails /\ NotWritten(op.num) /\ UNCHANGED entries /\ Goto("undo_volume")
    BY <1>1, <2>2, NotWrittenKeeps DEF Goto, StoreInv, CallTyping
  <2> QED BY <2>1, <2>2 DEF WriteInfo
<1>4. Building'
  BY <1>1, <1>2, <1>3, BuildingStays DEF FilesInv
<1>5. Wiped' /\ (Staged => Staged')
  BY <1>1, <1>2, <1>3, ConfigAside DEF Making, Wiping
<1>6. ListsInv'
  <2> SUFFICES ASSUME ListsKept PROVE ListsKept'
    BY DEF ListsInv, FilesInv
  <2>1. ASSUME NEW l \in disk.lists
        PROVE  Kept(l)' /\ l.high # op.num
    <3>1. Kept(l) /\ l.high # op.num
      BY <1>1 DEF ListsKept, Creating
    <3> QED BY <1>1, <1>2, <1>3, <3>1 DEF Kept
  <2> QED BY <1>2, <1>3, <2>1 DEF ListsKept
<1>7. FaultFree'
  <2> SUFFICES ASSUME faults' = 0 PROVE Expected' /\ Staged'
    BY DEF FaultFree
  <2>1. Works /\ faults = 0 /\ ~Fails
    BY <1>3, Faultless DEF StoreInv
  <2>2. Expected /\ Staged
    BY <2>1 DEF FilesInv, FaultFree
  <2>3. Expected'
    BY <1>1, <1>2, <1>3, <2>1, <2>2 DEF Expected, If, Wiping
  <2> QED BY <1>5, <2>2, <2>3
<1> QED BY <1>4, <1>5, <1>6, <1>7 DEF FilesInv

-----------------------------------------------------------------------------
(* SetSnapshot and DeleteSnapshots                                         *)

LEMMA SetFiles ==
  ASSUME StoreInv, FilesInv, NEW n, NEW valid, Set(n, valid) \/ Delete(n), UNCHANGED configVars
  PROVE  FilesInv'
<1>1. /\ op.pc = "idle" /\ UNCHANGED <<fs, disk, loaded, entries, building, births, faults>>
      /\ op'.kind \in {"set", "delete"} /\ op'.pc \in {"flush", "delete_volume"}
      /\ op'.kind = "delete" => building = {}
  <2>1. CASE Set(n, valid)
    BY <2>1 DEF Set, Idle
  <2>2. CASE Delete(n)
    BY <2>2 DEF Delete, Idle
  <2> QED BY <2>1, <2>2
<1>2. Building'
  BY <1>1, BuildingStays DEF FilesInv
<1>3. Wiped' /\ (Staged => Staged')
  BY <1>1, ConfigAside DEF Making, Wiping
<1>4. ListsInv'
  BY <1>1 DEF FilesInv, ListsInv, ListsKept, Kept, Creating
<1>5. Expected => Expected'
  BY <1>1 DEF Expected, If, Wiping
<1>6. FaultFree'
  BY <1>1, <1>3, <1>5 DEF FilesInv, FaultFree
<1> QED BY <1>2, <1>3, <1>4, <1>6 DEF FilesInv

LEMMA FlushFiles ==
  ASSUME StoreInv, FilesInv, Flush, UNCHANGED configVars
  PROVE  FilesInv'
<1>1. /\ op.pc = "flush" /\ op.kind \in {"create", "set"} /\ op.num \in DOMAIN entries
      /\ op.num \in Num /\ FlushedInfo \in Info /\ UNCHANGED <<fs, loaded, building, births>>
      /\ loaded
  BY FlushedInfoTyped DEF Flush, StoreInv, CallProgress, CallTyping, TypeOK
<1>2. op'.kind = op.kind /\ op'.pc = "reply"
  BY <1>1 DEF Flush, ReplyWith, StoreInv, CallTyping
<1>3. /\ disk'.infos = disk.infos /\ disk'.dirs = disk.dirs /\ disk'.volume = disk.volume
      /\ disk'.point = disk.point /\ disk'.lists = disk.lists /\ DOMAIN entries' = DOMAIN entries
      /\ \/ Works /\ DOMAIN disk'.info = DOMAIN disk.info \cup {op.num} /\ disk'.tmp = disk.tmp
         \/ Works /\ disk' = disk
         \/ Fails /\ disk'.info = disk.info
  <2>1. CASE /\ Works /\ CanOpen(op.num) /\ disk' = Written(disk, op.num, FlushedInfo)
             /\ DOMAIN entries' = DOMAIN entries
    <3>1. op.num \in disk.dirs
      BY <2>1 DEF CanOpen
    <3> QED BY <1>1, <2>1, <3>1, WrittenKeeps DEF StoreInv
  <2>2. CASE Fails /\ NotWritten(op.num) /\ DOMAIN entries' = DOMAIN entries
    BY <1>1, <2>2, NotWrittenKeeps DEF StoreInv
  <2>3. CASE Works /\ UNCHANGED disk /\ DOMAIN entries' = DOMAIN entries
    BY <2>3
  <2> QED BY <2>1, <2>2, <2>3 DEF Flush, FlushedInfo
<1>4. Building'
  BY <1>1, <1>2, <1>3, BuildingStays DEF FilesInv
<1>5. Wiped' /\ (Staged => Staged')
  BY <1>1, <1>2, <1>3, ConfigAside DEF Making, Wiping
<1>6. ListsInv'
  <2> SUFFICES ASSUME ListsKept PROVE ListsKept'
    BY DEF ListsInv, FilesInv
  <2>1. ASSUME NEW l \in disk.lists PROVE Kept(l)'
    BY <1>1, <1>3 DEF ListsKept, Kept
  <2> QED BY <1>2, <1>3, <2>1 DEF ListsKept, Creating
<1>7. FaultFree'
  <2> SUFFICES ASSUME faults' = 0 PROVE Expected' /\ Staged'
    BY DEF FaultFree
  <2>1. Works /\ faults = 0 /\ ~Fails
    BY <1>3, Faultless DEF StoreInv
  <2>2. Expected /\ Staged
    BY <2>1 DEF FilesInv, FaultFree
  <2>3. DOMAIN disk'.info = DOMAIN disk.info /\ disk'.tmp = {}
    BY <1>1, <1>3, <2>1, <2>2 DEF Expected, If, Wiping
  <2>4. Expected'
    BY <1>1, <1>2, <1>3, <2>2, <2>3 DEF Expected, If, Wiping
  <2> QED BY <1>5, <2>2, <2>4
<1> QED BY <1>4, <1>5, <1>6, <1>7 DEF FilesInv

(* What no call that deletes a snapshot leaves open                        *)
LEMMA Opens ==
  ASSUME StoreInv, NEW n \in disk.dirs
  PROVE  CanOpen(n)
BY DEF StoreInv, NumbersUsed, CanOpen

LEMMA DeleteVolumeFiles ==
  ASSUME StoreInv, FilesInv, DeleteVolume, UNCHANGED configVars
  PROVE  FilesInv'
<1>1. /\ op.pc \in {"delete_volume", "undo_volume"} /\ UNCHANGED <<fs, loaded, entries, building, births>>
      /\ op.pc = "undo_volume" => op.kind = "create" /\ op.num \notin DOMAIN entries
      /\ op.pc = "delete_volume" => op.kind = "delete" /\ op.num \in DOMAIN entries
      /\ DOMAIN entries \cap disk.volume \subseteq DOMAIN disk.info
  BY DEF DeleteVolume, storeIdle, StoreInv, CallProgress, Creating, Deleting, Agree
<1>2. /\ op'.kind = op.kind /\ op'.num = op.num
      /\ op'.pc \in {"reply", "delete_info", "delete_point", "undo_dir", "undo_point"}
  <2>1. CASE ReplyWith("error")
    BY <2>1 DEF ReplyWith, StoreInv, CallTyping
  <2>2. CASE op' = [op EXCEPT !.pc = IF fs = "btrfs" THEN AfterVolume
                                     ELSE IF @ = "undo_volume" THEN "undo_point" ELSE "delete_point"]
    BY <2>2 DEF AfterVolume, StoreInv, CallTyping
  <2> QED BY <2>1, <2>2 DEF DeleteVolume
<1>3. /\ disk'.infos = disk.infos /\ disk'.dirs = disk.dirs /\ disk'.info = disk.info
      /\ disk'.point = disk.point /\ disk'.tmp = disk.tmp /\ disk'.lists = disk.lists
      /\ \/ /\ Works /\ op.num \in disk.volume /\ disk'.volume = disk.volume \ {op.num}
            /\ op'.pc = IF op.pc = "undo_volume" THEN IF fs = "btrfs" THEN "undo_dir" ELSE "undo_point"
                                                 ELSE IF fs = "btrfs" THEN "delete_info" ELSE "delete_point"
         \/ /\ IF op.num \in disk.volume THEN Fails ELSE Works
            /\ disk'.volume = disk.volume /\ op'.pc = "reply"
  <2>1. CASE /\ IF op.num \in disk.volume THEN Fails ELSE Works
             /\ UNCHANGED disk /\ ReplyWith("error")
    BY <2>1 DEF ReplyWith, StoreInv, CallTyping
  <2>2. CASE /\ Works /\ op.num \in disk.volume /\ disk' = [disk EXCEPT !.volume = @ \ {op.num}]
             /\ op' = [op EXCEPT !.pc = IF fs = "btrfs" THEN AfterVolume
                                        ELSE IF @ = "undo_volume" THEN "undo_point" ELSE "delete_point"]
    BY <1>1, <2>2 DEF AfterVolume, StoreInv, CallTyping, TypeOK
  <2> QED BY <2>1, <2>2 DEF DeleteVolume
<1>4. Building'
  BY <1>1, <1>2, <1>3, BuildingStays DEF FilesInv, Building
<1>5. Wiped' /\ (Staged => Staged')
  BY <1>1, <1>2, <1>3, ConfigAside DEF Making, Wiping
<1>6. ListsInv'
  <2> SUFFICES ASSUME ListsKept PROVE ListsKept'
    BY DEF ListsInv, FilesInv
  <2>1. ASSUME NEW l \in disk.lists PROVE Kept(l)'
    BY <1>1, <1>3 DEF ListsKept, Kept
  <2>2. ASSUME NEW l \in disk.lists, op.pc = "undo_volume" PROVE l.high # op.num
    BY <1>2, <1>3, <2>2 DEF ListsKept, Creating
  <2> QED BY <1>1, <1>2, <1>3, <2>1, <2>2 DEF ListsKept, Creating
<1>7. FaultFree'
  <2> SUFFICES ASSUME faults' = 0 PROVE Expected' /\ Staged'
    BY DEF FaultFree
  <2>1. Works /\ faults = 0 /\ ~Fails
    BY <1>3, Faultless DEF StoreInv
  <2>2. Expected /\ Staged
    BY <2>1 DEF FilesInv, FaultFree
  <2>3. Expected'
    BY <1>1, <1>2, <1>3, <2>1, <2>2 DEF Expected, If, Wiping
  <2> QED BY <1>5, <2>2, <2>3
<1> QED BY <1>4, <1>5, <1>6, <1>7 DEF FilesInv

LEMMA DeletePointFiles ==
  ASSUME StoreInv, FilesInv, DeletePoint, UNCHANGED configVars
  PROVE  FilesInv'
<1>1. /\ op.pc \in {"delete_point", "undo_point"} /\ UNCHANGED <<fs, loaded, entries, building, births>>
      /\ op.pc = "undo_point" => op.kind = "create"
      /\ op.pc = "delete_point" => op.kind = "delete"
      /\ DOMAIN disk = Fields
  BY DEF DeletePoint, storeIdle, StoreInv, CallProgress, Creating, Deleting, TypeOK, Fields
<1>2. /\ op'.kind = op.kind /\ op'.num = op.num
      /\ op'.pc \in {"reply", "delete_info", "undo_dir"}
  <2>1. CASE ReplyWith("error")
    BY <2>1 DEF ReplyWith, StoreInv, CallTyping
  <2>2. CASE Goto(AfterVolume)
    BY <2>2 DEF Goto, AfterVolume, StoreInv, CallTyping
  <2> QED BY <2>1, <2>2 DEF DeletePoint
<1>3. /\ disk'.infos = disk.infos /\ disk'.info = disk.info /\ disk'.volume = disk.volume
      /\ disk'.tmp = disk.tmp /\ disk'.lists = disk.lists
      /\ disk.dirs \ {op.num} \subseteq disk'.dirs /\ disk'.dirs \subseteq disk.dirs
      /\ op.num \in DOMAIN disk.info \/ (\E l \in disk.lists : l.high = op.num) => disk'.dirs = disk.dirs
      /\ \/ /\ Works /\ disk'.point = disk.point \ {op.num}
            /\ op'.pc = IF op.pc = "undo_point" THEN "undo_dir" ELSE "delete_info"
         \/ Fails /\ disk'.point = disk.point
  <2>1. CASE Fails /\ UNCHANGED disk
    BY <2>1
  <2>2. CASE Works /\ disk' = RmDir([disk EXCEPT !.point = @ \ {op.num}], op.num) /\ Goto(AfterVolume)
    <3> DEFINE d == [disk EXCEPT !.point = @ \ {op.num}]
    <3>1. /\ DOMAIN d = Fields /\ d.infos = disk.infos /\ d.dirs = disk.dirs /\ d.info = disk.info
          /\ d.volume = disk.volume /\ d.point = disk.point \ {op.num} /\ d.tmp = disk.tmp /\ d.lists = disk.lists
      BY <1>1 DEF Fields
    <3>2. op'.pc = IF op.pc = "undo_point" THEN "undo_dir" ELSE "delete_info"
      BY <1>1, <2>2 DEF Goto, AfterVolume, StoreInv, CallTyping
    <3> HIDE DEF d
    <3>3. disk' = RmDir(d, op.num)
      BY <2>2 DEF d
    <3>4. /\ disk'.dirs = IF HasFiles(d, op.num) THEN d.dirs ELSE d.dirs \ {op.num}
          /\ disk'.infos = d.infos /\ disk'.info = d.info /\ disk'.volume = d.volume
          /\ disk'.point = d.point /\ disk'.tmp = d.tmp /\ disk'.lists = d.lists
      BY <3>1, <3>3, RmDirDoes, RmDirKeeps
    <3>5. op.num \in DOMAIN disk.info \/ (\E l \in disk.lists : l.high = op.num) => HasFiles(d, op.num)
      BY <3>1 DEF HasFiles
    <3> QED BY <2>2, <3>1, <3>2, <3>4, <3>5
  <2> QED BY <2>1, <2>2 DEF DeletePoint
<1>4. Building'
  BY <1>1, <1>2, <1>3, BuildingStays DEF FilesInv
<1>5. Wiped' /\ (Staged => Staged')
  BY <1>1, <1>2, <1>3, ConfigAside DEF Making, Wiping
<1>6. ListsInv'
  <2> SUFFICES ASSUME ListsKept PROVE ListsKept'
    BY DEF ListsInv, FilesInv
  <2>1. ASSUME NEW l \in disk.lists PROVE Kept(l)'
    <3>1. Kept(l) /\ l.high \in disk'.dirs
      BY <1>3 DEF ListsKept, Kept
    <3> QED BY <1>1, <1>3, <3>1 DEF Kept
  <2>2. ASSUME op'.pc \in Creating, NEW l \in disk.lists PROVE l.high # op.num
    <3>1. op.pc = "undo_point"
      BY <1>1, <1>2, <2>2 DEF DeletePoint, AfterVolume, Goto, ReplyWith, StoreInv, CallTyping, Creating
    <3> QED BY <3>1 DEF ListsKept, Creating
  <2> QED BY <1>2, <1>3, <2>1, <2>2 DEF ListsKept
<1>7. FaultFree'
  <2> SUFFICES ASSUME faults' = 0 PROVE Expected' /\ Staged'
    BY DEF FaultFree
  <2>1. Works /\ faults = 0 /\ ~Fails
    BY <1>3, Faultless DEF StoreInv
  <2>2. Expected /\ Staged
    BY <2>1 DEF FilesInv, FaultFree
  <2>3. op.pc = "delete_point" /\ op.num \in DOMAIN disk.info
    BY <1>1, <2>2 DEF Expected
  <2>4. Expected'
    BY <1>1, <1>2, <1>3, <2>1, <2>2, <2>3 DEF Expected, If, Wiping
  <2> QED BY <1>5, <2>2, <2>4
<1> QED BY <1>4, <1>5, <1>6, <1>7 DEF FilesInv

LEMMA DeleteInfoFiles ==
  ASSUME StoreInv, FilesInv, DeleteInfo, UNCHANGED configVars
  PROVE  FilesInv'
<1>1. /\ op.pc = "delete_info" /\ op.kind = "delete" /\ op.num \notin disk.volume
      /\ UNCHANGED <<fs, loaded, entries, building, births>>
  BY DEF DeleteInfo, storeIdle, StoreInv, CallProgress, Deleting
<1>2. /\ op'.kind = "delete" /\ op'.num = op.num /\ op'.pc \in {"reply", "delete_own_lists"}
  BY <1>1 DEF DeleteInfo, Goto, ReplyWith, StoreInv, CallTyping
<1>3. /\ disk'.infos = disk.infos /\ disk'.dirs = disk.dirs /\ disk'.volume = disk.volume
      /\ disk'.point = disk.point /\ disk'.tmp = disk.tmp /\ disk'.lists = disk.lists
      /\ \/ /\ Works /\ DOMAIN disk'.info = DOMAIN disk.info \ {op.num} /\ op'.pc = "delete_own_lists"
         \/ /\ IF CanOpen(op.num) THEN Fails ELSE Works
            /\ disk' = disk
  <2>1. CASE (IF CanOpen(op.num) THEN Fails ELSE Works) /\ UNCHANGED disk
    BY <2>1
  <2>2. CASE /\ Works /\ Goto("delete_own_lists")
             /\ disk' = [disk EXCEPT !.info = Restrict(@, DOMAIN @ \ {op.num})]
    BY <2>2 DEF Goto, StoreInv, CallTyping, TypeOK, Restrict
  <2> QED BY <2>1, <2>2 DEF DeleteInfo
<1>4. Building'
  BY <1>1, <1>2, <1>3, BuildingStays DEF FilesInv
<1>5. Wiped' /\ (Staged => Staged')
  BY <1>1, <1>2, <1>3, ConfigAside DEF Making, Wiping
<1>6. ListsInv'
  <2> SUFFICES ASSUME ListsKept PROVE ListsKept'
    BY DEF ListsInv, FilesInv
  <2>1. ASSUME NEW l \in disk.lists PROVE Kept(l)'
    BY <1>1, <1>3 DEF ListsKept, Kept
  <2> QED BY <1>2, <1>3, <2>1 DEF ListsKept, Creating
<1>7. FaultFree'
  <2> SUFFICES ASSUME faults' = 0 PROVE Expected' /\ Staged'
    BY DEF FaultFree
  <2>1. Works /\ faults = 0 /\ ~Fails
    BY <1>3, Faultless DEF StoreInv
  <2>2. Expected /\ Staged
    BY <2>1 DEF FilesInv, FaultFree
  <2>3. CanOpen(op.num) /\ op.num \in DOMAIN disk.info /\ op.num \in disk.dirs
    <3>1. op.num \in DOMAIN disk.info
      BY <1>1, <2>2 DEF Expected
    <3>2. op.num \in disk.dirs
      BY <3>1 DEF StoreInv, TypeOK
    <3> QED BY <3>1, <3>2, Opens
  <2>4. DOMAIN disk'.info = DOMAIN disk.info \ {op.num} /\ op'.pc = "delete_own_lists"
    BY <1>3, <2>1, <2>3
  <2>5. Expected'
    BY <1>1, <1>2, <1>3, <2>2, <2>3, <2>4 DEF Expected, If, Wiping
  <2> QED BY <1>5, <2>2, <2>5
<1> QED BY <1>4, <1>5, <1>6, <1>7 DEF FilesInv

(* Unlinking saved lists takes no other file away; nothing fails only as   *)
(* long as none of them stays.                                             *)
LEMMA UnlinkFiles ==
  ASSUME StoreInv, FilesInv, NEW L, NEW next, UnlinkLists(L, next), UNCHANGED <<storeIdle, configVars>>,
         op.pc \in {"delete_own_lists", "delete_lists"}, op.kind = "delete",
         next.kind = "delete", next.pc \in {"delete_lists", "delete_dir", "reply"},
         faults = 0 /\ L = {} /\ Expected /\ UNCHANGED disk /\ op' = next => Expected'
  PROVE  FilesInv'
<1>1. UNCHANGED <<fs, loaded, entries, building, births>> /\ TypeOK
  BY DEF storeIdle, StoreInv
<1>2. PICK K \in SUBSET L : Fewer(K)
  BY Unlinking DEF StoreInv
<1>3. op'.kind = "delete" /\ op'.pc \in {"delete_own_lists", "delete_lists", "delete_dir", "reply"}
  <2>1. ReplyWith("error") => op'.kind = "delete" /\ op'.pc = "reply"
    BY DEF ReplyWith, StoreInv, CallTyping
  <2> QED BY <2>1, Unlinking DEF StoreInv
<1>4. /\ disk'.infos = disk.infos /\ disk'.dirs = disk.dirs /\ disk'.info = disk.info
      /\ disk'.volume = disk.volume /\ disk'.point = disk.point /\ disk'.tmp = disk.tmp
      /\ disk'.lists = disk.lists \ K
  BY <1>2 DEF Fewer
<1>5. Building'
  BY <1>1, <1>3, <1>4, BuildingStays DEF FilesInv
<1>6. Wiped' /\ (Staged => Staged')
  BY <1>3, <1>4, ConfigAside DEF Making, Wiping
<1>7. ListsInv'
  <2> SUFFICES ASSUME ListsKept PROVE ListsKept'
    BY DEF ListsInv, FilesInv
  <2>1. ASSUME NEW l \in disk'.lists PROVE Kept(l)'
    <3>1. l \in disk.lists /\ Kept(l)
      BY <1>4 DEF ListsKept
    <3> QED BY <1>1, <1>4, <3>1 DEF Kept
  <2> QED BY <1>3, <2>1 DEF ListsKept, Creating
<1>8. FaultFree'
  <2> SUFFICES ASSUME faults' = 0 PROVE Expected' /\ Staged'
    BY DEF FaultFree
  <2>1. Works /\ faults = 0 /\ ~Fails
    <3>1. Works \/ Fails
      BY Unlinking DEF StoreInv
    <3> QED BY <3>1, Faultless DEF StoreInv
  <2>2. Expected /\ Staged
    BY <2>1 DEF FilesInv, FaultFree
  <2>3. op' = op \/ (L = {} /\ UNCHANGED disk /\ op' = next)
    BY <2>1 DEF UnlinkLists
  <2>4. ASSUME op' = op PROVE Expected'
    <3>1. wiping' = wiping /\ \A l \in disk'.lists : l \in disk.lists
      BY <1>4 DEF configVars
    <3> QED BY <1>1, <1>4, <2>2, <2>4, <3>1 DEF Expected, If
  <2>5. Expected'
    BY <2>1, <2>2, <2>3, <2>4
  <2> QED BY <1>6, <2>2, <2>5
<1> QED BY <1>5, <1>6, <1>7, <1>8 DEF FilesInv

LEMMA DeleteOwnListsFiles ==
  ASSUME StoreInv, FilesInv, DeleteOwnLists, UNCHANGED configVars
  PROVE  FilesInv'
<1> DEFINE L == {l \in disk.lists : l.high = op.num}
           next == [op EXCEPT !.pc = "delete_lists"]
<1>1. /\ op.pc = "delete_own_lists" /\ op.kind = "delete" /\ UnlinkLists(L, next)
      /\ UNCHANGED storeIdle /\ UNCHANGED <<fs, loaded, entries>>
  BY DEF DeleteOwnLists, storeIdle, StoreInv, CallProgress, Deleting
<1>2. next.kind = "delete" /\ next.pc = "delete_lists" /\ next.num = op.num
  BY <1>1 DEF StoreInv, CallTyping
<1>3. L = {} => \A l \in disk.lists : l.high # op.num
  OBVIOUS
<1> HIDE DEF L, next
<1>4. ASSUME L = {}, Expected, UNCHANGED disk, op' = next
      PROVE  Expected'
  <2>1. op'.pc = "delete_lists" /\ op'.num = op.num
    BY <1>2, <1>4
  <2>2. \A l \in disk.lists : l.high # op.num
    BY <1>3, <1>4
  <2> QED BY <1>1, <1>4, <2>1, <2>2 DEF Expected, If, Wiping
<1> QED BY <1>1, <1>2, <1>4, UnlinkFiles

LEMMA DeleteListsFiles ==
  ASSUME StoreInv, FilesInv, DeleteLists, UNCHANGED configVars
  PROVE  FilesInv'
<1> DEFINE closed == {m \in DOMAIN entries : ~CanOpen(m)}
           reached == {m \in DOMAIN entries : \A k \in closed : m < k}
           L == {l \in disk.lists : l.low = op.num /\ l.high \in reached}
           next == IF closed = {} THEN [op EXCEPT !.pc = "delete_dir"]
                                  ELSE [op EXCEPT !.pc = "reply", !.result = "error"]
<1>1. /\ op.pc = "delete_lists" /\ op.kind = "delete" /\ loaded /\ UnlinkLists(L, next)
      /\ UNCHANGED storeIdle /\ UNCHANGED <<fs, loaded, entries>>
  BY DEF DeleteLists, storeIdle, StoreInv, CallProgress, Deleting
<1>2. /\ next.kind = "delete" /\ next.num = op.num /\ next.pc \in {"delete_dir", "reply"}
      /\ closed = {} => next.pc = "delete_dir"
  BY <1>1 DEF StoreInv, CallTyping
<1>3. closed = {} /\ L = {} => \A l \in disk.lists : ~(l.low = op.num /\ l.high \in DOMAIN entries)
  OBVIOUS
<1>4. (\A m \in DOMAIN entries : CanOpen(m)) => closed = {}
  OBVIOUS
<1> HIDE DEF closed, L, next
<1>5. ASSUME L = {}, Expected, UNCHANGED disk, op' = next
      PROVE  Expected'
  <2>1. /\ DOMAIN entries \subseteq disk.dirs /\ DOMAIN disk.info \subseteq DOMAIN entries
        /\ disk.dirs = DOMAIN disk.info \cup {op.num} /\ op.num \notin DOMAIN disk.info
        /\ disk.volume = DOMAIN disk.info /\ disk.tmp = {}
        /\ disk.point = IF fs = "btrfs" THEN {} ELSE DOMAIN disk.info
        /\ \A l \in disk.lists : l.high \in DOMAIN disk.info /\ l.low \in DOMAIN disk.info \cup {op.num}
    BY <1>1, <1>5 DEF Expected, If, Wiping
  <2>2. \A m \in DOMAIN entries : CanOpen(m)
    BY <2>1, Opens
  <2>3. /\ op'.pc = "delete_dir" /\ op'.num = op.num
        /\ \A l \in disk.lists : ~(l.low = op.num /\ l.high \in DOMAIN entries)
    BY <1>2, <1>3, <1>4, <1>5, <2>2
  <2>4. \A l \in disk.lists : l.high \in DOMAIN disk.info /\ l.low \in DOMAIN disk.info
    BY <2>1, <2>3
  <2> QED BY <1>1, <1>5, <2>1, <2>3, <2>4 DEF Expected, If, Wiping
<1> QED BY <1>1, <1>2, <1>5, UnlinkFiles

LEMMA DeleteDirFiles ==
  ASSUME StoreInv, FilesInv, DeleteDir, UNCHANGED configVars
  PROVE  FilesInv'
<1>1. /\ op.pc \in {"delete_dir", "undo_dir"} /\ UNCHANGED <<fs, loaded, building, births>>
      /\ op.kind = IF op.pc = "delete_dir" THEN "delete" ELSE "create"
      /\ DOMAIN disk = Fields
  BY DEF DeleteDir, StoreInv, CallProgress, Creating, Deleting, TypeOK, Fields
<1>2. op'.kind = op.kind /\ op'.pc = "reply"
  BY DEF DeleteDir, ReplyWith, StoreInv, CallTyping
<1>3. /\ disk'.infos = disk.infos /\ disk'.info = disk.info /\ disk'.volume = disk.volume
      /\ disk'.point = disk.point /\ disk'.tmp = disk.tmp /\ disk'.lists = disk.lists
      /\ disk'.dirs \in {disk.dirs, IF HasFiles(disk, op.num) THEN disk.dirs ELSE disk.dirs \ {op.num}}
      /\ DOMAIN entries' \in {DOMAIN entries, IF op.pc = "delete_dir" THEN DOMAIN entries \ {op.num} ELSE DOMAIN entries}
      /\ \/ /\ Works
            /\ disk'.dirs = IF HasFiles(disk, op.num) THEN disk.dirs ELSE disk.dirs \ {op.num}
            /\ DOMAIN entries' = IF op.pc = "delete_dir" THEN DOMAIN entries \ {op.num} ELSE DOMAIN entries
         \/ Fails
  <2>1. /\ (Works /\ disk' = RmDir(disk, op.num)) \/ (Fails /\ (disk' = disk \/ disk' = RmDir(disk, op.num)))
        /\ \/ Fails /\ entries' = entries
           \/ entries' = IF op.pc = "delete_dir" THEN Restrict(entries, DOMAIN entries \ {op.num}) ELSE entries
    BY DEF DeleteDir
  <2>2. DOMAIN Restrict(entries, DOMAIN entries \ {op.num}) = DOMAIN entries \ {op.num}
    BY DEF Restrict
  <2>3. /\ RmDir(disk, op.num).infos = disk.infos /\ RmDir(disk, op.num).info = disk.info
        /\ RmDir(disk, op.num).volume = disk.volume /\ RmDir(disk, op.num).point = disk.point
        /\ RmDir(disk, op.num).tmp = disk.tmp /\ RmDir(disk, op.num).lists = disk.lists
        /\ RmDir(disk, op.num).dirs = IF HasFiles(disk, op.num) THEN disk.dirs ELSE disk.dirs \ {op.num}
    BY <1>1, RmDirDoes, RmDirKeeps
  <2> QED BY <2>1, <2>2, <2>3
<1>4. Building'
  BY <1>1, <1>2, <1>3, BuildingStays DEF FilesInv, Building
<1>5. Wiped' /\ (Staged => Staged')
  BY <1>1, <1>2, <1>3, ConfigAside DEF Making, Wiping
<1>6. ListsInv'
  <2> SUFFICES ASSUME ListsKept PROVE ListsKept'
    BY DEF ListsInv, FilesInv
  <2>1. ASSUME NEW l \in disk.lists PROVE Kept(l)'
    <3>1. Kept(l)
      BY DEF ListsKept
    <3>2. l.high \in disk'.dirs
      BY <1>3, <3>1 DEF HasFiles, Kept
    <3> QED BY <1>1, <1>3, <3>1, <3>2 DEF Kept
  <2> QED BY <1>2, <1>3, <2>1 DEF ListsKept, Creating
<1>7. FaultFree'
  <2> SUFFICES ASSUME faults' = 0 PROVE Expected' /\ Staged'
    BY DEF FaultFree
  <2>1. faults = 0 /\ ~Fails
    BY <1>3, Faultless DEF StoreInv
  <2>2. Expected /\ Staged
    BY <2>1 DEF FilesInv, FaultFree
  <2>3. /\ op.pc = "delete_dir"
        /\ disk.dirs = DOMAIN disk.info \cup {op.num} /\ op.num \notin DOMAIN disk.info
        /\ disk.volume = DOMAIN disk.info /\ disk.tmp = {}
        /\ disk.point = IF fs = "btrfs" THEN {} ELSE DOMAIN disk.info
        /\ \A l \in disk.lists : l.high \in DOMAIN disk.info /\ l.low \in DOMAIN disk.info
        /\ loaded => DOMAIN disk.info \subseteq DOMAIN entries /\ DOMAIN entries \subseteq disk.dirs
    BY <1>1, <2>2 DEF Expected, If, Wiping
  <2>4. ~HasFiles(disk, op.num)
    BY <2>3 DEF HasFiles
  <2>5. disk'.dirs = DOMAIN disk.info /\ DOMAIN entries' = DOMAIN entries \ {op.num}
    BY <1>3, <2>1, <2>3, <2>4
  <2>6. Expected'
    BY <1>1, <1>2, <1>3, <2>3, <2>5 DEF Expected, If, Wiping
  <2> QED BY <1>5, <2>2, <2>6
<1> QED BY <1>4, <1>5, <1>6, <1>7 DEF FilesInv

LEMMA ReplyFiles ==
  ASSUME StoreInv, FilesInv, Reply, UNCHANGED configVars
  PROVE  FilesInv'
<1>1. /\ op.pc = "reply" /\ op'.pc = "idle" /\ op'.kind = "none" /\ op'.result = "none"
      /\ UNCHANGED <<fs, disk, loaded, entries, building, births, faults>>
  BY DEF Reply, Idle
<1>2. Building'
  BY <1>1, BuildingStays DEF FilesInv
<1>3. Wiped' /\ (Staged => Staged')
  BY <1>1, ConfigAside DEF Making, Wiping
<1>4. ListsInv'
  BY <1>1 DEF FilesInv, ListsInv, ListsKept, Kept, Creating
<1>5. Expected => Expected'
  BY <1>1 DEF Expected, If, Wiping
<1>6. FaultFree'
  BY <1>1, <1>3, <1>5 DEF FilesInv, FaultFree
<1> QED BY <1>2, <1>3, <1>4, <1>6 DEF FilesInv

-----------------------------------------------------------------------------
(* Comparisons, and the daemon's memory                                    *)

LEMMA CompareFiles ==
  ASSUME StoreInv, FilesInv, NEW a, NEW b, Compare(a, b), UNCHANGED configVars
  PROVE  FilesInv'
<1>1. /\ building' = building \cup {[low |-> a, high |-> b, births |-> Births(a, b)]}
      /\ {a, b} \subseteq DOMAIN entries \cap disk.volume /\ a < b /\ op.kind \in {"none", "create", "set"}
      /\ UNCHANGED <<fs, disk, loaded, entries, op, births, faults>>
  BY DEF Compare
<1>2. Building'
  BY <1>1 DEF FilesInv, Building, Births
<1>3. Wiped' /\ (Staged => Staged')
  BY <1>1, ConfigWaits DEF FilesInv
<1>4. ListsInv'
  BY <1>1 DEF FilesInv, ListsInv, ListsKept, Kept
<1>5. Expected => Expected'
  BY <1>1 DEF Expected, configVars
<1>6. FaultFree'
  BY <1>1, <1>3, <1>5 DEF FilesInv, FaultFree
<1> QED BY <1>2, <1>3, <1>4, <1>6 DEF FilesInv

LEMMA SaveFiles ==
  ASSUME StoreInv, FilesInv, NEW l \in building, Save(l), UNCHANGED configVars
  PROVE  FilesInv'
<1>1. /\ building' = building \ {l} /\ UNCHANGED <<fs, loaded, entries, op, births>>
  BY DEF Save
<1>2. /\ op.kind \notin {"delete", "delete_config"} /\ l.low < l.high /\ l.births = Births(l.low, l.high)
      /\ {l.low, l.high} \subseteq DOMAIN entries \cap disk.volume
      /\ {l.low, l.high} \subseteq DOMAIN disk.info /\ {l.low, l.high} \subseteq disk.dirs
  <2>1. {l.low, l.high} \subseteq DOMAIN entries \cap disk.volume
    BY DEF FilesInv, Building
  <2>2. DOMAIN entries \cap disk.volume \subseteq DOMAIN disk.info /\ DOMAIN disk.info \subseteq disk.dirs
    BY DEF StoreInv, Agree, TypeOK
  <2> QED BY <2>1, <2>2 DEF FilesInv, Building
<1>3. /\ disk'.infos = disk.infos /\ disk'.dirs = disk.dirs /\ disk'.info = disk.info
      /\ disk'.volume = disk.volume /\ disk'.point = disk.point
      /\ \A k \in disk'.lists : k \in disk.lists \/ k = l
      /\ (Works /\ disk'.tmp = disk.tmp) \/ Fails
  <2>1. CASE (Works \/ Fails) /\ disk' = Saved(l)
    BY <2>1 DEF Saved, StoreInv, TypeOK
  <2>2. CASE Fails /\ NotWritten(l.high)
    <3>1. l.high \in Num
      BY DEF StoreInv, TypeOK, List
    <3> QED BY <2>2, <3>1, NotWrittenKeeps DEF StoreInv
  <2> QED BY <2>1, <2>2 DEF Save
<1>4. Building'
  BY <1>1, <1>3, BuildingStays DEF FilesInv
<1>5. Wiped' /\ (Staged => Staged')
  BY <1>1, <1>3, ConfigWaits DEF FilesInv
<1>6. ListsInv'
  <2> SUFFICES ASSUME ListsKept PROVE ListsKept'
    BY DEF ListsInv, FilesInv
  <2>1. op.pc \notin Deleting /\ (op.pc \in Creating => op.num \notin DOMAIN entries)
    BY <1>2 DEF StoreInv, CallProgress
  <2>2. /\ l.births[1] = births[l.low] /\ l.births[2] = births[l.high]
    BY <1>2 DEF Births
  <2>3. ASSUME NEW k \in disk'.lists
        PROVE  Kept(k)' /\ (op.pc \in Creating => k.high # op.num)
    <3>1. CASE k = l
      BY <1>1, <1>2, <1>3, <2>1, <2>2, <3>1 DEF Kept
    <3>2. CASE k \in disk.lists
      BY <1>1, <1>3, <3>2 DEF ListsKept, Kept
    <3> QED BY <1>3, <3>1, <3>2
  <2> QED BY <1>1, <1>3, <2>1, <2>3 DEF ListsKept, Deleting
<1>7. FaultFree'
  <2> SUFFICES ASSUME faults' = 0 PROVE Expected' /\ Staged'
    BY DEF FaultFree
  <2>1. Works /\ faults = 0 /\ ~Fails
    BY <1>3, Faultless DEF StoreInv
  <2>2. Expected /\ Staged
    BY <2>1 DEF FilesInv, FaultFree
  <2>3. Expected'
    BY <1>1, <1>2, <1>3, <2>1, <2>2 DEF Expected, If, configVars
  <2> QED BY <1>5, <2>2, <2>3
<1> QED BY <1>4, <1>5, <1>6, <1>7 DEF FilesInv

LEMMA LoadFiles ==
  ASSUME StoreInv, FilesInv, Load, UNCHANGED configVars
  PROVE  FilesInv'
<1>1. PICK S \in SUBSET Listed :
        /\ IF S = {} THEN Works ELSE "skip" \in Fault /\ faults < MaxFaults /\ faults' = faults + 1
        /\ DOMAIN entries' = Listed \ S
  BY ReadableListed DEF Load, StoreInv
<1>2. ~loaded /\ op = Idle /\ UNCHANGED <<fs, disk, op, building, births>>
  BY DEF Load
<1>3. building = {}
  BY <1>2 DEF StoreInv, Agree, NoInfo, FilesInv, Building
<1>4. Building'
  BY <1>2, <1>3, BuildingStays DEF FilesInv
<1>5. Wiped' /\ (Staged => Staged')
  BY <1>2, ConfigWaits DEF FilesInv
<1>6. ListsInv'
  BY <1>2 DEF FilesInv, ListsInv, ListsKept, Kept
<1>7. FaultFree'
  <2> SUFFICES ASSUME faults' = 0 PROVE Expected' /\ Staged'
    BY DEF FaultFree
  <2>1. S = {} /\ faults = 0
    <3>1. faults \in Nat
      <4>1. MaxFaults \in Nat /\ faults \in 0..MaxFaults
        BY StoreConstants DEF StoreInv, TypeOK
      <4> QED BY <4>1
    <3> QED BY <1>1, <3>1 DEF Works
  <2>2. Expected /\ Staged
    BY <2>1 DEF FilesInv, FaultFree
  <2>3. op.pc = "idle"
    BY <1>2 DEF Idle
  <2>4. DOMAIN entries' = DOMAIN disk.info /\ disk.dirs = DOMAIN disk.info
    BY <1>1, <2>1, <2>2, <2>3 DEF Expected, If, Listed
  <2>5. Expected'
    BY <1>2, <2>2, <2>3, <2>4 DEF Expected, If, configVars
  <2> QED BY <1>5, <2>2, <2>5
<1> QED BY <1>4, <1>5, <1>6, <1>7 DEF FilesInv

(* The list in memory is given up: what is left is what is stored.         *)
LEMMA FreshFiles ==
  ASSUME FilesInv, ~loaded', op'.pc = "idle", op'.kind = "none", building' = {},
         UNCHANGED <<fs, births>>,
         disk'.infos = disk.infos, disk'.dirs = disk.dirs, disk'.volume = disk.volume,
         disk'.point = disk.point, disk'.lists = disk.lists, DOMAIN disk.info \subseteq DOMAIN disk'.info
  PROVE  /\ Building' /\ ListsInv' /\ Wiped'
         /\ /\ Expected /\ disk'.tmp = disk.tmp /\ DOMAIN disk'.info = DOMAIN disk.info
            /\ op.pc \in {"idle", "erase"}
            => Expected'
<1>1. Building'
  BY DEF Building
<1>2. ListsInv'
  BY DEF FilesInv, ListsInv, ListsKept, Kept, Creating
<1>3. Wiped'
  BY DEF Wiped, Done
<1>4. Expected /\ disk'.tmp = disk.tmp /\ DOMAIN disk'.info = DOMAIN disk.info /\ op.pc \in {"idle", "erase"}
      => Expected'
  BY DEF Expected, If, Wiping
<1> QED BY <1>1, <1>2, <1>3, <1>4

LEMMA UnloadFiles ==
  ASSUME StoreInv, FilesInv, Unload, UNCHANGED configVars
  PROVE  FilesInv'
<1>1. /\ loaded /\ ~loaded' /\ op' = op /\ op.pc = "idle" /\ op.kind = "none" /\ building' = {}
      /\ UNCHANGED <<fs, births, faults>> /\ disk' = Flushed(Modified) /\ \A n \in Modified : CanOpen(n)
  BY DEF Unload, WriteBack, Idle
<1>2. /\ disk'.infos = disk.infos /\ disk'.dirs = disk.dirs /\ disk'.volume = disk.volume
      /\ disk'.point = disk.point /\ disk'.lists = disk.lists /\ disk'.tmp = disk.tmp
      /\ DOMAIN disk.info \subseteq DOMAIN disk'.info
      /\ DOMAIN disk'.info \subseteq DOMAIN disk.info \cup Modified
  BY <1>1, FlushedKeeps
<1>3. Expected => DOMAIN disk'.info = DOMAIN disk.info
  BY <1>1, <1>2 DEF Expected, If, Wiping, Modified
<1>4. Building' /\ ListsInv' /\ Wiped' /\ (Expected => Expected')
  BY <1>1, <1>2, <1>3, FreshFiles
<1>5. Staged => Staged'
  BY <1>1, <1>2, ConfigWaits
<1>6. FaultFree'
  BY <1>1, <1>4, <1>5 DEF FilesInv, FaultFree
<1> QED BY <1>4, <1>6 DEF FilesInv

LEMMA CrashFiles ==
  ASSUME StoreInv, FilesInv, Crash
  PROVE  FilesInv'
<1>1. /\ ~loaded' /\ op'.pc = "idle" /\ op'.kind = "none" /\ building' = {}
      /\ UNCHANGED <<fs, births>> /\ faults' = faults + 1
  BY DEF Crash, Die, Idle
<1>2. /\ disk'.infos = disk.infos /\ disk'.dirs = disk.dirs /\ disk'.info = disk.info
      /\ disk'.volume = disk.volume /\ disk'.point = disk.point /\ disk'.lists = disk.lists
  BY DEF StoreInv, TypeOK, Crash
<1>3. FaultFree'
  <2>1. faults \in 0..MaxFaults /\ MaxFaults \in Nat
    BY StoreConstants DEF StoreInv, TypeOK
  <2> QED BY <1>1, <2>1 DEF FaultFree
<1> QED BY <1>1, <1>2, <1>3, FreshFiles DEF FilesInv

(* A destructor that fails                                                 *)
LEMMA BreakingFiles ==
  ASSUME StoreInv, FilesInv, WriteBackFails, Die
  PROVE  /\ Building' /\ ListsInv' /\ Wiped'
         /\ disk'.infos = disk.infos
         /\ faults' = 0 => /\ faults = 0 /\ \E m \in Modified : ~CanOpen(m)
<1>1. PICK N \in SUBSET Modified :
        /\ \A n \in N : CanOpen(n)
        /\ disk'.infos = disk.infos /\ disk'.dirs = disk.dirs
        /\ disk'.volume = disk.volume /\ disk'.point = disk.point
        /\ disk'.lists = disk.lists
        /\ disk'.info = Flushed(N).info
  BY PartlyFlushed
<1>2. DOMAIN disk.info \subseteq DOMAIN disk'.info
  BY <1>1, FlushedKeeps
<1>3. /\ ~loaded' /\ op'.pc = "idle" /\ op'.kind = "none" /\ building' = {} /\ UNCHANGED <<fs, births>>
  BY DEF Die, Idle
<1>4. Building' /\ ListsInv' /\ Wiped'
  BY <1>1, <1>2, <1>3, FreshFiles
<1>5. ASSUME faults' = 0
      PROVE  faults = 0 /\ \E m \in Modified : ~CanOpen(m)
  <2>1. ~Fails /\ (Works => faults = 0)
    BY <1>5, Faultless DEF StoreInv
  <2> QED BY <2>1 DEF WriteBackFails
<1> QED BY <1>1, <1>4, <1>5

LEMMA AbortFiles ==
  ASSUME StoreInv, FilesInv, Abort
  PROVE  FilesInv'
<1>1. loaded /\ op.pc = "idle"
  BY DEF Abort, Idle
<1>2. FaultFree'
  <2> SUFFICES ASSUME faults' = 0 PROVE FALSE
    BY DEF FaultFree
  <2>1. PICK m \in Modified : ~CanOpen(m)
    BY BreakingFiles DEF Abort
  <2>2. faults = 0
    BY BreakingFiles DEF Abort
  <2>3. m \in disk.dirs
    BY <1>1, <2>1, <2>2 DEF FilesInv, FaultFree, Expected, Wiping, Modified
  <2> QED BY <2>1, <2>3, Opens
<1> QED BY <1>2, BreakingFiles DEF FilesInv, Abort

LEMMA DieErasingFiles ==
  ASSUME StoreInv, FilesInv, DieErasing
  PROVE  FilesInv'
<1>1. /\ op.pc = "erase" /\ ~loaded' /\ op'.pc = "idle" /\ op'.kind = "none" /\ op'.result = "none"
      /\ building' = {} /\ UNCHANGED <<fs, births>> /\ root' = root /\ astray' = {}
      /\ names' = names /\ conf' = conf /\ meta' = ("this" \in names' /\ conf' # "none")
  BY DEF DieErasing, Die, Restarted, Idle
<1>2. Building' /\ ListsInv' /\ Wiped' /\ disk'.infos = disk.infos
  <2>1. CASE UNCHANGED disk
    BY <1>1, <2>1, FreshFiles
  <2> QED BY <2>1, BreakingFiles DEF DieErasing
<1>3. FaultFree'
  <2> SUFFICES ASSUME faults' = 0 PROVE Expected' /\ Staged'
    BY DEF FaultFree
  <2>1. faults = 0
    BY BreakingFiles DEF DieErasing, Works
  <2>2. Expected /\ Staged
    BY <2>1 DEF FilesInv, FaultFree
  <2>3. ~disk.infos
    BY <1>1, <2>2 DEF Staged, Parts
  <2>4. UNCHANGED <<disk>> \/ disk' = Flushed({})
    <3>1. CASE WriteBackFails
      <4>1. PICK m \in Modified :
              /\ \A n \in Modified : n < m => CanOpen(n)
              /\ IF CanOpen(m) THEN Fails ELSE disk' = Flushed({n \in Modified : n < m})
        BY <3>1 DEF WriteBackFails
      <4>2. \A n : ~CanOpen(n)
        BY <2>3 DEF CanOpen
      <4>3. {n \in Modified : n < m} = {}
        BY <4>1, <4>2
      <4> QED BY <4>1, <4>2, <4>3
    <3> QED BY <3>1 DEF DieErasing
  <2>5. /\ disk'.infos = disk.infos /\ disk'.dirs = disk.dirs /\ disk'.volume = disk.volume
        /\ disk'.point = disk.point /\ disk'.lists = disk.lists /\ disk'.tmp = disk.tmp
        /\ DOMAIN disk'.info = DOMAIN disk.info
    <3>1. {} \in SUBSET Modified /\ \A n \in {} : CanOpen(n)
      OBVIOUS
    <3>2. CASE UNCHANGED disk
      BY <3>2
    <3>3. CASE disk' = Flushed({})
      <4>1. DOMAIN Flushed({}).info \subseteq DOMAIN disk.info \cup {}
        BY <3>1, FlushedKeeps
      <4>2. /\ Flushed({}).infos = disk.infos /\ Flushed({}).dirs = disk.dirs
            /\ Flushed({}).volume = disk.volume /\ Flushed({}).point = disk.point
            /\ Flushed({}).tmp = disk.tmp /\ Flushed({}).lists = disk.lists
            /\ DOMAIN disk.info \subseteq DOMAIN Flushed({}).info
        BY <3>1, FlushedKeeps
      <4> QED BY <3>3, <4>1, <4>2
    <3> QED BY <2>4, <3>2, <3>3
  <2>6. Expected'
    BY <1>1, <2>2, <2>5, FreshFiles
  <2>7. Parts(FALSE, "none", FALSE, TRUE)
    BY <1>1, <2>2 DEF Staged
  <2>8. Staged'
    BY <1>1, <1>2, <2>2, <2>7 DEF Staged, Parts, Making, Wiping
  <2> QED BY <2>6, <2>8
<1> QED BY <1>2, <1>3 DEF FilesInv

-----------------------------------------------------------------------------
(* CreateConfig and DeleteConfig                                           *)

(* A step of these calls that leaves the snapshots' files and entries alone *)
LEMMA NoFilesTouched ==
  ASSUME StoreInv, FilesInv, UNCHANGED <<fs, loaded, entries, building, births>>,
         disk'.dirs = disk.dirs, disk'.info = disk.info, disk'.volume = disk.volume,
         disk'.point = disk.point, disk'.lists = disk.lists, disk'.tmp = disk.tmp,
         op'.pc \in {"reply", "wipe"} \cup Making \cup {"delete_file", "remove_name", "erase"},
         op.pc \in {"idle"} \cup Making \cup {"wipe_root", "delete_file", "remove_name"},
         op'.pc = "wipe" => wiping' = DOMAIN disk.info,
         op'.kind = "delete_config" => op.kind = "delete_config" \/ building = {},
         op'.kind # "delete"
  PROVE  /\ Building' /\ ListsInv'
         /\ Expected /\ (op.pc \in Wiping => op'.pc \in Wiping) => Expected'
<1>1. Building'
  BY BuildingStays DEF FilesInv
<1>2. ListsInv'
  BY DEF FilesInv, ListsInv, ListsKept, Kept, Creating, Making
<1>3. Expected /\ (op.pc \in Wiping => op'.pc \in Wiping) => Expected'
  BY DEF Expected, If, Wiping, Making
<1> QED BY <1>1, <1>2, <1>3

LEMMA NotWiping ==
  ASSUME op'.kind # "delete_config", op'.pc \in Making \cup {"reply"}
  PROVE  Wiped'
BY DEF Wiped, Done, Making

LEMMA CreateConfigFiles ==
  ASSUME StoreInv, FilesInv, CreateConfig
  PROVE  FilesInv'
<1>1. /\ op.pc = "idle" /\ UNCHANGED <<fs, disk, loaded, entries, building, births, faults, configVars>>
      /\ op'.kind = "create_config"
      /\ op'.pc = IF "this" \in names THEN "reply" ELSE "add_name"
  BY DEF CreateConfig, Idle
<1>2. Building' /\ ListsInv' /\ (Expected => Expected')
  BY <1>1, NoFilesTouched DEF Making, Wiping
<1>3. Wiped'
  BY <1>1, NotWiping DEF Making
<1>4. Staged => Staged'
  BY <1>1 DEF Staged, Parts, configVars, Making, Wiping
<1>5. FaultFree'
  BY <1>1, <1>2, <1>4 DEF FilesInv, FaultFree
<1> QED BY <1>2, <1>3, <1>5 DEF FilesInv

LEMMA MakingFiles ==
  ASSUME StoreInv, FilesInv, AddName \/ CopyTemplate \/ SetValues
  PROVE  FilesInv'
<1>1. /\ UNCHANGED <<fs, disk, loaded, entries, building, births>> /\ meta' = meta /\ UNCHANGED rootVars
      /\ op.pc \in {"add_name", "copy_template", "set_values"} /\ op.kind = "create_config"
  BY DEF AddName, CopyTemplate, SetValues, storeVars, StoreInv, CallProgress, Making
<1>2. /\ op'.kind = op.kind
      /\ op'.pc \in {"reply", "copy_template", "set_values", "create_infos"}
  BY DEF AddName, CopyTemplate, SetValues, Goto, ReplyWith, StoreInv, CallTyping
<1>3. /\ Works \/ Fails
      /\ Works /\ op.pc = "add_name" =>
           names' = names \cup {"this"} /\ conf' = conf /\ op'.pc = "copy_template"
      /\ Works /\ op.pc = "copy_template" /\ ~Fails =>
           names' = names /\ conf' = "template" /\ op'.pc = "set_values"
      /\ Works /\ op.pc = "set_values" /\ ~Fails =>
           names' = names /\ conf' = "set" /\ op'.pc = "create_infos"
  <2>1. CASE AddName
    <3>1. faults \in Nat
      <4>1. MaxFaults \in Nat /\ faults \in 0..MaxFaults
        BY StoreConstants DEF StoreInv, TypeOK
      <4> QED BY <4>1
    <3> QED BY <2>1, <3>1 DEF AddName, SaveNames, Goto, Works, Fails, StoreInv, CallTyping
  <2>2. CASE CopyTemplate
    BY <2>2 DEF CopyTemplate, Goto, StoreInv, CallTyping
  <2>3. CASE SetValues
    BY <2>3 DEF SetValues, Goto, StoreInv, CallTyping
  <2> QED BY <2>1, <2>2, <2>3
<1>4. Building' /\ ListsInv' /\ (Expected => Expected')
  BY <1>1, <1>2, NoFilesTouched DEF Making, Wiping
<1>5. Wiped'
  BY <1>1, <1>2, NotWiping DEF Making
<1>6. FaultFree'
  <2> SUFFICES ASSUME faults' = 0 PROVE Expected' /\ Staged'
    BY DEF FaultFree
  <2>1. Works /\ faults = 0 /\ ~Fails
    BY <1>3, Faultless DEF StoreInv
  <2>2. Expected /\ Staged
    BY <2>1 DEF FilesInv, FaultFree
  <2>3. Staged'
    BY <1>1, <1>2, <1>3, <2>1, <2>2 DEF Staged, Parts, Making, Wiping, rootVars
  <2> QED BY <1>4, <2>2, <2>3
<1> QED BY <1>4, <1>5, <1>6 DEF FilesInv

LEMMA CreateInfosFiles ==
  ASSUME StoreInv, FilesInv, CreateInfos
  PROVE  FilesInv'
<1>1. /\ op.pc = "create_infos" /\ op.kind = "create_config" /\ op'.kind = op.kind /\ op'.pc = "reply"
      /\ UNCHANGED <<fs, loaded, entries, building, births, names, conf, rootVars>>
  BY DEF CreateInfos, ReplyWith, storeVars, StoreInv, CallTyping, CallProgress, Making
<1>2. /\ disk'.dirs = disk.dirs /\ disk'.info = disk.info /\ disk'.volume = disk.volume
      /\ disk'.point = disk.point /\ disk'.lists = disk.lists /\ disk'.tmp = disk.tmp
      /\ \/ Works /\ disk'.infos = TRUE /\ meta' = TRUE
         \/ IF fs = "btrfs" /\ disk.infos THEN Works ELSE Fails
  BY DEF CreateInfos, StoreInv, TypeOK
<1>3. Building' /\ ListsInv' /\ (Expected => Expected')
  BY <1>1, <1>2, NoFilesTouched DEF Making, Wiping
<1>4. Wiped'
  BY <1>1, NotWiping
<1>5. FaultFree'
  <2> SUFFICES ASSUME faults' = 0 PROVE Expected' /\ Staged'
    BY DEF FaultFree
  <2>1. Works /\ faults = 0 /\ ~Fails
    BY <1>2, Faultless DEF StoreInv
  <2>2. Expected /\ Staged
    BY <2>1 DEF FilesInv, FaultFree
  <2>3. Parts(TRUE, "set", FALSE, FALSE)
    BY <1>1, <2>2 DEF Staged
  <2>4. Parts(TRUE, "set", TRUE, TRUE)'
    BY <1>1, <1>2, <2>1, <2>3 DEF Parts
  <2>5. Staged'
    BY <1>1, <2>2, <2>4 DEF Staged, rootVars, Making, Wiping
  <2> QED BY <1>3, <2>2, <2>5
<1> QED BY <1>3, <1>4, <1>5 DEF FilesInv

LEMMA DeleteConfigFiles ==
  ASSUME StoreInv, FilesInv, DeleteConfig
  PROVE  FilesInv'
<1>1. /\ op.pc = "idle" /\ meta /\ building = {}
      /\ UNCHANGED <<fs, disk, loaded, entries, building, births, faults, names, conf, meta, root>>
      /\ op'.kind = "delete_config"
  BY DEF DeleteConfig, Idle
<1>2. /\ conf = "set" => /\ op'.pc = "wipe" /\ wiping' = Listed /\ op'.result = "none"
                         /\ astray' = astray \ {"deleteConfig"}
      /\ conf = "template" => op'.pc = "wipe_root" /\ "deleteConfig" \in astray' /\ op'.result = "none"
      /\ conf \notin {"set", "template"} => op'.pc = "reply" /\ op'.result = "error"
  BY ReadableListed DEF DeleteConfig, Idle, StoreInv
<1>3. Wiped'
  BY <1>2 DEF Wiped, Done
<1>4. Building'
  BY <1>1, BuildingStays DEF FilesInv
<1>5. ListsInv'
  <2>1. op'.pc \notin Creating
    BY <1>2 DEF Creating
  <2> QED BY <1>1, <2>1 DEF FilesInv, ListsInv, ListsKept, Kept
<1>6. FaultFree'
  <2> SUFFICES ASSUME faults = 0 PROVE Expected' /\ Staged'
    BY <1>1 DEF FaultFree
  <2>1. Expected /\ Staged
    BY DEF FilesInv, FaultFree
  <2>2. Parts(TRUE, "set", TRUE, TRUE) /\ root = "kept" /\ astray = {}
    BY <1>1, <2>1 DEF Staged, Parts, Making, Wiping
  <2>3. op'.pc = "wipe" /\ wiping' = Listed /\ op'.result = "none" /\ astray' = {}
    BY <1>2, <2>2 DEF Parts
  <2>4. wiping' = DOMAIN disk.info
    BY <1>1, <2>1, <2>3 DEF Expected, If, Listed
  <2>5. Expected'
    BY <1>1, <2>1, <2>3, <2>4 DEF Expected, If, Wiping
  <2>6. Staged'
    BY <1>1, <2>2, <2>3 DEF Staged, Parts, Making, Wiping
  <2> QED BY <2>5, <2>6
<1> QED BY <1>3, <1>4, <1>5, <1>6 DEF FilesInv

LEMMA WipeRootFiles ==
  ASSUME StoreInv, FilesInv, WipeRoot
  PROVE  FilesInv'
<1>1. /\ op.pc = "wipe_root" /\ op.kind = "delete_config" /\ op.result = "none"
      /\ UNCHANGED <<fs, disk, loaded, entries, building, births, astray>>
  BY DEF WipeRoot, storeVars, StoreInv, CallProgress, CallTyping, Wiping
<1>2. op'.kind = op.kind /\ op'.pc \in {"delete_file", "reply"} /\ op'.result \in {"none", "error"}
  BY <1>1 DEF WipeRoot, Goto, ReplyWith, StoreInv, CallTyping
<1>3. Building' /\ ListsInv'
  BY <1>1, <1>2, NoFilesTouched DEF Making
<1>4. Wiped'
  BY <1>1, <1>2 DEF FilesInv, Wiped, Done
<1>5. FaultFree'
  <2> SUFFICES ASSUME faults' = 0 PROVE FALSE
    BY DEF FaultFree
  <2>1. faults = 0
    BY Faultless DEF WipeRoot, StoreInv
  <2> QED BY <1>1, <2>1 DEF FilesInv, FaultFree, Staged
<1> QED BY <1>3, <1>4, <1>5 DEF FilesInv

(* What all steps of the wiping leave alone                                *)
LEMMA WipedAside ==
  ASSUME StoreInv, FilesInv, op.kind = "delete_config", op'.kind = op.kind,
         op'.pc \in {"wipe", "wipe_point", "wipe_files", "reply"}, op'.result \in {"none", "error"},
         UNCHANGED <<fs, loaded, entries, building, births, names, conf, meta, rootVars>>,
         disk'.infos = disk.infos
  PROVE  /\ Building' /\ Wiped'
         /\ Staged /\ op.pc \in {"wipe", "wipe_point", "wipe_files"} /\ op'.pc # "reply" => Staged'
<1>1. building = {}
  BY DEF FilesInv, Building
<1>2. Building'
  BY <1>1, BuildingStays DEF FilesInv
<1>3. Wiped'
  BY DEF Wiped, Done
<1>4. ASSUME Staged, op.pc \in {"wipe", "wipe_point", "wipe_files"}, op'.pc # "reply"
      PROVE  Staged'
  <2>1. Parts(TRUE, "set", TRUE, TRUE) /\ root = "kept" /\ astray = {}
    BY <1>4 DEF Staged
  <2>2. Parts(TRUE, "set", TRUE, TRUE)' /\ root' = "kept" /\ astray' = {}
    BY <2>1 DEF Parts, rootVars
  <2> QED BY <1>4, <2>2 DEF Staged, Making, Wiping
<1> QED BY <1>2, <1>3, <1>4

LEMMA WipeVolumeFiles ==
  ASSUME StoreInv, FilesInv, WipeVolume
  PROVE  FilesInv'
<1>1. PICK n \in wiping :
        \/ /\ Works
           /\ disk' = [disk EXCEPT !.volume = @ \ {n}]
           /\ op' = [op EXCEPT !.pc = IF fs = "lvm" THEN "wipe_point" ELSE "wipe_files", !.num = n]
           /\ UNCHANGED wiping
        \/ /\ Fails /\ UNCHANGED disk
           /\ UNCHANGED op \/ ReplyWith("error")
  BY DEF WipeVolume
<1>2. /\ op.pc = "wipe" /\ op.kind = "delete_config" /\ op.result = "none"
      /\ UNCHANGED <<fs, loaded, entries, building, births, names, conf, meta, rootVars>>
      /\ fs \in {"btrfs", "lvm"}
  BY StoreConstants DEF WipeVolume, storeVars, StoreInv, TypeOK, CallProgress, CallTyping, Wiping
<1>3. /\ disk'.infos = disk.infos /\ disk'.dirs = disk.dirs /\ disk'.info = disk.info
      /\ disk'.tmp = disk.tmp /\ disk'.lists = disk.lists /\ disk'.point = disk.point
      /\ op'.kind = op.kind /\ op'.result \in {"none", "error"}
      /\ \/ /\ Works /\ disk'.volume = disk.volume \ {n}
            /\ op'.pc = IF fs = "lvm" THEN "wipe_point" ELSE "wipe_files"
            /\ op'.num = n /\ wiping' = wiping
         \/ Fails /\ disk'.volume = disk.volume /\ op'.pc \in {"wipe", "reply"}
  <2>1. CASE /\ Works /\ disk' = [disk EXCEPT !.volume = @ \ {n}]
             /\ op' = [op EXCEPT !.pc = IF fs = "lvm" THEN "wipe_point" ELSE "wipe_files", !.num = n]
             /\ UNCHANGED wiping
    <3>1. /\ disk'.infos = disk.infos /\ disk'.dirs = disk.dirs /\ disk'.info = disk.info
          /\ disk'.tmp = disk.tmp /\ disk'.lists = disk.lists /\ disk'.point = disk.point
          /\ disk'.volume = disk.volume \ {n}
      BY <2>1 DEF StoreInv, TypeOK
    <3>2. /\ op'.kind = op.kind /\ op'.result = "none" /\ op'.num = n
          /\ op'.pc = IF fs = "lvm" THEN "wipe_point" ELSE "wipe_files"
      BY <1>2, <2>1 DEF StoreInv, CallTyping
    <3> QED BY <2>1, <3>1, <3>2
  <2>2. CASE Fails /\ UNCHANGED disk /\ UNCHANGED op
    BY <1>2, <2>2
  <2>3. CASE Fails /\ UNCHANGED disk /\ ReplyWith("error")
    BY <1>2, <2>3 DEF ReplyWith, StoreInv, CallTyping
  <2> QED BY <1>1, <2>1, <2>2, <2>3
<1>4. op'.pc \in {"wipe", "wipe_point", "wipe_files", "reply"}
  BY <1>3
<1>5. /\ Building' /\ Wiped'
      /\ Staged /\ op'.pc # "reply" => Staged'
  BY <1>2, <1>3, <1>4, WipedAside
<1>6. ListsInv'
  <2> SUFFICES ASSUME ListsKept PROVE ListsKept'
    BY DEF ListsInv, FilesInv
  <2>1. ASSUME NEW l \in disk.lists PROVE Kept(l)'
    BY <1>2, <1>3 DEF ListsKept, Kept
  <2> QED BY <1>3, <1>4, <2>1 DEF ListsKept, Creating
<1>7. FaultFree'
  <2> SUFFICES ASSUME faults' = 0 PROVE Expected' /\ Staged'
    BY DEF FaultFree
  <2>1. Works /\ faults = 0 /\ ~Fails
    BY <1>3, Faultless DEF StoreInv
  <2>2. Expected /\ Staged
    BY <2>1 DEF FilesInv, FaultFree
  <2>3. n \in DOMAIN disk.info
    BY <1>2, <2>2 DEF Expected
  <2>4. Expected'
    BY <1>2, <1>3, <2>1, <2>2, <2>3 DEF Expected, If, Wiping
  <2> QED BY <1>3, <1>5, <2>1, <2>2, <2>4
<1> QED BY <1>5, <1>6, <1>7 DEF FilesInv

LEMMA WipePointFiles ==
  ASSUME StoreInv, FilesInv, WipePoint
  PROVE  FilesInv'
<1>1. /\ op.pc = "wipe_point" /\ op.kind = "delete_config" /\ op.result = "none"
      /\ UNCHANGED <<fs, loaded, entries, building, births, names, conf, meta, rootVars>>
      /\ DOMAIN disk = Fields
  BY DEF WipePoint, storeVars, StoreInv, TypeOK, CallProgress, CallTyping, Wiping, Fields
<1>2. /\ op'.kind = op.kind /\ op'.num = op.num /\ op'.result \in {"none", "error"}
      /\ op'.pc \in {"wipe_files", "reply"}
  BY <1>1 DEF WipePoint, Goto, ReplyWith, StoreInv, CallTyping
<1>3. /\ disk'.infos = disk.infos /\ disk'.info = disk.info /\ disk'.volume = disk.volume
      /\ disk'.tmp = disk.tmp /\ disk'.lists = disk.lists
      /\ op.num \in DOMAIN disk.info => disk'.dirs = disk.dirs
      /\ \A l \in disk.lists : l.high \in disk.dirs => l.high \in disk'.dirs
      /\ \/ /\ Works /\ disk'.point = disk.point \ {op.num}
            /\ op'.pc = "wipe_files" /\ wiping' = wiping
         \/ Fails
  <2>1. CASE Fails /\ UNCHANGED disk
    BY <2>1
  <2>2. CASE /\ Works /\ disk' = RmDir([disk EXCEPT !.point = @ \ {op.num}], op.num)
             /\ UNCHANGED wiping /\ Goto("wipe_files")
    <3> DEFINE d == [disk EXCEPT !.point = @ \ {op.num}]
    <3>1. /\ DOMAIN d = Fields /\ d.infos = disk.infos /\ d.dirs = disk.dirs /\ d.info = disk.info
          /\ d.volume = disk.volume /\ d.point = disk.point \ {op.num} /\ d.tmp = disk.tmp /\ d.lists = disk.lists
      BY <1>1 DEF Fields
    <3>2. op'.pc = "wipe_files"
      BY <2>2 DEF Goto, StoreInv, CallTyping
    <3> HIDE DEF d
    <3>3. disk' = RmDir(d, op.num)
      BY <2>2 DEF d
    <3>4. /\ disk'.dirs = IF HasFiles(d, op.num) THEN d.dirs ELSE d.dirs \ {op.num}
          /\ disk'.infos = d.infos /\ disk'.info = d.info /\ disk'.volume = d.volume
          /\ disk'.point = d.point /\ disk'.tmp = d.tmp /\ disk'.lists = d.lists
      BY <3>1, <3>3, RmDirDoes, RmDirKeeps
    <3>5. op.num \in DOMAIN disk.info \/ (\E l \in disk.lists : l.high = op.num) => HasFiles(d, op.num)
      BY <3>1 DEF HasFiles
    <3> QED BY <2>2, <3>1, <3>2, <3>4, <3>5
  <2> QED BY <2>1, <2>2 DEF WipePoint
<1>4. Building' /\ Wiped' /\ (Staged /\ op'.pc # "reply" => Staged')
  BY <1>1, <1>2, <1>3, WipedAside
<1>5. ListsInv'
  <2> SUFFICES ASSUME ListsKept PROVE ListsKept'
    BY DEF ListsInv, FilesInv
  <2>1. ASSUME NEW l \in disk.lists PROVE Kept(l)'
    <3>1. Kept(l) /\ l.high \in disk'.dirs
      BY <1>3 DEF ListsKept, Kept
    <3> QED BY <1>1, <1>3, <3>1 DEF Kept
  <2> QED BY <1>2, <1>3, <2>1 DEF ListsKept, Creating
<1>6. FaultFree'
  <2> SUFFICES ASSUME faults' = 0 PROVE Expected' /\ Staged'
    BY DEF FaultFree
  <2>1. Works /\ faults = 0 /\ ~Fails
    BY Faultless DEF WipePoint, StoreInv
  <2>2. Expected /\ Staged
    BY <2>1 DEF FilesInv, FaultFree
  <2>3. op.num \in DOMAIN disk.info
    BY <1>1, <2>2 DEF Expected
  <2>4. Expected'
    BY <1>1, <1>2, <1>3, <2>1, <2>2, <2>3 DEF Expected, If, Wiping
  <2> QED BY <1>3, <1>4, <2>1, <2>2, <2>4
<1> QED BY <1>4, <1>5, <1>6 DEF FilesInv

LEMMA WipeFilesFiles ==
  ASSUME StoreInv, FilesInv, WipeFiles
  PROVE  FilesInv'
<1>1. /\ op.pc = "wipe_files" /\ op.kind = "delete_config" /\ op.num \notin disk.volume
      /\ op.result = "none"
      /\ UNCHANGED <<fs, loaded, entries, building, births, names, conf, meta, rootVars>>
  BY DEF WipeFiles, storeVars, StoreInv, CallProgress, CallTyping, Wiping
<1>2. /\ op'.kind = op.kind /\ op'.result \in {"none", "error"} /\ op'.num = op.num
      /\ op'.pc \in {"wipe", "reply"}
  BY <1>1 DEF WipeFiles, Goto, ReplyWith, StoreInv, CallTyping
<1>3. PICK N \in SUBSET {op.num}, L \in SUBSET disk.lists :
        /\ disk' \in {WithoutFiles(N, L), RmDir(WithoutFiles(N, L), op.num)}
        /\ \/ /\ Works /\ op'.pc = "wipe" /\ wiping' = wiping \ {op.num}
              /\ N = {op.num} /\ L = {l \in disk.lists : op.num \in {l.low, l.high}}
              /\ disk' = RmDir(WithoutFiles(N, L), op.num)
           \/ Fails
  <2> DEFINE about == {l \in disk.lists : op.num \in {l.low, l.high}}
  <2>1. about \in SUBSET disk.lists
    OBVIOUS
  <2>2. CASE /\ Works /\ disk' = RmDir(WithoutFiles({op.num}, about), op.num)
             /\ wiping' = wiping \ {op.num} /\ Goto("wipe")
    <3>1. op'.pc = "wipe"
      BY <2>2 DEF Goto, StoreInv, CallTyping
    <3> HIDE DEF about
    <3>2. /\ {op.num} \in SUBSET {op.num}
          /\ disk' \in {WithoutFiles({op.num}, about), RmDir(WithoutFiles({op.num}, about), op.num)}
      BY <2>2
    <3> QED BY <2>1, <2>2, <3>1, <3>2 DEF about
  <2>3. CASE /\ Fails
             /\ \E N \in SUBSET {op.num}, L \in SUBSET about :
                  disk' \in {WithoutFiles(N, L), RmDir(WithoutFiles(N, L), op.num)}
    <3>1. PICK N \in SUBSET {op.num}, L \in SUBSET about :
            disk' \in {WithoutFiles(N, L), RmDir(WithoutFiles(N, L), op.num)}
      BY <2>3
    <3>2. L \in SUBSET disk.lists
      BY <3>1
    <3> QED BY <2>3, <3>1, <3>2
  <2> QED BY <2>2, <2>3 DEF WipeFiles
<1> DEFINE d == WithoutFiles(N, L)
<1>4. /\ DOMAIN d = Fields /\ d.infos = disk.infos /\ d.dirs = disk.dirs
      /\ d.volume = disk.volume /\ d.point = disk.point /\ d.tmp = disk.tmp
      /\ d.lists = disk.lists \ L /\ DOMAIN d.info = DOMAIN disk.info \ N
  BY WithoutFilesKeeps DEF StoreInv
<1> HIDE DEF d
<1>5. /\ disk'.infos = disk.infos /\ disk'.volume = disk.volume /\ disk'.point = disk.point
      /\ disk'.tmp = disk.tmp /\ disk'.lists = disk.lists \ L /\ DOMAIN disk'.info = DOMAIN disk.info \ N
      /\ disk'.dirs = disk.dirs \/ disk'.dirs = IF HasFiles(d, op.num) THEN disk.dirs ELSE disk.dirs \ {op.num}
      /\ Works /\ ~Fails => disk'.dirs = IF HasFiles(d, op.num) THEN disk.dirs ELSE disk.dirs \ {op.num}
  <2>1. CASE disk' = d /\ Fails
    BY <1>4, <2>1
  <2>2. CASE disk' = RmDir(d, op.num)
    BY <1>4, <2>2, RmDirDoes, RmDirKeeps
  <2> QED BY <1>3, <2>1, <2>2 DEF d
<1>6. Building' /\ Wiped' /\ (Staged /\ op'.pc # "reply" => Staged')
  <2>1. op'.pc \in {"wipe", "wipe_point", "wipe_files", "reply"}
    BY <1>2
  <2> QED BY <1>1, <1>2, <1>5, <2>1, WipedAside
<1>7. ListsInv'
  <2> SUFFICES ASSUME ListsKept PROVE ListsKept'
    BY DEF ListsInv, FilesInv
  <2>1. ASSUME NEW l \in disk'.lists PROVE Kept(l)'
    <3>1. l \in disk.lists /\ l \in d.lists /\ Kept(l)
      BY <1>4, <1>5 DEF ListsKept
    <3>2. l.high = op.num => HasFiles(d, op.num)
      BY <3>1 DEF HasFiles
    <3>3. l.high \in disk'.dirs
      BY <1>5, <3>1, <3>2 DEF Kept
    <3>4. l.high \in disk.volume => l.high # op.num
      BY <1>1
    <3> QED BY <1>1, <1>3, <1>5, <3>1, <3>3, <3>4 DEF Kept
  <2> QED BY <1>2, <2>1 DEF ListsKept, Creating
<1>8. FaultFree'
  <2> SUFFICES ASSUME faults' = 0 PROVE Expected' /\ Staged'
    BY DEF FaultFree
  <2>1. Works /\ faults = 0 /\ ~Fails
    BY <1>3, Faultless DEF StoreInv
  <2>2. Expected /\ Staged
    BY <2>1 DEF FilesInv, FaultFree
  <2>3. /\ op'.pc = "wipe" /\ wiping' = wiping \ {op.num}
        /\ N = {op.num} /\ L = {l \in disk.lists : op.num \in {l.low, l.high}}
    BY <1>3, <2>1
  <2>4. /\ op.num \in DOMAIN disk.info /\ op.num \notin disk.tmp \cup disk.point
        /\ disk.dirs = DOMAIN disk.info
    BY <1>1, <2>2 DEF Expected, If
  <2>5. ~HasFiles(d, op.num)
    BY <1>1, <1>4, <2>3, <2>4 DEF HasFiles
  <2>6. disk'.dirs = DOMAIN disk'.info
    BY <1>5, <2>1, <2>3, <2>4, <2>5
  <2>7. Expected'
    BY <1>1, <1>2, <1>5, <2>2, <2>3, <2>4, <2>6 DEF Expected, If, Wiping
  <2> QED BY <1>6, <2>2, <2>3, <2>7
<1> QED BY <1>6, <1>7, <1>8 DEF FilesInv

LEMMA DeleteInfosFiles ==
  ASSUME StoreInv, FilesInv, DeleteInfos
  PROVE  FilesInv'
<1>1. /\ op.pc = "wipe" /\ op.kind = "delete_config" /\ wiping = {} /\ building = {}
      /\ UNCHANGED <<fs, loaded, entries, building, births, names, conf, meta, wiping, root, astray>>
  BY DEF DeleteInfos, storeVars, configVars, StoreInv, CallProgress, Wiping, FilesInv, Building
<1>2. op'.kind = op.kind /\ op'.num = op.num /\ op'.result \in {"none", "error"}
  <2>1. op.result = "none"
    BY <1>1 DEF StoreInv, CallTyping
  <2> QED BY <2>1 DEF DeleteInfos, Goto, ReplyWith, StoreInv, CallTyping
<1>3. \/ /\ Works /\ Removable /\ op'.pc = "delete_file" /\ op'.result = "none"
         /\ disk'.infos = FALSE /\ disk'.dirs = {} /\ DOMAIN disk'.info = {}
         /\ disk'.volume = disk.volume /\ disk'.point = {} /\ disk'.tmp = {} /\ disk'.lists = {}
      \/ /\ IF disk.infos /\ Removable THEN Fails ELSE Works
         /\ disk' = disk /\ op'.pc = "reply" /\ op'.result = "error"
  <2>1. CASE /\ IF disk.infos /\ Removable THEN Fails ELSE Works
             /\ UNCHANGED disk /\ ReplyWith("error")
    BY <2>1 DEF ReplyWith, StoreInv, CallTyping
  <2>2. CASE /\ Works /\ Removable /\ Goto("delete_file")
             /\ disk' = [EmptyDisk EXCEPT !.infos = FALSE, !.volume = disk.volume]
    <3>1. op'.pc = "delete_file" /\ op'.result = "none"
      BY <1>1, <2>2 DEF Goto, StoreInv, CallTyping
    <3> QED BY <2>2, <3>1 DEF EmptyDisk, NoInfo
  <2> QED BY <2>1, <2>2 DEF DeleteInfos
<1>4. Building'
  BY <1>1, <1>2, BuildingStays DEF FilesInv
<1>5. Wiped'
  BY <1>1, <1>2, <1>3 DEF Wiped, Done, Removable
<1>6. ListsInv'
  BY <1>1, <1>3 DEF FilesInv, ListsInv, ListsKept, Kept, Creating
<1>7. FaultFree'
  <2> SUFFICES ASSUME faults' = 0 PROVE Expected' /\ Staged'
    BY DEF FaultFree
  <2>1. faults = 0 /\ ~Fails
    BY <1>3, Faultless DEF StoreInv
  <2>2. Expected /\ Staged
    BY <2>1 DEF FilesInv, FaultFree
  <2>3. Parts(TRUE, "set", TRUE, TRUE)
    BY <1>1, <2>2 DEF Staged
  <2>4. disk.dirs = {} /\ disk.volume = {}
    BY <1>1, <2>2 DEF Expected, If
  <2>5. disk.infos /\ Removable
    BY <2>3, <2>4 DEF Parts, Removable
  <2>6. Expected'
    BY <1>1, <1>3, <2>1, <2>4, <2>5 DEF Expected, If, Wiping
  <2>7. Parts(TRUE, "set", FALSE, TRUE)'
    BY <1>1, <1>3, <2>1, <2>3, <2>5 DEF Parts
  <2>8. Staged'
    BY <1>1, <1>3, <2>1, <2>2, <2>5, <2>7 DEF Staged, Making, Wiping
  <2> QED BY <2>6, <2>8
<1> QED BY <1>4, <1>5, <1>6, <1>7 DEF FilesInv

LEMMA DeleteFileFiles ==
  ASSUME StoreInv, FilesInv, DeleteFile \/ RemoveName
  PROVE  FilesInv'
<1>1. /\ UNCHANGED <<fs, disk, loaded, entries, building, births>> /\ meta' = meta /\ UNCHANGED <<root, astray>>
      /\ op.pc \in {"delete_file", "remove_name"} /\ op.kind = "delete_config"
  BY DEF DeleteFile, RemoveName, storeVars, rootVars, StoreInv, CallProgress, Wiping
<1>2. /\ op'.kind = op.kind /\ op'.result \in {"none", "error"}
      /\ op'.pc \in {"reply", "remove_name", "erase"}
  <2>1. op.result = "none"
    BY <1>1 DEF StoreInv, CallTyping
  <2> QED BY <2>1 DEF DeleteFile, RemoveName, Goto, ReplyWith, StoreInv, CallTyping
<1>3. /\ Works \/ Fails
      /\ op.pc = "delete_file" =>
           /\ names' = names
           /\ \/ op'.pc = "remove_name" /\ conf' = "none"
              \/ op'.pc = "reply" /\ Fails
      /\ op.pc = "remove_name" =>
           /\ conf' = conf /\ op'.pc = "erase"
           /\ Fails \/ names' = names \ {"this"}
  <2>1. CASE DeleteFile
    <3>1. \/ Works /\ conf' = "none" /\ op'.pc = "remove_name"
          \/ Fails /\ op'.pc = "reply"
      BY <2>1 DEF DeleteFile, Goto, ReplyWith, StoreInv, CallTyping
    <3> QED BY <2>1, <3>1 DEF DeleteFile
  <2>2. CASE RemoveName
    BY <2>2 DEF RemoveName, SaveNames, Goto, StoreInv, CallTyping
  <2> QED BY <2>1, <2>2
<1>4. Building' /\ ListsInv' /\ (Expected /\ op'.pc \in Wiping => Expected')
  BY <1>1, <1>2, NoFilesTouched DEF Making
<1>5. Wiped'
  BY <1>1, <1>2, <1>3 DEF FilesInv, Wiped, Done
<1>6. FaultFree'
  <2> SUFFICES ASSUME faults' = 0 PROVE Expected' /\ Staged'
    BY DEF FaultFree
  <2>1. faults = 0 /\ ~Fails
    BY <1>3, Faultless DEF StoreInv
  <2>2. Expected /\ Staged
    BY <2>1 DEF FilesInv, FaultFree
  <2>3. Expected'
    BY <1>1, <1>2, <1>3, <1>4, <2>1, <2>2 DEF Wiping
  <2>4. CASE op.pc = "delete_file"
    <3>1. Parts(TRUE, "set", FALSE, TRUE)
      BY <2>2, <2>4 DEF Staged
    <3>2. op'.pc = "remove_name" /\ Parts(TRUE, "none", FALSE, TRUE)'
      BY <1>1, <1>3, <2>1, <2>4, <3>1 DEF Parts
    <3> QED BY <1>1, <1>2, <2>2, <2>3, <3>2 DEF Staged, Making, Wiping
  <2>5. CASE op.pc = "remove_name"
    <3>1. Parts(TRUE, "none", FALSE, TRUE)
      BY <2>2, <2>5 DEF Staged
    <3>2. op'.pc = "erase" /\ Parts(FALSE, "none", FALSE, TRUE)'
      BY <1>1, <1>3, <2>1, <2>5, <3>1 DEF Parts
    <3> QED BY <1>1, <1>2, <2>2, <2>3, <3>2 DEF Staged, Making, Wiping
  <2> QED BY <1>1, <2>4, <2>5
<1> QED BY <1>4, <1>5, <1>6 DEF FilesInv

LEMMA EraseFiles ==
  ASSUME StoreInv, FilesInv, Erase
  PROVE  FilesInv'
<1>1. /\ op.pc = "erase" /\ op.kind = "delete_config" /\ building = {} /\ ~loaded' /\ meta' = FALSE
      /\ UNCHANGED <<fs, building, births, faults, names, conf, root>> /\ astray' = astray \ {"daemon"}
      /\ disk' = Flushed(Modified) /\ \A n \in Modified : CanOpen(n)
  BY DEF Erase, WriteBack, StoreInv, CallProgress, Wiping, FilesInv, Building
<1>2. op'.pc = "reply" /\ op'.kind = op.kind
  BY DEF Erase, ReplyWith, StoreInv, CallTyping
<1>3. /\ disk'.infos = disk.infos /\ disk'.dirs = disk.dirs /\ disk'.volume = disk.volume
      /\ disk'.point = disk.point /\ disk'.lists = disk.lists /\ disk'.tmp = disk.tmp
      /\ DOMAIN disk.info \subseteq DOMAIN disk'.info
      /\ DOMAIN disk'.info \subseteq DOMAIN disk.info \cup Modified
  BY <1>1, FlushedKeeps
<1>4. Building'
  BY <1>1, <1>2, BuildingStays DEF FilesInv
<1>5. Wiped'
  BY <1>1, <1>2, <1>3 DEF FilesInv, Wiped
<1>6. ListsInv'
  BY <1>1, <1>2, <1>3 DEF FilesInv, ListsInv, ListsKept, Kept, Creating
<1>7. FaultFree'
  <2> SUFFICES ASSUME faults = 0 PROVE Expected' /\ Staged'
    BY <1>1 DEF FaultFree
  <2>1. Expected /\ Staged
    BY DEF FilesInv, FaultFree
  <2>2. Parts(FALSE, "none", FALSE, TRUE) /\ root = "kept" /\ astray = {}
    BY <1>1, <2>1 DEF Staged
  <2>3. DOMAIN disk'.info = DOMAIN disk.info
    BY <1>1, <1>3, <2>2 DEF Parts, CanOpen
  <2>4. Expected'
    BY <1>1, <1>2, <1>3, <2>1, <2>3 DEF Expected, If, Wiping
  <2>5. Parts(FALSE, "none", FALSE, FALSE)' /\ root' = "kept" /\ astray' = {}
    BY <1>1, <1>3, <2>2 DEF Parts
  <2>6. Staged'
    BY <1>2, <2>5 DEF Staged, Making, Wiping
  <2> QED BY <2>4, <2>6
<1> QED BY <1>4, <1>5, <1>6, <1>7 DEF FilesInv

(* Objects for "/" come and go only when something has failed.             *)
LEMMA RootFiles ==
  ASSUME StoreInv, FilesInv, LoadRoot \/ UnloadRoot
  PROVE  FilesInv'
<1>1. UNCHANGED <<fs, disk, loaded, entries, op, building, births, faults>> /\ op.pc = "idle" /\ op.kind = "none"
  BY DEF LoadRoot, UnloadRoot, vars, Idle
<1>2. Building' /\ ListsInv' /\ Wiped'
  BY <1>1 DEF FilesInv, Building, Births, ListsInv, ListsKept, Kept, Wiped, Done
<1>3. faults = 0 => FALSE
  <2>1. faults = 0 => astray = {} /\ conf # "template"
    BY <1>1 DEF FilesInv, FaultFree, Staged, Parts, Making, Wiping
  <2> QED BY <2>1 DEF LoadRoot, UnloadRoot
<1>4. FaultFree'
  BY <1>1, <1>3 DEF FaultFree
<1> QED BY <1>2, <1>4 DEF FilesInv

-----------------------------------------------------------------------------
(* The invariant, and what follows from it                                 *)

LEMMA FilesInvKept ==
  ASSUME StoreInv, FilesInv, [ConfigNext]_allVars
  PROVE  FilesInv'
<1>1. CASE Call /\ UNCHANGED configVars
  BY <1>1, CreateFiles, SetFiles DEF Call
<1>2. CASE Load /\ UNCHANGED configVars
  BY <1>2, LoadFiles
<1>3. CASE Work /\ UNCHANGED configVars
  BY <1>3, CreateVolumeFiles, CreatePointFiles, WriteInfoFiles, FlushFiles, DeleteVolumeFiles,
     DeletePointFiles, DeleteInfoFiles, DeleteOwnListsFiles, DeleteListsFiles, DeleteDirFiles, ReplyFiles,
     CompareFiles, SaveFiles, UnloadFiles DEF Work
<1>4. CASE CreateConfig \/ AddName \/ CopyTemplate \/ SetValues \/ CreateInfos
  BY <1>4, CreateConfigFiles, MakingFiles, CreateInfosFiles
<1>5. CASE \/ DeleteConfig \/ WipeRoot \/ WipeVolume \/ WipePoint \/ WipeFiles \/ DeleteInfos
           \/ DeleteFile \/ RemoveName \/ Erase \/ LoadRoot \/ UnloadRoot
  BY <1>5, DeleteConfigFiles, WipeRootFiles, WipeVolumeFiles, WipePointFiles, WipeFilesFiles,
     DeleteInfosFiles, DeleteFileFiles, EraseFiles, RootFiles
<1>6. CASE CrashAndRestart \/ AbortAndRestart \/ DieErasing
  BY <1>6, CrashFiles, AbortFiles, DieErasingFiles DEF CrashAndRestart, AbortAndRestart
<1>7. CASE UNCHANGED allVars
  <2>1. Building' /\ ListsInv' /\ Wiped'
    BY <1>7 DEF allVars, vars, configVars, FilesInv, Building, Births, ListsInv, ListsKept, Kept,
       Wiped, Done
  <2>2. FaultFree'
    BY <1>7 DEF allVars, vars, configVars, FilesInv, FaultFree, Expected, Staged, Parts
  <2> QED BY <2>1, <2>2 DEF FilesInv
<1> QED BY <1>1, <1>2, <1>3, <1>4, <1>5, <1>6, <1>7 DEF ConfigNext

LEMMA FilesInvInit == ConfigInit => FilesInv
<1> SUFFICES ASSUME ConfigInit PROVE FilesInv
  OBVIOUS
<1>1. /\ disk.infos = FALSE /\ disk.dirs = {} /\ DOMAIN disk.info = {} /\ disk.volume = {}
      /\ disk.point = {} /\ disk.tmp = {} /\ disk.lists = {}
  BY DEF ConfigInit, EmptyDisk, NoInfo
<1>2. op.pc = "idle" /\ op.kind = "none" /\ ~loaded /\ building = {}
  BY DEF ConfigInit, Idle
<1>3. Building /\ ListsInv /\ Wiped
  BY <1>1, <1>2 DEF Building, ListsInv, ListsKept, Creating, Wiped, Done
<1>4. Expected
  BY <1>1, <1>2 DEF Expected, If
<1>5. Staged
  BY <1>1, <1>2 DEF ConfigInit, Staged, Parts
<1> QED BY <1>3, <1>4, <1>5 DEF FilesInv, FaultFree

LEMMA FilesInvariance == ConfigSpec => [](StoreInv /\ FilesInv)
<1>1. StoreInv /\ FilesInv /\ [ConfigNext]_allVars => FilesInv'
  BY FilesInvKept
<1> QED BY <1>1, FilesInvInit, StoreInvariance, PTL DEF ConfigSpec

(* Comparison::load takes any list that has the right numbers: however     *)
(* often those were given out, crashes and failed deletions in between,    *)
(* the list is about the two snapshots that have them now.                 *)
THEOREM FileListsStayFresh == ConfigSpec => []FileListsFresh
<1>1. StoreInv /\ FilesInv => FileListsFresh
  <2> SUFFICES ASSUME StoreInv, FilesInv, "skip" \notin Fault, NEW l \in disk.lists,
                      {l.low, l.high} \subseteq DOMAIN Durable
               PROVE  l.births = Births(l.low, l.high)
    BY DEF FileListsFresh
  <2>1. l.high \in disk.volume
    BY ReadableListed DEF StoreInv, Listed
  <2>2. l.births[1] = births[l.low] /\ l.births[2] = births[l.high]
    BY <2>1 DEF FilesInv, ListsInv, ListsKept, Kept
  <2>3. l.births \in (1..MaxBirths) \X (1..MaxBirths)
    BY DEF StoreInv, TypeOK, List
  <2> QED BY <2>2, <2>3 DEF Births
<1> QED BY <1>1, FilesInvariance, PTL

(* As long as nothing has failed, calls leave no directory, volume,        *)
(* temporary file or saved list behind that is not a listed snapshot's.    *)
THEOREM CallsLeaveNothing == ConfigSpec => []Tidy
<1>1. StoreInv /\ FilesInv => Tidy
  <2> SUFFICES ASSUME StoreInv, FilesInv, faults = 0, op = Idle
               PROVE  /\ disk.dirs = DOMAIN Durable /\ disk.volume = DOMAIN Durable /\ disk.tmp = {}
                      /\ \A l \in disk.lists : {l.low, l.high} \subseteq DOMAIN Durable
    BY DEF Tidy
  <2>1. op.pc = "idle" /\ Expected
    BY DEF Idle, FilesInv, FaultFree
  <2>2. DOMAIN Durable = DOMAIN disk.info \cap disk.volume
    BY ReadableListed DEF StoreInv, Listed
  <2> QED BY <2>1, <2>2 DEF Expected, If
<1> QED BY <1>1, FilesInvariance, PTL

(* As long as nothing has failed, the name, the file, .snapshots and the   *)
(* entry in meta_snappers are there together or not at all between calls.  *)
THEOREM ConfigStaysWhole == ConfigSpec => []ConfigWhole
<1>1. StoreInv /\ FilesInv => ConfigWhole
  BY DEF FilesInv, FaultFree, Staged, Parts, Idle, Making, Wiping, ConfigWhole
<1> QED BY <1>1, FilesInvariance, PTL

(* After a DeleteConfig answered "ok" there is no snapshot and no file     *)
(* left, even if calls before it had failed half way, unless the config    *)
(* file was still the template: that happens only after a failure, and     *)
(* then the config's own .snapshots may stay.                              *)
THEOREM DeleteConfigWipes == ConfigSpec => []WipedClean
<1>1. StoreInv /\ FilesInv => WipedClean
  <2> SUFFICES ASSUME StoreInv, FilesInv, Done PROVE WipedClean
    BY DEF WipedClean, Done
  <2>1. conf = "none"
    BY DEF FilesInv, Wiped
  <2>2. "deleteConfig" \notin astray => ~disk.infos /\ (fs = "btrfs" => disk.volume = {})
    BY DEF FilesInv, Wiped
  <2>3. "deleteConfig" \notin astray => disk.dirs = {} /\ DOMAIN disk.info = {}
    BY <2>2 DEF StoreInv, NumbersUsed, TypeOK
  <2>4. op.pc = "reply"
    BY DEF StoreInv, CallTyping, Done
  <2>5. faults = 0 => "this" \notin names /\ astray = {}
    BY <2>4 DEF FilesInv, FaultFree, Staged, Parts, Done
  <2>6. faults = 0 => disk.volume = DOMAIN disk.info
    BY <2>4 DEF FilesInv, FaultFree, Expected, If
  <2> QED BY <2>1, <2>2, <2>3, <2>5, <2>6 DEF WipedClean
<1> QED BY <1>1, FilesInvariance, PTL

(* Configs other than this one stay listed, unless the file was torn, and  *)
(* the snapshots of "/" stay, unless something has failed.                 *)
THEOREM OthersAreKept == ConfigSpec => []OthersKept
<1> DEFINE Others == "other" \in names \/ torn
<1>1. ConfigInit => Others
  BY DEF ConfigInit
<1>2. Others /\ [ConfigNext]_allVars => Others'
  <2> SUFFICES ASSUME Others, [ConfigNext]_allVars PROVE Others'
    OBVIOUS
  <2>1. CASE UNCHANGED <<names, torn>>
    BY <2>1
  <2>2. CASE AddName \/ RemoveName
    BY <2>2 DEF AddName, RemoveName, SaveNames
  <2>3. CASE Restarted
    BY <2>3 DEF Restarted
  <2> QED
    BY <2>1, <2>2, <2>3 DEF ConfigNext, allVars, configVars, CreateConfig, CopyTemplate, SetValues,
       CreateInfos, DeleteConfig, WipeRoot, WipeVolume, WipePoint, WipeFiles, DeleteInfos, DeleteFile,
       Erase, LoadRoot, UnloadRoot, CrashAndRestart, AbortAndRestart, DieErasing
<1>3. StoreInv /\ FilesInv => (root = "wiped" => faults > 0)
  <2> SUFFICES ASSUME StoreInv, FilesInv, root = "wiped" PROVE faults > 0
    OBVIOUS
  <2>1. faults # 0
    BY DEF FilesInv, FaultFree, Staged
  <2>2. faults \in 0..MaxFaults /\ MaxFaults \in Nat
    BY StoreConstants DEF StoreInv, TypeOK
  <2> QED BY <2>1, <2>2
<1>4. Others /\ StoreInv /\ FilesInv => OthersKept
  BY <1>3 DEF OthersKept
<1> HIDE DEF Others
<1> QED
  BY <1>1, <1>2, <1>4, FilesInvariance, PTL DEF ConfigSpec

=============================================================================
