----------------------------- MODULE ConfigStore -----------------------------
(***************************************************************************)
(* The config around a snapshot store: its name in SNAPPER_CONFIGS, its    *)
(* config file, its .snapshots and its entry in the daemon's meta_snappers *)
(* (Snapper::createConfig and deleteConfig, SysconfigFile).  Each of them  *)
(* is made and removed by a step of its own, none is undone when a later   *)
(* one fails.  The template a config file is copied from names "/" and     *)
(* btrfs, and as long as it has not been rewritten, the config is one of   *)
(* "/", whose snapshots are not followed one by one; the config modelled   *)
(* is meant for another subvolume.                                         *)
(***************************************************************************)
EXTENDS SnapshotStore

VARIABLES
  names,   \* SNAPPER_CONFIGS, of which "this" is the config modelled
  conf,    \* its config file: "none", "template" (copied), "set", "torn"
  meta,    \* it is in meta_snappers
  wiping,  \* what deleteConfig's own Snapper object still lists
  torn,    \* the file with SNAPPER_CONFIGS has been left half written
  root,    \* "kept", or "wiped": a deleteConfig for this config has deleted
           \* the snapshots of "/"
  astray   \* the Snapper objects made for this config that are of "/": the
           \* daemon's own, the one of the last deleteConfig

configVars == <<names, conf, meta, wiping, torn, root, astray>>
allVars == <<vars, configVars>>

ConfigTypeOK ==
  /\ TypeOK
  /\ names \subseteq {"this", "other"} /\ conf \in {"none", "template", "set", "torn"}
  /\ meta \in BOOLEAN /\ torn \in BOOLEAN /\ wiping \subseteq Num
  /\ root \in {"kept", "wiped"} /\ astray \subseteq {"daemon", "deleteConfig"}

ConfigInit ==
  /\ fs \in BackEnds /\ disk = [EmptyDisk EXCEPT !.infos = FALSE]
  /\ loaded = FALSE /\ entries = NoInfo
  /\ op = Idle /\ building = {}
  /\ births = [n \in Num |-> 0] /\ faults = 0
  /\ names = {"other"} /\ conf = "none" /\ meta = FALSE /\ wiping = {} /\ torn = FALSE
  /\ root = "kept" /\ astray = {}

storeVars == <<fs, loaded, entries, building, births>>
rootVars == <<root, astray>>

(* SysconfigFile::~SysconfigFile: AsciiFile::save writes the file in place *)
(* and its result is not looked at.                                        *)
SaveNames(N) ==
  \/ names' = N /\ Works /\ UNCHANGED torn
  \/ names' \in {names, {}} /\ Fails /\ torn' = (torn \/ names' = {})

-----------------------------------------------------------------------------

(* CreateConfig: refused when the subvolume has a config or the name is    *)
(* listed.                                                                 *)
CreateConfig ==
  /\ op = Idle
  /\ op' = [Idle EXCEPT !.kind = "create_config",
                        !.pc = IF "this" \in names THEN "reply" ELSE "add_name",
                        !.result = IF "this" \in names THEN "error" ELSE "none"]
  /\ UNCHANGED <<fs, disk, loaded, entries, building, births, faults, configVars>>

AddName ==
  /\ op.pc = "add_name"
  /\ SaveNames(names \cup {"this"})
  /\ Goto("copy_template")
  /\ UNCHANGED <<disk, conf, meta, wiping, rootVars, storeVars>>

CopyTemplate ==
  /\ op.pc = "copy_template"
  /\ \/ Works /\ conf' = "template" /\ Goto("set_values")
     \/ Fails /\ UNCHANGED conf /\ ReplyWith("error")
  /\ UNCHANGED <<disk, names, meta, wiping, torn, rootVars, storeVars>>

(* SUBVOLUME and FSTYPE, again saved by the destructor; a file cut off     *)
(* before one of them is "torn", one cut off behind both still has them.   *)
SetValues ==
  /\ op.pc = "set_values"
  /\ \/ conf' = "set" /\ Works
     \/ conf' \in {"template", "torn", "set"} /\ Fails
  /\ Goto("create_infos")
  /\ UNCHANGED <<disk, names, meta, wiping, torn, rootVars, storeVars>>

(* Btrfs::createConfig makes a subvolume, Lvm::createConfig a directory    *)
(* that may be there already.                                              *)
CreateInfos ==
  /\ op.pc = "create_infos"
  /\ \/ /\ Works /\ ~(fs = "btrfs" /\ disk.infos)
        /\ disk' = [disk EXCEPT !.infos = TRUE]
        /\ meta' = TRUE
        /\ ReplyWith("ok")
     \/ /\ IF fs = "btrfs" /\ disk.infos THEN Works ELSE Fails
        /\ UNCHANGED <<disk, meta>>
        /\ ReplyWith("error")
  /\ UNCHANGED <<names, conf, wiping, torn, rootVars, storeVars>>

-----------------------------------------------------------------------------

(* DeleteConfig: a Snapper object of its own reads the list that goes with *)
(* the config file, if that says of which subvolume.                       *)
DeleteConfig ==
  /\ op = Idle /\ meta /\ building = {}
  /\ wiping' = IF conf = "set" THEN Readable(disk) ELSE {}
  /\ astray' = IF conf = "template" THEN astray \cup {"deleteConfig"} ELSE astray \ {"deleteConfig"}
  /\ op' = [Idle EXCEPT !.kind = "delete_config",
                        !.pc = CASE conf = "set" -> "wipe" [] conf = "template" -> "wipe_root"
                                 [] OTHER -> "reply",
                        !.result = IF conf \in {"set", "template"} THEN "none" ELSE "error"]
  /\ UNCHANGED <<fs, disk, loaded, entries, building, births, faults, names, conf, meta, torn, root>>

(* The snapshots of "/" and then its .snapshots, if there is one: that is  *)
(* a matter of another config.                                             *)
WipeRoot ==
  /\ op.pc = "wipe_root"
  /\ \/ Works /\ root' = "wiped" /\ Goto("delete_file")
     \/ (Works \/ Fails) /\ UNCHANGED root /\ ReplyWith("error")
  /\ UNCHANGED <<disk, names, conf, meta, wiping, torn, astray, storeVars>>

(* The snapshots of the config in turn, past those whose volume cannot be  *)
(* deleted; an exception of another kind ends the call.                    *)
WipeVolume ==
  /\ op.pc = "wipe" /\ wiping # {}
  /\ \E n \in wiping :
       /\ \A m \in wiping : n <= m
       /\ \/ /\ Works
             /\ disk' = [disk EXCEPT !.volume = @ \ {n}]
             /\ op' = [op EXCEPT !.pc = IF fs = "lvm" THEN "wipe_point" ELSE "wipe_files", !.num = n]
             /\ UNCHANGED wiping
          \/ /\ Fails /\ UNCHANGED disk
             /\ \/ wiping' = wiping \ {n} /\ UNCHANGED op
                \/ wiping' = {} /\ ReplyWith("error")
  /\ UNCHANGED <<names, conf, meta, torn, rootVars, storeVars>>

WipePoint ==
  /\ op.pc = "wipe_point"
  /\ \/ /\ Works
        /\ disk' = RmDir([disk EXCEPT !.point = @ \ {op.num}], op.num)
        /\ UNCHANGED wiping /\ Goto("wipe_files")
     \/ /\ Fails /\ UNCHANGED disk
        /\ \/ UNCHANGED wiping /\ Goto("wipe_files")
           \/ wiping' = {} /\ ReplyWith("error")
  /\ UNCHANGED <<names, conf, meta, torn, rootVars, storeVars>>

(* Its files, of which some may stay unnoticed                             *)
WithoutFiles(N, L) == [disk EXCEPT !.info = Restrict(@, DOMAIN @ \ N), !.lists = @ \ L]
WipeFiles ==
  /\ op.pc = "wipe_files"
  /\ LET n == op.num
         about == {l \in disk.lists : n \in {l.low, l.high}}
     IN  \/ /\ Works
            /\ disk' = RmDir(WithoutFiles({n}, about), n)
            /\ wiping' = wiping \ {n}
            /\ Goto("wipe")
         \/ /\ Fails
            /\ \E N \in SUBSET {n}, L \in SUBSET about :
                 disk' \in {WithoutFiles(N, L), RmDir(WithoutFiles(N, L), n)}
            /\ \/ wiping' = wiping \ {n} /\ Goto("wipe")
               \/ wiping' = {} /\ ReplyWith("error")
  /\ UNCHANGED <<names, conf, meta, torn, rootVars, storeVars>>

(* Btrfs deletes a subvolume with all that is in it but other subvolumes,  *)
(* Lvm an empty directory.                                                 *)
Removable == IF fs = "btrfs" THEN disk.volume = {} ELSE disk.dirs = {}
DeleteInfosAnyhow ==
  /\ op.pc = "wipe" /\ wiping = {}
  /\ Works
  /\ disk' = IF disk.infos /\ Removable THEN [EmptyDisk EXCEPT !.infos = FALSE] ELSE disk
  /\ Goto("delete_file")
  /\ UNCHANGED <<configVars, storeVars>>
DeleteInfos ==
  /\ op.pc = "wipe" /\ wiping = {}
  /\ \/ /\ Works /\ disk.infos /\ Removable
        /\ disk' = [EmptyDisk EXCEPT !.infos = FALSE, !.volume = disk.volume]
        /\ Goto("delete_file")
     \/ /\ IF disk.infos /\ Removable THEN Fails ELSE Works
        /\ UNCHANGED disk
        /\ ReplyWith("error")
  /\ UNCHANGED <<configVars, storeVars>>

DeleteFile ==
  /\ op.pc = "delete_file"
  /\ \/ Works /\ conf' = "none" /\ Goto("remove_name")
     \/ Fails /\ UNCHANGED conf /\ ReplyWith("error")
  /\ UNCHANGED <<disk, names, meta, wiping, torn, rootVars, storeVars>>

RemoveAllNames ==
  /\ op.pc = "remove_name"
  /\ SaveNames({})
  /\ Goto("erase")
  /\ UNCHANGED <<disk, conf, meta, wiping, rootVars, storeVars>>
RemoveNoName ==
  /\ op.pc = "remove_name" /\ Works
  /\ Goto("erase")
  /\ UNCHANGED <<disk, configVars, storeVars>>
RemoveName ==
  /\ op.pc = "remove_name"
  /\ SaveNames(names \ {"this"})
  /\ Goto("erase")
  /\ UNCHANGED <<disk, conf, meta, wiping, rootVars, storeVars>>

(* ~MetaSnapper deletes the daemon's own Snapper object, if it is loaded;  *)
(* a text it still had to write mostly has no place any more.              *)
Erase ==
  /\ op.pc = "erase"
  /\ WriteBack
  /\ meta' = FALSE /\ loaded' = FALSE /\ entries' = NoInfo
  /\ astray' = astray \ {"daemon"}
  /\ ReplyWith("ok")
  /\ UNCHANGED <<fs, building, births, faults, names, conf, wiping, torn, root>>

(* A daemon that dies is started again: MetaSnappers::init, with what the  *)
(* file being written then holds.                                          *)
Restarted ==
  /\ wiping' = {} /\ astray' = {} /\ UNCHANGED root
  /\ \/ UNCHANGED <<names, torn>>
     \/ names' = {} /\ torn' = TRUE /\ op.pc \in {"add_name", "remove_name"}
  /\ \/ UNCHANGED conf
     \/ conf' = "torn" /\ op.pc = "set_values"
  /\ meta' = ("this" \in names' /\ conf' # "none")
CrashAndRestart == Crash /\ Restarted
AbortAndRestart == Abort /\ Restarted
DieErasing ==
  /\ op.pc = "erase"
  /\ \/ WriteBackFails
     \/ "daemon" \in astray /\ root = "wiped" /\ Works /\ UNCHANGED disk
  /\ Die /\ Restarted

(* A Snapper object for "/": what is called with it is none of this        *)
(* config's snapshots.                                                     *)
LoadRoot ==
  /\ meta /\ conf = "template" /\ op = Idle
  /\ ~loaded /\ "daemon" \notin astray
  /\ astray' = astray \cup {"daemon"}
  /\ UNCHANGED <<vars, names, conf, meta, wiping, torn, root>>
UnloadRoot ==
  /\ op = Idle /\ "daemon" \in astray
  /\ astray' = astray \ {"daemon"}
  /\ UNCHANGED <<vars, names, conf, meta, wiping, torn, root>>

ConfigNext ==
  \/ meta /\ Call /\ UNCHANGED configVars
  \/ meta /\ conf = "set" /\ "daemon" \notin astray /\ Load /\ UNCHANGED configVars
  \/ Work /\ UNCHANGED configVars
  \/ CreateConfig \/ AddName \/ CopyTemplate \/ SetValues \/ CreateInfos
  \/ DeleteConfig \/ WipeRoot \/ WipeVolume \/ WipePoint \/ WipeFiles \/ DeleteInfos
  \/ DeleteFile \/ RemoveName \/ Erase \/ LoadRoot \/ UnloadRoot
  \/ CrashAndRestart \/ AbortAndRestart \/ DieErasing

ConfigSpec == ConfigInit /\ [][ConfigNext]_allVars

-----------------------------------------------------------------------------
(* Properties                                                              *)

(* As long as nothing has failed, the four parts of a config are there     *)
(* together or not at all.                                                 *)
ConfigWhole ==
  faults = 0 /\ op = Idle =>
    /\ meta <=> "this" \in names
    /\ meta <=> conf = "set"
    /\ meta <=> disk.infos

(* A DeleteConfig that is answered "ok" leaves no snapshot and no file of  *)
(* the config, also after earlier failures, but for logical volumes        *)
(* without a directory and a name that could not be taken off the list.    *)
(* A config left as the template is the exception: "/" is wiped for it,    *)
(* and its own .snapshots stays.                                           *)
WipedClean ==
  op.kind = "delete_config" /\ op.result = "ok" =>
    /\ conf = "none"
    /\ "deleteConfig" \notin astray =>
         /\ ~disk.infos /\ disk.dirs = {}
         /\ fs = "btrfs" \/ faults = 0 => disk.volume = {}
    /\ faults = 0 => "this" \notin names /\ "deleteConfig" \notin astray

(* Whatever happens to this config, the others stay listed, unless the     *)
(* file with their names was left half written, and the snapshots of "/"   *)
(* stay, unless something has failed.                                      *)
OthersKept ==
  /\ "other" \in names \/ torn
  /\ root = "wiped" => faults > 0

=============================================================================
