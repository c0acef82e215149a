# Snapper: specifications, model checks and proofs

Snapper keeps snapshots of file systems. Clients talk over D-Bus to a daemon,
`snapperd`, which creates, lists, mounts, compares and deletes snapshots of the
file systems its configs name. This directory holds TLA+ modules of the daemon,
of the library under it, of the command line tool and of the cleanup run by cron,
the TLC configurations that check them on small instances, and theorems about
them checked by TLAPS. Paths below are relative
to the root of the repository.

## 1. The system

| Component | State | Operations | Where |
|---|---|---|---|
| Client sessions | one `Client` per bus name: task queue, worker thread, held locks, owned `Comparison` objects, record `mounts` of mounts made without user request, `zombie` | the D-Bus methods; `add_task`, `worker`, `~Client`, `remove_zombies` | server/Client.cc |
| Use counts and Snapper cache | one `MetaSnapper` per config: `RefCounter` (count, time of last use), the lazily loaded `Snapper` | `inc_use_count`, `dec_use_count`, `getSnapper`, `unload`, `createConfig`, `deleteConfig` | server/MetaSnapper.cc |
| Background comparisons | a queue of (config, snapshot, snapshot), one thread | `add_task`, `worker` | server/Background.cc |
| Main loop | watches, wakeup pipe, idle timeout, `last_action` | `run`, `method_call`, `client_disconnected`, `periodic`, `periodic_timeout` | dbus/DBusMainLoop.cc, server/snapperd.cc |
| Snapshot list | `Snapshots::entries` in memory; numbered directories with `info.xml` on disk | `read`, `create*`, `deleteSnapshot`, `nextNumber`, `findPost`, `flushInfo` | snapper/Snapshot.cc |
| Snapshot mounts | `mount_checked`, `mount_user_request`, `mount_use_count`; the kernel's mounts | `mountFilesystemSnapshot`, `umountFilesystemSnapshot`, `handleUmountFilesystemSnapshot` | snapper/Snapshot.cc, Lvm.cc, Ext4.cc |
| Config store | sysconfig file and one file per config | `createConfig`, `deleteConfig` | snapper/Snapper.cc |
| Comparison contents | the list of changed files; saved file lists | `create`, `load`, `save`, `filter`, `sort`; `cmpDirs` | snapper/Comparison.cc, Compare.cc, File.cc |
| Undo | the list, the steps, the running system | `getUndoSteps`, `doUndo` and what it calls | snapper/File.cc |
| Btrfs | subvolumes; a tree built from a send stream | `StreamProcessor`, `tree_node`, `cmpDirs` | snapper/Btrfs.cc |
| Client tool | none between calls | commands; number, timeline and empty-pre-post cleanup | client/ |
| D-Bus wrapper | one connection | marshalling, escaping of strings | dbus/DBusMessage.cc |

How they interact:

* The main loop turns each incoming call into a task of its client and starts
  the client's worker thread with the first one. Workers execute the methods.
* Handlers and the main loop's callbacks hold `big_mutex` exclusively. Two
  things do not: `create_comparison` releases it while it builds the
  comparison, and the background thread never takes it.
* Whoever keeps a `Snapper*` or a `Snapshots` iterator across such a window
  holds a *use* of the config: a finished comparison, the `RefHolder` of one
  under construction, a background task. `delete_snapshots`, `delete_config`
  and the unloading in `periodic` refuse a config with uses.
* `client_disconnected` makes a client a zombie and interrupts its worker;
  `periodic` joins the worker and destroys the client, which gives its uses and
  mounts back. With nobody left, the idle timeout is armed.
* Unloading or deleting a `Snapper` umounts what only the daemon had mounted.

Hard behaviours: calls of several clients around the two unlocked windows; the
background thread against everything else; disconnection at any point; numbers
that are given out again; a list in memory and one on disk that a failed
deletion lets drift apart; a system call failing, the process dying or exiting at
any point; counts kept in three places that must agree; wakeups that depend on
what was true when a timeout was computed; answers that are out of date when they
are used; a list of changes collected from commands about temporary names; an undo
on a system that goes on changing.

What makes each component correct:

* Sessions: a client's things last as long as it does and not longer; locks
  keep other clients from deleting; every zombie is reaped.
* Use counts: they are exact, so references never dangle and nothing stays
  undeletable.
* Background: what it queues stays valid until it has been worked off.
* Main loop: no message waits while the loop sleeps; the daemon exits only, and
  always, when nothing would be lost.
* Snapshot list: numbers are unique, pre and post snapshots pair up; a call
  changes one snapshot or none, whatever fails; memory and disk agree up to a
  failed step.
* Mounts: mounted while recorded or asked for, umounted afterwards.
* Config store: a config is there entirely or not at all as long as nothing fails;
  a deletion that is answered leaves nothing; the other configs stay listed.
* Comparison contents: the file list is the difference of the two trees,
  whichever way it was obtained: compared, collected from the send stream, or
  loaded and turned round. A saved list is about the snapshots of today.
* Undo: the whole list undone gives the first snapshot back; a step that is
  reported as done is done, and touches nothing that is not its own.
* Client tool: a command ends; what it does to a snapshot it was told of, it
  does to that one, as far as numbers can promise this.
* Cleanup: it deletes only what its limits and ages allow, pairs together, and
  what it means to delete the daemon lets it delete.

The full list of hazards, each at its line, is in `PROJECT.json`.

## 2. The modules

| Module | What it is |
|---|---|
| `Snapperd` | sessions, locks, use counts, Snapper cache, background thread, main loop and snapshot lists, at the granularity of `big_mutex` |
| `MCSnapperd` | values of its constants for TLC |
| `SnapperdProofs` | theorems about `Snapperd` |
| `SnapshotMounts` | the mount bookkeeping of one snapshot, statement by statement, with its callers and the kernel |
| `MCSnapshotMounts` | values of its constants for TLC |
| `MountProofs` | theorems about `SnapshotMounts` |
| `Cleanup` | the number, timeline and empty-pre-post algorithms, and their process among other clients |
| `MCCleanup` | values of its constants for TLC |
| `CleanupProofs` | theorems about `Cleanup` |
| `SnapshotSet` | what the store of a config promises: the abstract specification |
| `SnapshotStore` | the snapshots of a config on disk and in memory, system call by system call, with failures and crashes; shown to implement `SnapshotSet` |
| `ConfigStore` | extends it by the config itself: its name, its file, `.snapshots`, its entry in the daemon |
| `MCStore` | the module TLC runs |
| `StoreProofs` | theorems about both: invariants, refinement, saved file lists, leftovers, whole configs |
| `Compare` | file trees, the comparison of two, saved lists |
| `SendStream` | extends it by the comparison with btrfs: the kernel's commands and the `StreamProcessor` |
| `Undo` | extends it by the undo of a list on a changing system |
| `MCUndo` | pairs of small trees for TLC |
| `UndoProofs` | theorems about comparisons, saved lists, the order of the steps and any single step of an undo |
| `SendStreamProofs` | theorems about the list that comes from btrfs send, and about the undo of a whole list |
| `Bus` | the message bus, the main loop of the daemon and its clients' threads |
| `Tool` | extends it by the command line tool and what the daemon does for its calls |
| `MCTool` | commands for TLC |
| `ToolProofs` | theorems about the main loop and the numbers tools go by |
| `Counting` | lemmas about numbers, sums and cardinality that the proofs share |

### Snapperd

| Variable | Code |
|---|---|
| `client` | membership in `clients`, `Client::zombie`, whether the worker thread has ended |
| `queued` | length of `Client::tasks`; what the tasks are is chosen when they are taken out, which gives the same behaviours |
| `locks`, `comparisons`, `mounts` | the members of `Client` of these names |
| `gap` | workers between `lock.unlock()` and `lock.lock()` of `create_comparison` |
| `metas`, `counter`, `loaded`, `snaps` | `meta_snappers`, `RefCounter::counter`, `MetaSnapper::snapper`, its `Snapshots` without the current system (number 0) |
| `disk` | what `Snapshots::read` would find |
| `bg`, `bgpc` | `Backgrounds::tasks` and where its thread is |
| `idle` | `idle_timeout >= 0` |
| `daemon` | whether the process runs, has left `run()` or has died |

A handler is one action: it holds `big_mutex` from its first look at shared
state to its reply. A handler that throws before it has changed anything is a
`Reply` (or a `Read`, when it had already loaded the Snapper). Exceptions
*after* a change are there: a `DeleteSnapshots` that stops after any part of
its list, and tears the snapshot it stops at; a `CreatePostSnapshot` whose
`setUserdata` throws; a `DeleteConfig` that gives up.
`CreateComparison` is `BeginComparison`, then one of `FinishComparison`,
`ComparisonFails` and `ComparisonInterrupted`. The background thread has three
steps: `BackgroundTake`, `BackgroundCompared` (count down), `BackgroundPop`.
`Periodic` is the whole of `periodic`; when a destroyed client's mounts cannot
be resolved the destructor throws and the process dies (`PeriodicAborts`).

Some choices, each with its reason:

* `check_lock` ignores zombies and the caller itself, and `lock_config` never
  refuses: two clients can hold the lock. So does the model.
* Time is a choice. Any unused Snapper may be unloaded by a `Periodic`, except
  one that was used within the step itself or that the background thread has
  just counted down: 30 s do not pass there.
* A deletion visits the directory of *every* listed snapshot, so once list and
  disk have drifted apart it always throws, after `info.xml` of its own
  snapshot is gone. `DeleteSnapshots` says so.
* Comparisons have addresses because C++ objects do; `Addr` bounds how many
  there are. Which address the allocator picks makes no difference to the
  code, so the model takes the least free one.

### SnapshotMounts

One snapshot on a file system that has to be mounted (LVM, ext4). The three
members of `Snapshot` (`checked`, `user`, `count`), the clients' records, the
kernel's mount, and for every thread where it is in
`mountFilesystemSnapshot`/`umountFilesystemSnapshot`. The members have no
mutex. Handlers and `~Client` run under `big_mutex` (`big`), comparisons do
not, so every test, load and store is a step: `Test`, `Probe`, `Flag`,
`ReadCount`, `WriteCount`, `Decide`, `Look`, `KernelMount`, `KernelUmount`. The count wraps
at `Width` as the `unsigned int` of the code does at 2^32. `asked` is history:
the last user-request call that was made was a mount. `Unload` ends the
Snapper object, which may umount; `DeleteSnapshot` and `CreateSnapshot` end the
snapshot and reuse its number.

### Cleanup

One `snapper cleanup` process at a time, as the daily script starts them, and
after it the next one. `Start` is the `ListSnapshots` call and the computation
that follows it: `seen` is the list, `tmp` what `Plan` leaves in the list `tmp`
of the code. `Compare` is one turn of the loop of `do_cleanup_empty_pre_post`
(`CreateComparison`, then `GetFiles`), `Compared` its filters, `Delete` one
`DeleteSnapshots` call. `Exit` is the end of `main`: all done, or the first
error reply, which no caller catches. `Reaped` is `~Client` in the daemon; until
then the process's comparisons (`uses`) count. `MustRefuse` and `MayRefuse` say
when `delete_snapshots` throws: always for a config the process itself uses and
for a number that is gone; possibly, at any call, because of another client's
lock, comparison or mount ("hold" in `Others`; these come and go and are not
state). Another process starts only
after `Reaped`; in the code it may start a moment earlier, when the first is
still a zombie, whose comparisons refuse deletions as any other client's do.

The algorithms are the operators `Surplus`, `Outdated`, `Filter1`, `Filter2`.
`Scan` goes through the timeline's snapshots from the highest number to the
lowest as the loop does, a turn of which is `Advance`; where the loop erases an
entry from the list, `is_first` never looks at it again, because it starts at
the current one. The list is a set here: its order is that of the numbers. The calendar is the
constant `Unit`, the lengths of hour, day, month and year, each a multiple of
the one before.

The other clients create snapshots of the kinds in `Kind` and do what is in
`Others`. The daemon's side of their calls is reduced to what the process can
notice; `Snapperd` has it in full. `quiet` is history: nobody else has deleted
a snapshot since the process was sent its list.

### SnapshotStore, ConfigStore and SnapshotSet

| Variable | Code |
|---|---|
| `fs` | which of the back ends `Btrfs` and `Lvm` the config has |
| `disk` | `.snapshots`, its numbered directories, `info.xml` in them, volumes, mount points of LVM, temporary files, saved file lists |
| `loaded`, `entries` | the `Snapper` object and its `Snapshots::entries`, each with its `info_modified` |
| `op` | the call being served, the next system call of it, its result |
| `building` | comparisons between `unlock` and `lock` |
| `births` | how often a number has been given out: history, which tells the old from the new snapshot of a number |
| `names`, `conf`, `meta` | `SNAPPER_CONFIGS`, the config's file, the entry of `meta_snappers` |
| `wiping` | what `Snapper::deleteConfig` has left to delete |
| `root`, `astray` | whether the snapshots of `/` are there; which `Snapper` objects made for this config are of `/` |
| `torn` | history: the file with the names was left half written |

Each action is one system call of the code, or one call of the back end, with
its outcome: it works, or it fails (`Fails`, bounded by `MaxFaults`) and the code
after it takes its error path. `Crash` is the death of the process between any
two of them, or in the middle of writing a file, which then stays as a temporary
file. `Abort` and `DieErasing` are deaths by an exception that leaves a
destructor. Calls are served one at a time because they hold `big_mutex`;
`Compare` and `Save` happen beside them because comparisons do not. `RmDir`
fails, as `unlinkat` does, while the directory has something in it, and the code
does not look at the result.

The code has some peculiarities that the modules keep: a created snapshot's
`info.xml` is written twice, first with type and number alone, then with the rest
(`WriteInfo`, `Flush`), so a crash in between leaves a snapshot without
description; a rejected userdata leaves the other changes in memory, to be
written later (`Forgotten`, `Unwritten`, `Unload`); `SysconfigFile` writes in
place in its destructor and nobody looks at the result (`SaveNames`, `SetValues`);
a failed `createConfig` leaves the name in the list; `Lvm::createSnapshot` leaves a
volume behind when it cannot make the mount point; an `IOErrorException` of a directory that
cannot be opened is not caught by `createHelper` and leaves the new directory
(`CreateVolume`); `unlink` is not looked at either, so `DeleteInfo`, `DeleteOwnLists` and
`DeleteLists` may each leave what they should remove and go on.

A config file is first a copy of the template, which names `/` and btrfs, and is
rewritten by a destructor that does not notice a failure. A config whose file has stayed the
template (`conf`) is one of `/` for the daemon: `LoadRoot` and `UnloadRoot` make and drop such a
`Snapper`, and `DeleteConfig` with `WipeRoot` deletes the snapshots of `/`, then the config's file and
name, says "ok" and leaves the config's own `.snapshots`. What calls do to the snapshots
of `/` one by one is left out.

`SnapshotSet` has three variables: `durable`, the snapshots a new daemon would
list, `call` and `unwritten`. It says that a call changes at most one snapshot
at a time, and only its own, that a number is never taken from a snapshot that is
still there, that nothing but the text of a snapshot ever changes, and that an
"ok" comes after the effect. Crashes and failures do not weaken this. The
mapping `Promise` computes `durable` from the disk with `Readable`, that is by the
rule of `Snapshots::read`: a snapshot exists from the moment its `info.xml` has
been renamed into place until its volume is gone.

### Compare, SendStream and Undo

`Compare` holds the operators: `CmpFiles`, `CmpDirs` (the recursion of
`cmpDirsWorker` and `twosome` as a recursive function), the flags a saved list
keeps (`ReadBack`: one letter for four flags), `InvertStatus`, `Filtered`,
`InOrder`. A tree is a function from paths to files, a file a record of what
`cmpFiles` looks at.

`SendStream` is a state machine. `Command` is one command of the kernel: what it
does to the tree (`cur`) and what the handler of that command in `StreamProcessor`
makes of it (`files`, the `tree_node`s as a function from names to flags). The order
of commands is the kernel's: by inode number, with temporary names (`TempName`, which no
file of a snapshot has) for what is new, in the way or not yet empty. The kernel is outside of the repository;
`Make`, `Evict`, `Place`, `Link`, `Delete` and `Change` say what may come, as far as
the handlers rely on it. `Check`, `Result` and `BtrfsCmpDirs` are `StreamProcessor`'s end
and the fall-back to `CmpDirs` when a handler throws.

`Undo` takes a list, however it was obtained (`Compare`), picks any part of it
(`Choose`), orders it (`UndoSteps`) and does one `doUndo` after the other (`Undo`)
on `system`, in which others may make or remove a file between two (`Edit`).
The calls below are operators from a tree to a tree and a result: `Real` and
`Target` are the two ways the kernel resolves a path, without and with following
a link at the end; `Chmod` follows it, `Lchown` does not, and chown takes setuid
bits. A `fault` is the call that fails in a step.

### Bus and Tool

| Variable | Code |
|---|---|
| `online`, `waiting` | clients on the bus; those in `send_with_reply_and_block` |
| `matches` | `add_client_match` and `remove_client_match` |
| `socket`, `incoming`, `pipe` | messages sent to the daemon; those libdbus has read; bytes in the wakeup pipe |
| `clients` | `Clients`: each one's tasks and `zombie` |
| `idle`, `due` | `idle_timeout` is set; `last_action` is that long ago |
| `at`, `saw` | where `MainLoop::run` is; the `revents` of `poll` |
| `todo`, `plan`, `told` | the calls the tool will make, its command, the snapshots it has been told of |
| `config`, `snapshots`, `births`, `comparing`, `background` | the daemon's state as far as the tool's calls depend on it |

A turn of the loop is `Poll` (sleep, then `periodic`) and `Handle` (one byte, one read,
one message). Calls that wait for the bus (`add_client_match`,
`get_unix_userid`) let libdbus read further messages, in the loop and in the
clients' threads. `Exit` is the end of `run`; the bus then answers what it has
already passed on, and starts the daemon again for the next message (`Start`).

Commands are sequences of calls (`Script`), some of which depend on an answer
(`Follow`: the ranges of `delete`, the second half of a pair, the
algorithms of `cleanup`). What a tool goes by, `told`, is the last thing it was
told: `command_modify` gets each snapshot anew just before it sets it. What a call does is cut down to what other clients can
notice; `Snapperd` has locks and `big_mutex`, `SnapshotStore` failures.

## 3. What is checked

All runs end in at most about three minutes. Deadlock is checked in all but one:
the daemon never has to stop, and a stopped one can be started again. In `tool`
commands come to an end, and a daemon with no client left that was never told so
sleeps for good.

| Run | Instance | Properties |
|---|---|---|
| `snapperd_uses` | 2 clients, 1 config, 2 numbers, 2 comparisons, queues of 2, mounts; crash, I/O error | `TypeOK`, `UseCountExact`, `NoDanglingReference`, `IdleMeansFree` |
| `snapperd_locks` | 3 clients, one of them not root, 1 config, 3 numbers; `deleteConfig` fails, crash, I/O error | `LockRespected`, `PairingOK` |
| `snapperd_live` | 2 clients, 1 config, 1 comparison, mounts, no `DeleteConfig`; crash | `MountsResolve`, `ZombieReaped`, `UsesReturn`, `Quiesces` |
| `mounts_clients` | 2 clients, no comparisons, two mounts each | `CountExact`, `InUseStaysMounted`, `LeftoverUnmounted` |
| `mounts_unload` | 1 client with comparisons, failing mounts, interruptions, stray umounts, slow clients | `TypeOK`, `UserMountKept` |
| `cleanup_number` | 3 numbers, 2 moments; number and empty-pre-post; others create, delete, hold | `TypeOK`, `PairsWhole`, `NumberSpares`, `BlocksNotForever` |
| `cleanup_timeline` | 5 numbers, 9 moments, one kept per unit; others create | `TimelineKeeps`, `TimelineBounded`, `Idempotent` |
| `cleanup_empty` | 2 numbers, 2 moments | `EmptyPairsDeleted` is violated |
| `store` | 2 numbers, each given out twice, btrfs and lvm; one failing system call or one crash | `ConfigTypeOK`, `ListMatchesDisk`, `FileListsFresh`, `Tidy`, `ConfigWhole`, `WipedClean`, `OthersKept`, `ImplementsSet` |
| `undo` | 3 inodes, 2 names, paths of up to 3 names, an ignored path; one failing call or one edit | `StreamExact`, `UndoRestores`, `OkMeansRestored`, `StepKeepsOthers` |
| `undo_link` | 2 inodes in one directory, files and links | `UnchangedStays` is violated |
| `tool` | up to 3 clients, 16 combinations of commands, one client that may be killed | `QueueWakesLoop`, `MistakenOnlyAtEnd`, `LeavesNothing`, `GoneForgotten`, `CommandsEnd` |

What the properties say:

* `UseCountExact`: a config's use count is the number of comparisons, of
  RefHolders and of background tasks not yet counted down. So the assertion in
  `dec_use_count` never fails, and nothing leaks, on any way a comparison ends.
* `NoDanglingReference`: what these objects point to is loaded and listed.
* `IdleMeansFree`: when the idle timeout is armed, nothing is there to lose.
* `LockRespected`: doc/dbus-protocol.txt, "Locking disallows other clients to
  delete the config and delete snapshots for the config". Nothing disappears but
  by a call of a client such that no other connected client holds the lock.
* `PairingOK`: what `Snapshots::check` complains about does not come about.
  Numbers *are* given out again once the last snapshot is gone, and list and
  disk do drift apart; still no post snapshot is ever paired with a snapshot
  that is not its own.
* `MountsResolve`: `~Client` finds what it has to umount, so it does not throw.
* `ZombieReaped`, `UsesReturn`, `Quiesces`: who goes is reaped, uses come back,
  and without clients the daemon leaves.
* `CountExact`, `InUseStaysMounted`: while the Snapper stays loaded, records and
  counter agree; what a client has mounted stays so.
* `UserMountKept`: a mount made with user request survives everything the
  daemon does on its own, also after an unload has lost the flag.
* `LeftoverUnmounted`: doc/dbus-protocol.txt, "Snapshots mounted with
  user-request set to false will be unmounted (delayed) after the client
  disconnects."
* `PairsWhole`: a cleanup that was not refused in the middle deletes both halves
  of a pair or none, also when the limit, the age or the algorithm separates
  them. (One that is refused may leave a half: it deletes by single calls.)
* `NumberSpares`: at no time is one of the newest `NUMBER_LIMIT`, a young one or
  one of another algorithm gone.
* `TimelineKeeps`, `TimelineBounded`: doc/snapper.8.in, "Deletes old snapshots
  but keeps a number of hourly, daily, monthly and yearly snapshots". What the
  loop keeps, which tests one entry at a time while it erases, contains the first
  snapshots of the most recent units, computed from the whole set, and is no
  larger than the limits together.
* `Idempotent`: a second cleanup of the same list at the same time finds nothing
  to delete.
* `BlocksNotForever`: the comparisons left behind stop blocking deletions.
* `EmptyPairsDeleted`: doc/snapper.8.in, "Deletes pre/post snapshot pairs with
  empty diffs".
* `ImplementsSet`: whatever fails and whenever the daemon dies, what a restart finds
  has changed only as `SnapshotSet` allows.
* `ListMatchesDisk`: between calls, the list in memory is what a restart would
  read, up to texts yet to be written and entries that a failed deletion has
  left without a volume.
* `FileListsFresh`: `Comparison::load` takes any file of the right name; none is
  there that was saved for earlier snapshots of the two numbers.
* `Tidy`, `ConfigWhole`: without failures nothing is left behind, and a config has
  all of its parts or none.
* `WipedClean`: a `DeleteConfig` answered "ok" leaves no file and no snapshot, also
  after earlier failures. (It has to be said what may stay: logical volumes whose
  directory was gone, a name when the file could not be written, and the whole of `.snapshots`
  when the config file was still the template, which takes a failed write.)
* `OthersKept`: the other configs stay in the common file, unless the file
  itself was left half written, and the snapshots of `/` stay, unless something has failed.
* `StreamExact`: the list collected from the commands of the kernel is the one
  a comparison directory by directory gives, on the trees `Followable` describes.
* `UndoRestores`: undoing a whole list, computed, collected or loaded and turned round,
  leads back to the first snapshot with no step failing.
* `OkMeansRestored`: a step that is reported as done has restored its file, also
  after other steps have failed, others have edited, or only a part was chosen. (Special files
  that were to be removed, and a device that a file was written to, stay.)
* `StepKeepsOthers`: a step touches nothing but its file and directories above it.
  Both are about paths that are `Unbent`: a link to the directory it is in leads from a
  path to the link itself, and a step may remove the link by which its own file was reached.
* `UnchangedStays`: doc/snapper.8.in, "Undo changes done between snapshot number1
  and number2": what is the same in both stays.
* `QueueWakesLoop`: the loop reads one byte per turn and dispatches one message, and
  never sleeps with a message in its queue.
* `LeavesNothing`: the daemon exits without clients, background comparisons and
  unanswered messages.
* `GoneForgotten`: a client whose going was told is removed, with its comparisons.
* `CommandsEnd`: every command ends, whatever other clients do and although the
  daemon exits and is started in between.
* `MistakenOnlyAtEnd`: a number given out again may hit a tool that was told of the old
  snapshot; then all that this tool knows above that number is gone, too, and no
  older snapshot is above it.

### Where code and documentation disagree

`LeftoverUnmounted` holds when clients are quick and there are no comparisons.
Otherwise there are three ways to leave a snapshot mounted for ever (with one
client, and `Quick = FALSE`, or comparisons, or comparisons and interruptions,
`SnapshotMounts` shows each):

1. A recorded mount is no *use*. After 30 s without a call `periodic` unloads
   the Snapper and the count with it; the next one takes the mount for a
   user-requested one, and the umount of `~Client` wraps its count.
2. The background comparison changes `mount_use_count` without `big_mutex`
   while `~Client` changes it with: an update is lost.
3. `Comparison::create` has no guard around `mount()` and `umount()`: when the
   client disconnects during `cmpDirs`, the interruption skips `umount()`.

`UserMountKept` is checked for one client, whose calls and comparisons do not
overlap. With two, of which one compares, a comparison that has seen
`mount_checked` unset may overwrite the `mount_user_request` that the other one's
`MountSnapshot` has just set, and the daemon umounts what the user had mounted.

`UnchangedStays` fails (`undo_link`): `modifyAllTypes` calls `chmod`, which follows
links, after the link has been put back, so the file it leads to gets the mode of
a link, 0777, although it was the same in both snapshots.

`EmptyPairsDeleted` fails in the simplest case (`cleanup_empty`): the algorithm
creates a comparison of each pair and deletes none. A comparison is a use of the
config, and `delete_snapshots` refuses a config in use, so the first pair found
empty ends the process with "Config is in use". No pair is ever deleted.

More things the models show, or that were met while they were written. No document
denies most of them; they are recorded here, as findings or as hazards:

* `delete_config` does not look at mounts. After it, `~Client` of a client that
  had mounted a snapshot of the config throws, and the daemon aborts.
  `MountsResolve` is therefore checked without `DeleteConfig`; the abort is part
  of `snapperd_uses`.
* The background thread counts a task down before it takes it from the queue.
  If the config is deleted and the last client reaped in between, `periodic`
  has seen the queue not empty, `periodic_timeout` then sees nothing to wake up
  for, and the daemon does not leave until the next call. `Quiesces` is therefore
  checked without `DeleteConfig`; adding it to the methods of
  `SnapperdLive.cfg` shows the behaviour.
* The cleanup works on the list it was sent. When another client deletes the last
  snapshots and creates new ones before it is done, a number names a new
  snapshot, which it deletes whatever its age and algorithm. The properties of
  the algorithms therefore have the condition `quiet`; without it `NumberSpares`
  is violated.
* An `IOErrorException` in a background comparison leaves the thread function
  and ends the process (`Crash`).
* Store: after a `SetSnapshot` with rejected userdata, `delete_config` destroys a
  `Snapper` that still has a text to write, and the exception out of its destructor ends the
  daemon (`DieErasing`). A config whose creation fails stays listed. A config whose values
  could not be saved is made all the same with the file of the template, so that its
  `delete_config` deletes the snapshots of `/`. A
  snapshot that cannot be read while the list is loaded ("skip" in `Fault`) is not
  listed for as long as the Snapper lives. A deletion meanwhile does not visit its
  directory, and a list saved there about the deleted snapshot may be loaded later:
  `FileListsFresh` and `ListMatchesDisk` exclude it.
* Send stream: `tree_node::erase` drops a directory, and that it was deleted, when
  the last file below it is erased; a renamed intermediate node, or a
  directory moved onto a name that was another one's, loses entries. `Followable`
  leaves these trees out. The handlers of `mkfifo`, `mknod` and `mksock` do nothing, so that
  the `rename` from the temporary name of a new fifo, device or socket finds no node: it is
  reported as created, and its temporary name as deleted. `Followable` leaves these out too,
  and what cannot come from btrfs: an inode that is another type of file in the second
  snapshot, and file systems mounted into a snapshot.
* Undo: a restored program has lost setuid and setgid (`Alike` allows it); a fifo,
  socket or device is neither restored nor removed; to write a file over it blocks for a fifo,
  fails for a socket, and for a device goes to the device, which is given the file's
  owner and permissions, and is reported as done;
  links above a file are followed; content that changed within one modification
  time is not seen.
* Main loop and tool: a client that goes before its match is installed stays for
  ever; a client that waits when the daemon exits gets `NoReply`; `time_left` may
  become negative, which makes `poll` wait for good; `modify` gets and sets in two calls, so
  it may undo another one's change; `MyComparison` keeps its comparison, and the
  config in use, until the tool is gone; the loop over a range of `delete` does not
  end at 4294967295.

### Bounds

* Two clients are enough for every interference between a client and another
  one; locks need three (two holders and a third that deletes). One config
  suffices: configs share nothing but the background queue and the idle flag, and
  the theorems hold for any set of them.
* Two numbers make a pair for a comparison; three (`snapperd_locks`) let a pair
  and another snapshot exist, be deleted in any order, and their numbers be given
  out again.
* Queues of two tasks put one task in the hands of the background thread and one
  behind it, and let a zombie leave tasks behind; two comparisons of one config
  make "still in use" differ from "used once".
* In the mounts runs, two clients with up to two mounts each; `Width` is 8 (or
  4), larger than what correct counting reaches, so wrapping is visible and
  never hides an error.
* In the cleanup runs, a pre snapshot whose post snapshot does not come stands for
  a single one. Three numbers let a pair have its halves on both sides of
  a limit of one, or of `MIN_AGE`, with another snapshot between or after them.
  The timeline needs more: five numbers and nine moments with an hour of two
  moments, a day of four, a month of eight and a year of sixteen make snapshots
  in the same hour, in other hours, days and months. A year never ends within
  the bound; that loop differs from the others in nothing but the unit.
  `MIN_AGE` is 1, so a snapshot may be too young when it is seen and old
  enough one moment later.
* In `store`, two numbers are the fewest for a pair, a comparison and the number after
  the last one; `MaxBirths` 2 lets each be given out again. One fault per behaviour
  reaches every error path and every point of a crash; the theorems hold for any
  number of faults.
* In `undo`, three inodes with two names in paths of up to three names let a
  directory in a directory be renamed, replaced, swapped and removed with its
  contents, with temporary names in between. Sending and comparing have pairs of
  their own: all pairs of ordered trees of directories and files for the former, which are
  the kernel's concern, and pairs of smaller trees with links, fifos, sockets, devices,
  mount points and setuid programs for the latter. Trouble (one edit or
  one failing call) is only for lists that were compared: the steps do not
  depend on where the list is from.
* In `tool`, three clients let one rely on what two others change: one deletes the last
  snapshot, another gets its number. `MaxPipe` is 1: a byte more than there are
  messages makes the loop turn once with nothing to do, and more do the same.
* `snapperd_uses` takes clients as a symmetry set: all of them have the same
  rights there and it checks invariants only. No other run uses symmetry.

### Fairness

`FairSpec` of `Snapperd` asks for weak fairness of each worker thread, of the
background thread, of `Exit`, and of `Periodic` *while `PeriodicTimeout` holds*:
`periodic_timeout` makes `poll()` return within a second while there are
zombies, or, with no client left, while there are background tasks or an unused
loaded Snapper. While a client is active its worker may change this after the
timeout was computed and the main loop may sleep until the next message, so
nothing is assumed then. Clients, disconnections, crashes and the restart by
D-Bus are not fair. `FairSpec` of `SnapshotMounts` asks for weak fairness of the
threads, of the reaping of zombies and of unloading; `LeftoverUnmounted` only
speaks of states with no client left, in which `periodic_timeout` keeps waking
the main loop until the Snapper is unloaded.

`FairSpec` of `Cleanup`: a process that has started runs to its end, since each
call is answered, and the daemon then removes the client, which is
`ZombieReaped` of `Snapperd`. When a process starts, what others do and time
passing are not fair.

`Spec` of `Tool`: a tool makes its next call or ends (it is one process, and
computes nothing without end between calls), each client's thread serves its queue (a
thread each), the main loop takes its turns, being fair as a whole and not each
of its actions, and a background comparison ends. Being killed and the passing of the idle time
are not fair. `SnapshotStore` and `Undo` state no liveness: a system
call that never returns is no concern of theirs.

## 4. What is proved

The theorems hold for all values of the constants that satisfy the modules' named
assumptions, of the same definitions that TLC checks. The inductive invariants are
defined in the modules of the proofs; they were tried out with TLC before they were proved
(`Inv` of `UndoProofs` and `Collecting` of `SendStreamProofs` on some of the run's pairs of trees). Some theorems have a
hypothesis of their own; each is a condition on the constants that a run's cfg
satisfies, and each is needed: without it the code violates the property.

| Module | Theorem | Property |
|---|---|---|
| `SnapperdProofs` | `Invariance` | the invariant `IInv` |
| | `TypeCorrect` | `TypeOK` |
| | `UseCountsExact` | `UseCountExact` |
| | `ReferencesAlive` | `NoDanglingReference` |
| | `IdleFree` | `IdleMeansFree` |
| | `LocksRespected` | `LockRespected`, an action property |
| | `PairsInOrder` | `PairingOK` |
| | `MountsAlwaysResolve` | `MountsResolve`, if `Orderly` |
| `MountProofs` | `MountTypes` | `TypeOK` |
| | `UserMountsKept` | `UserMountKept`, if `OneAtATime` |
| | `CountsAgree` | `CountExact`, if `Careful` |
| | `UsedStaysMounted` | `InUseStaysMounted`, if `Careful` and the counter is wide enough |
| `CleanupProofs` | `CleanupTypes` | `TypeOK` |
| | `NumberSparesThem` | `NumberSpares` |
| | `TimelineKeepsThem` | `TimelineKeeps` |
| | `PairsStayWhole` | `PairsWhole`, if `Aged` |
| | `TimelineIsBounded` | `TimelineBounded`, if `Aged` |
| | `RunsAreIdempotent` | `Idempotent`, if `Aged` |
| `StoreProofs` | `StoreInvariance` | the invariant `StoreInv` |
| | `StoreTypes` | `ConfigTypeOK` |
| | `MemoryMatchesDisk` | `ListMatchesDisk` |
| | `OthersAreKept` | `OthersKept` |
| | `StoreImplementsSet` | `ImplementsSet`, the refinement |
| | `FileListsStayFresh` | `FileListsFresh` |
| | `CallsLeaveNothing` | `Tidy` |
| | `ConfigStaysWhole` | `ConfigWhole` |
| | `DeleteConfigWipes` | `WipedClean` |
| `ToolProofs` | `LoopInvariance` | the invariant `LoopInv` |
| | `NoMessageForgotten` | `QueueWakesLoop` |
| | `ExitLosesNothing` | `LeavesNothing`, an action property |
| | `MistakesOnlyAtEnd` | `MistakenOnlyAtEnd` |
| `UndoProofs` | `ComparisonIsExact` | what `CmpDirs` lists |
| | `SavedListsReturn` | `Load` of `Save`, for either order |
| | `UndoStepsComeInTurn` | `UndoSteps` |
| | `UndoneIsRestored` | `OkMeansRestored` |
| | `OthersStayInStep` | `StepKeepsOthers` |
| `SendStreamProofs` | `StreamIsExact` | `StreamExact` |
| | `WholeUndoLeadsBack` | `UndoRestores` |

### Snapperd

None of `TypeOK`, `UseCountExact`, `NoDanglingReference` is
inductive alone, because each depends on the others: that a count does not go
below 0 (`TypeOK`) needs an exact count, that nothing dangles needs that a count
of 0 means nobody refers, and that a count stays exact when a comparison is
deleted needs that its config is still there. `IInv` adds what is missing:
`Typing` (types with the count merely an integer, plus finiteness, plus that the
background thread in the middle of a task has one), `Sessions` (an absent client
has left nothing behind; a client that owns a construction has a running worker;
one construction per worker), `IdleAlone` (armed means alone) and
`loaded \subseteq metas`. Lemmas state what each group of actions does to each
part; the counting lemmas (`ComparisonAdded`, `HolderRemoved`, `TaskCounted`,
...) rest on the library's theorems on cardinality.

`PairsInOrder` needs an invariant of its own, `ListInv`: an unloaded config has
no list, what is on disk is in the list a handler would see, and that list is in
order. Its point is that the list may be larger than the disk and never the
other way round, so `nextNumber`, which looks at both, never gives out a number
below a listed one.

`LocksRespected` has no invariant: it follows from each action's own guard and
from which actions touch configs and disk at all.

`MountsAlwaysResolve` assumes `Orderly`: no `DeleteConfig` (which does not look at
mounts) and no "io" fault. A deletion that fails half way leaves a snapshot in the list
that is gone from disk; it can still be mounted, and once the Snapper is unloaded
and loaded again `~Client` does not find it. Without such failures the list a
handler sees is what is on disk (`ListIsDisk`), and `check_snapshot_in_use` protects
what is mounted in between.

### SnapshotMounts

`Threads` says for each thread where it can be and what it holds; the types
follow. `UserMountKept` rests on `UserFlag`: while the Snapper is loaded and
its flags were looked up, `user` is true when the user has asked, and if they were
not looked up, the kernel's mount will tell. This needs that only one thread is in the
functions of `Snapshot` at a time, `OneAtATime`: no background comparison, and a client's own
comparisons only when there is one client. With two, the flag that one has read is
stored over the one another has set (see the disagreements).

`CountsAgree` proves `Counted`: the count is, modulo `Width`, the sum of the records plus
the mounts in progress. `Careful` excludes comparisons (which change the count
without `big_mutex`), failing mounts, stray umounts, and clients that keep a mount for
30 s without a call, until the Snapper is unloaded under it (`Quick` rules that out);
each of them breaks the equation in the code. `UsedStaysMounted` needs in addition that the
clients together cannot reach `Width` mounts: with 2^32 mounts the count would be 0
again. The sums over sets are dealt with by the lemmas of `Counting`, see below.

### Cleanup

The lemmas about the operators are the larger part: what `Surplus` leaves, that `Filter1`
and `Filter2` only remove, that `Filter2` is closed under partners (`PairsWhole`), what the
walk of `do_cleanup_timeline` keeps. For that, an invariant of the walk at the entries
above a number: the counters are the numbers of entries kept for each unit (so they
bound what is kept, `TimelineBounded`), and an entry that is the first of its unit and
among the newest such is kept for this unit or a smaller one, for otherwise the
counter would be full of firsts that are newer (`TimelineKeeps`). For `Idempotent`
the walk over the rest of a first run is compared with the first walk: both keep
the same entries, since what was deleted was the first of nothing or over the limit.

The invariant of the process is `CleanupInv` (types; the dates of the list grow with the numbers;
what is gone is part of the plan, as long as nobody else deletes) and `Whole` (what is
done and what is yet to be done together are the plan). `Whole` needs `Aged`, that the
minimum age is above 0 as it is in every run (1800 s by default in the code): all that
is deleted is then older than the call, so that nothing created later under the same number
is equal to it; the model has no other way to tell the two apart.

### The store

The refinement is not provable from types alone: that a creation makes a *new* snapshot
appear needs that no volume without `info.xml` is in the list and none with one
outside of it, and that a "set" changes nothing but a text needs that list and disk agree
on the rest. `StoreInv` therefore has, beside the types, `Agree` (how far the list in
memory and the disk may differ at any moment, also in the middle of a call),
`NumbersUsed` (directories and entries have numbers that were given out),
`CallTyping` and `CallProgress` (where a call is and what it has done by then).
There is one lemma for the invariant and one for
the mapping per group of actions; the latter say which action of `SnapshotSet` each
step is: renaming `info.xml` into place is `Appear`, removing the volume
`Vanish`, the last step `Succeed` or, of a config, `Forget`, an error path `Fail`, `Unload` is
`WriteLate`, every death `Restart`, all else a stutter.

`FilesInv` comes on top of `StoreInv`, in four parts. `Building`: a comparison under
way knows the births of two snapshots that are there, since the use count keeps deletions
out. `ListsInv`: a saved list is about the present
snapshots of its numbers or about one that is being deleted, whose lists go before its
number can be given out again; a snapshot that could not be read when the list was
loaded (the fault "skip") is not visited by deletions, and its saved lists outlive what they
are about, which is why `FileListsFresh` leaves it out. `FaultFree`: while `faults = 0`, exactly what
the call in progress has yet to clean up is left over (`Expected`), and the parts of
a config are made and removed in stages (`Staged`). `Wiped`: how far a `DeleteConfig`
has come, whatever has failed, if it is not of `/`.

### The main loop and the tools

`LoopInv` has two parts. `Queues`: the pipe holds at least as many bytes as messages have been
read, and one when `poll` has seen it readable, also while threads read on behalf
of the loop. `AloneWhenIdle`: while the idle timeout is set nobody is
registered and nothing is compared.

`MistakenOnlyAtEnd` rests on `NumberInv`: births grow with the numbers
(`nextNumber` is above all others), a tool has only been told of what was born before,
and (`Fresh`) whatever has a number a tool knows is either what the tool was told or
born after everything it was told of.

### Comparisons and undo

Three theorems are about operators, for trees and lists of any size.
`ComparisonIsExact`: `CmpDirs` is the set of the files whose `Status` in the two trees is
not empty, less those that a mounted file system on the way hides. The recursion from
directory to directory is shown to be the function that finds, below a directory, just
the files of that set: it satisfies the equation (`FoundWorks`), and
a function that satisfies it and differs from it for some directory would do so for one with
the least number of files below it (`OnlyFoundWorks`). `SavedListsReturn` follows, as every
status that occurs has at most one of the four letters of which one is written.
`UndoStepsComeInTurn` rests on `BeforeOrders` (the order of names is total and strict) and
`InOrderEnumerates`, since the rank of a name is the number of names before it.

`WholeUndoLeadsBack` needs to know where an undo is half way. `Partway` says it of the
system: the files done are `Alike` the first snapshot's, or gone with it, all others
are still the second's. It is only true of the whole list with nothing ignored and
nobody disturbing (`Undisturbed`), which the invariant therefore has as a condition;
and it is not inductive without the order: `InProgress` adds that what is done may come
before each of the steps left, and each of these before those after it. From that,
when it is the turn of a file, all directories above it are there and are directories
(`TurnOfCreated`, `TurnOfOthers`), so that no link is on the way and each call acts on its own
name (`OnTheSpot`), and nothing is left below what is to be removed. The lemmas from
`OnTheSpot` to `DeletedAndMade` follow `doUndo` through every call it makes for each
status a file can have (`StepLeadsOn`). `UndoConstants` says what a snapshot
is: what is in it is in a directory, and a link has no permissions of its own.
For lists collected from btrfs send it uses `StreamIsExact`.

`UndoneIsRestored` and `OthersStayInStep` are about one step on a system of which next to
nothing is known: links lead anywhere, others have made and removed files, steps before have
failed. Their invariant `Underway` says only that the system is a tree (`SystemOK`), and that the list says
of a file what a list can say (`Says`: it names a file once, with flags that go together).
The core are lemmas of the form `KeptBut(t, s, p, X)`, one per call of
`doUndo` and per way it may fail: from `t` to `s` the way to `p` (the links followed on it)
has stayed, and no file but those of `X` and directories made above them has changed. They
are put together by `StepKeeps`. That the system stays a tree, although `mkdir -p` follows links and
files are written over links, is shown by the lemmas named `System...`. Lists from btrfs
send are covered, too, exact or not: `Following` says that what the kernel makes of the first snapshot is
always a forest (`ForestMoved`: what goes into a directory does not contain it)
and that the names in `files` are paths and finitely many, through every
handler (`RenameNodeNames`, `MergeNames`, `RenameUntouchedNames`).

### The send stream

`StreamIsExact` is proved for any number of files in trees of any depth, and for whatever
commands the kernel chooses. Its invariant (`Collecting`) has one part about the kernel and one about the
`StreamProcessor`; both are claimed of `Followable` snapshots only, of which `Known` is
what the proof uses.

* `Sending(cur)`: each file is as it was, renamed away, or where it will be
  (`Unmoved`, `Away`, `There`), with the node of before or of after (`NodeSent`). The kernel goes from number to
  number: a file is as the first snapshot had it (`Fresh`, but perhaps renamed away), or all below its number are
  done with (`OverBelow`). A file that was renamed away does not go back to where it was, and
  the directory it was in is done with; without this an old name could be taken again.
* `Followed(cur, files)`: `Tracks(f, old, now, hot)` says what the flags mean. Of the names before the
  first command and the names now, those that are gone have just DELETED, those that are new have CREATED
  and not DELETED, those in both have neither, and no others are known; a name that now belongs
  to another file or whose file has changed (`Hot`) has a flag. `Quiet` says of which files no
  command has spoken yet: neither a file that is to move and has not, nor anything below it, is in the tree
  of names. From it and the order of the numbers follows that a name which is known
  and left is a new one (`LeavesNewName`), so that `process_rename` need not keep two meanings of a name apart.

`Tracks` is a statement about sets of names and flags alone, and each operation on the tree of
names has its lemma: `TracksCreated`, `TracksDeletes`, `TracksChanged`, `TracksRenamed`, the
last from `TracksRenamedNode` (a known name, `tree_node::rename` and the `erase` in it) and `TracksUntouched`
(an unknown one, with all that was below it in the first tree, name by name). `NamesMoved` says which names
the files have when one of them is renamed, and `RenameFollows`,
`LinkFollows`, `DeleteFollows`, `ChangeFollows` and `MakeFollows` put the two together. In the streams of
`Followable` snapshots no handler throws (`NotThrown`), `merge` has never anything to merge
(a name with files below it does not become one that is known), and after the last command
`check` gives each name the status that `cmpFiles` would (`CheckIsStatus`). What `Followable` leaves
out and btrfs can send is left out for a reason: see the list of what the code does in section 3.

### Induction

The library states induction with an operator as a parameter, which the provers
cannot instantiate. `Counting` does without: `LeastNumber` (a set of numbers that is not
empty has a least one) and `Downward` are about sets, so that a statement about all
numbers is proved by looking at the least number at which it is false. The same
module has what is needed of sums over finite sets, of `Max` and `Min`, of division
and of the cardinality of initial parts of a list. This is enough for `Scan`, a
recursive function over numbers: that there is a function that satisfies its equation,
and what that function computes, are shown from the last number down to 0. The same way
leads through the recursions over trees and paths of `Compare` and `Undo`: a function is
given outright, shown to satisfy the equation, and shown to be the only one by the
directory with the fewest files below it or the shortest prefix of a path at which
another would differ.

### Only checked by TLC

* Liveness (`ZombieReaped`, `UsesReturn`, `Quiesces`, `LeftoverUnmounted`,
  `BlocksNotForever`, `GoneForgotten`, `CommandsEnd`): TLAPS has no rules for fairness.
* The two properties that are expected to be violated.

## 5. What is not modelled

* The signals the daemon sends, introspection, what `Debug` answers. (`Debug` walks
  the background queue and can meet a task whose config is gone; see the hazards.)
* The formats: D-Bus signatures and the escaping of strings, `info.xml`, lines and
  quotes of sysconfig files, the lines of a saved list (where a newline in a name
  breaks the file). These conversions have no state, and a text is one of a few
  values in the models.
* Ext4: `openInfosDir` and `openSnapshotDir` have no body there, so what the calls do
  is not defined by the code.
* In `SnapshotStore`: failing `chmod`; what is in a saved list (`fprintf` and `fclose` are not
  looked at, so a list may be cut off, and `Comparison::load` takes it all the same);
  several configs but for their names. In `Compare`: the filter that leaves `.snapshots` out of
  a comparison of the root directory, and files that cannot be opened or read (an
  `IOErrorException` ends the comparison, a file that cannot be read counts as different). In `SendStream`: hard links, nested subvolumes, several names of one
  inode. In `Undo`: failing calls inside the copying of a file other than the write; links
  to the root, and links to links (a link is followed once).
* In `Bus`: seconds, a full pipe (65536 bytes), a bus that dies.
* Mount failures in `Snapperd`: module `SnapshotMounts` has them. There, a failed
  mount in the background thread ends the process and with it the model.
* In `Cleanup`: permissions, configs that are deleted meanwhile, daylight saving,
  a clock that goes back. The local calendar is reduced to nested units.
* Detection of file systems, lists of permitted users, argument parsing, tables,
  logging, locale, language bindings, SWIG, scripts, packaging, examples.

## 6. What could follow

1. `SendStream`: a weaker condition than `Followable`, under which directories may move and
   leave their names to others as long as `merge` and `erase` lose nothing.
2. `LockedStore`: what the protocol promises a client (locks, uses, deletions) as an
   abstract specification that `Snapperd` implements, by `IInv`.
3. The encodings on the bus and in config files, with their inverses.
