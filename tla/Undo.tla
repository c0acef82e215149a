-------------------------------- MODULE Undo --------------------------------
(***************************************************************************)
(* Undoing the changes between two snapshots (src/snapper/File.cc, the     *)
(* undochange command of src/client/snapper.cc): the list of changed files *)
(* comes from the comparison of the trees, from a list saved when they     *)
(* were compared in the other order, or from the btrfs send stream; some   *)
(* of the files are chosen; and each is put back in the system, step by    *)
(* step, while somebody may go on working there and calls may fail.        *)
(***************************************************************************)
EXTENDS SendStream

CONSTANTS
  Pairs,      \* the pairs of snapshots, and how they are compared
  Edits,      \* what files somebody makes meanwhile
  Fault,      \* the calls that may fail
  MaxTrouble  \* bound on the edits and the failures together

(* What is in a snapshot is in a directory.  The content of a directory is *)
(* what is in it; a link leads to a file below the root and has always the *)
(* same permission bits.                                                   *)
Node ==
  {n \in [type : {"dir", "reg", "lnk", "fifo", "socket", "device"}, data : Seq(Nat), mtime : Nat, perm : Nat, owner : Nat,
          dev : {"own", "mounted"}] :
     (n.type = "dir" => n.data = <<>>) /\ (n.type = "lnk" => n.data # <<>> /\ n.perm = 0)}
IsSnapshot(t) == IsTree(t) /\ DOMAIN t \subseteq Path /\ \A p \in DOMAIN t : t[p] \in Node

ASSUME UndoConstants ==
  /\ \A pair \in Pairs : \A t \in {pair.pre, pair.post} : IsForest(t) /\ IsSnapshot(TreeOf(t))
  /\ Edits \subseteq Node /\ MaxTrouble \in Nat

VARIABLES
  method,  \* "generic" or "btrfs"
  list,    \* Files: the changed files, once known
  steps,   \* UndoSteps still to be done
  system,  \* the tree of the system (LOC_SYSTEM); at first as in the second snapshot
  answers, \* what doUndo has returned, by file
  edits, faults  \* the numbers of both so far

undoVars == <<method, list, steps, system, answers, edits, faults>>
vars == <<streamVars, undoVars>>

Unknown == {[name |-> <<>>, status |-> {}]}

-----------------------------------------------------------------------------
(* Paths in the system: the kernel follows the links that lead to a file,  *)
(* and for some calls the link that is the file itself.                    *)

Follow(t, p) == IF p \in DOMAIN t /\ t[p].type = "lnk" THEN t[p].data ELSE p
Real(t, p) ==
  LET real[i \in 1..Len(p)] ==
        IF i = 1 THEN <<p[1]>> ELSE Append(Follow(t, real[i - 1]), p[i])
  IN  real[Len(p)]
Target(t, p) == Follow(t, Real(t, p))
NoDirAbove(t, p) ==
  \E i \in 1..Len(p)-1 : LET d == Target(t, SubSeq(p, 1, i)) IN d \in DOMAIN t /\ ~IsDir(t, d)

Answer(end, t) == [end |-> end, tree |-> t]
Ok(t) == Answer("ok", t)
Failed(t) == Answer("failed", t)
Then(r, Op(_)) == IF r.end = "ok" THEN Op(r.tree) ELSE r

(* chown of a file that is no directory takes its setuid and setgid bits.  *)
Setuid == 7
Chowned(node, owner) ==
  [node EXCEPT !.owner = owner, !.perm = IF node.type # "dir" /\ @ = Setuid THEN 1 ELSE @]
MadeBy(node, perm, owner) == Chowned([node EXCEPT !.perm = perm], owner)

Chmod(t, p, perm, fault) ==
  LET q == Target(t, p)
  IN  IF q \notin DOMAIN t \/ fault = "chmod" THEN Failed(t) ELSE Ok([t EXCEPT ![q].perm = perm])
Lchown(t, p, owner, fault) ==
  LET q == Real(t, p)
  IN  IF q \notin DOMAIN t \/ fault = "chown" THEN Failed(t) ELSE Ok([t EXCEPT ![q] = Chowned(@, owner)])

-----------------------------------------------------------------------------
(* File::createParentDirectories, createDirectory, createFile, createLink  *)

NewDir == [type |-> "dir", data |-> <<>>, mtime |-> 0, perm |-> 1, owner |-> 1, dev |-> "own"]

CreateParentDirectories(t, path, fault) ==
  LET make[i \in 0..Len(path)-1] ==
        LET q == SubSeq(path, 1, i)
        IN  IF i = 0 THEN Ok(t)
            ELSE IF Target(t, q) \in DOMAIN t
                 THEN IF IsDir(t, Target(t, q)) THEN Ok(t) ELSE Failed(t)
            ELSE Then(make[i - 1], LAMBDA s :
                   IF fault = "mkdir" \/ Real(s, q) \in DOMAIN s THEN Failed(s)
                   ELSE Ok(PutFlags(s, Real(s, q), NewDir)))
  IN  make[Len(path) - 1]

CreateDirectory(t, p, node, fault) ==
  LET q == Real(t, p)
      made == IF fault = "mkdir" THEN t ELSE PutFlags(t, q, [node EXCEPT !.perm = 0, !.owner = 1])
  IN  IF q \in DOMAIN t /\ ~IsDir(t, Target(t, p)) THEN Failed(t)
      ELSE Then(Chmod(IF q \in DOMAIN t THEN t ELSE made, p, node.perm, fault), LAMBDA s :
             Lchown(s, Target(s, p), node.owner, fault))

(* open follows a link.  It blocks on a fifo and fails on a socket; what   *)
(* is written to a device is in no tree, and may not be taken ("write").   *)
CreateFile(t, p, node, fault) ==
  LET q == Target(t, p)
      is(type) == q \in DOMAIN t /\ t[q].type = type
      empty == [node EXCEPT !.data = <<>>]
      opened(n) == MadeBy(IF is("device") THEN t[q] ELSE n, node.perm, node.owner)
  IN  IF fault = "open" \/ ~IsDir(t, Front(q)) \/ IsDir(t, q) \/ is("socket") THEN Failed(t)
      ELSE IF is("fifo") THEN Answer("blocked", t)
      ELSE IF fault = "write" THEN Failed(PutFlags(t, q, opened(empty)))
      ELSE Ok(PutFlags(t, q, opened(node)))

CreateLink(t, p, node, fault) ==
  LET q == Real(t, p)
  IN  IF fault = "symlink" \/ q \in DOMAIN t \/ ~IsDir(t, Front(q)) THEN Failed(t)
      ELSE Lchown(PutFlags(t, q, [node EXCEPT !.owner = 1]), q, node.owner, fault)

CreateByType(t, p, fault) ==
  CASE Tree1[p].type = "dir" -> CreateDirectory(t, p, Tree1[p], fault)
    [] Tree1[p].type = "reg" -> CreateFile(t, p, Tree1[p], fault)
    [] Tree1[p].type = "lnk" -> CreateLink(t, p, Tree1[p], fault)
    [] OTHER -> Ok(t)
CreateAllTypes(t, p, fault) ==
  IF p \notin DOMAIN Tree1 THEN Failed(t)
  ELSE Then(CreateParentDirectories(t, p, fault), LAMBDA s : CreateByType(s, p, fault))

-----------------------------------------------------------------------------
(* File::deleteAllTypes, modifyAllTypes, doUndo                            *)

DeleteRecursively(t, p, fault) ==
  LET q == Real(t, p)
  IN  IF q \notin DOMAIN t THEN Ok(t) ELSE Ok(Restrict(t, DOMAIN t \ ({q} \cup Below(t, q))))
DeleteUnchecked(t, p, fault) ==
  LET q == Real(t, p)
  IN  IF q \notin DOMAIN t \/ Below(t, q) # {} THEN Ok(t) ELSE Ok(Restrict(t, DOMAIN t \ {q}))
DeleteAllTypes(t, p, fault) ==
  LET q == Real(t, p)
  IN  IF q \notin DOMAIN t THEN IF NoDirAbove(t, p) THEN Failed(t) ELSE Ok(t)
      ELSE IF Special(t[q]) THEN Ok(t)
      ELSE IF fault = "unlink" \/ (IsDir(t, q) /\ (Below(t, q) # {} \/ t[q].dev # "own")) THEN Failed(t)
      ELSE Ok(Restrict(t, DOMAIN t \ {q}))

ModifyContent(t, p, fault) ==
  IF Tree1[p].type \in {"reg", "lnk"}
  THEN Then(DeleteAllTypes(t, p, fault), LAMBDA s : CreateByType(s, p, fault))
  ELSE Ok(t)

ModifyAllTypes(t, p, status, fault) ==
  IF p \notin DOMAIN Tree1 THEN Failed(t)
  ELSE LET If(flag, r, Op(_)) == IF flag \in status THEN Then(r, Op) ELSE r
           r0 == CreateParentDirectories(t, p, fault)
           r1 == If("CONTENT", r0, LAMBDA s : ModifyContent(s, p, fault))
           r2 == If("PERMISSIONS", r1, LAMBDA s : Chmod(s, p, Tree1[p].perm, fault))
       IN  If("OWNER", r2, LAMBDA s : Lchown(s, p, Tree1[p].owner, fault))

(* doUndo goes on to create after it has failed to delete, and to modify   *)
(* after that.                                                             *)
DoUndo(t, file, fault) ==
  LET next(r, flags, Op(_)) ==
        IF r.end = "blocked" \/ file.status \cap flags = {} THEN r
        ELSE LET n == Op(r.tree)
             IN  IF r.end = "failed" /\ n.end = "ok" THEN Failed(n.tree) ELSE n
      deleted == next(Ok(t), {"CREATED", "TYPE"}, LAMBDA s : DeleteAllTypes(s, file.name, fault))
      made == next(deleted, {"DELETED", "TYPE"}, LAMBDA s : CreateAllTypes(s, file.name, fault))
  IN  next(made, {"CONTENT", "PERMISSIONS", "OWNER"}, LAMBDA s : ModifyAllTypes(s, file.name, file.status, fault))

-----------------------------------------------------------------------------
(* Comparison and the undochange command                                   *)

Init ==
  /\ \E pair \in Pairs : pre = pair.pre /\ post = pair.post /\ method = pair.method
  /\ cur = pre /\ files = [p \in {} |-> {}] /\ thrown = FALSE
  /\ list = Unknown /\ steps = <<>> /\ system = Tree2 /\ answers = [p \in {} |-> {}]
  /\ edits = 0 /\ faults = 0

Send == method = "btrfs" /\ list = Unknown /\ Command /\ UNCHANGED undoVars

(* Comparison::initialize: load, else create; then filter                  *)
Compare ==
  /\ list = Unknown
  /\ \/ method = "generic" /\ list' = Filtered(CmpDirs(Tree1, Tree2))
     \/ method = "generic" /\ list' = Filtered(Load(Save(CmpDirs(Tree2, Tree1), FALSE), TRUE))
     \/ method = "btrfs" /\ Done /\ list' = Filtered(BtrfsCmpDirs)
  /\ UNCHANGED <<streamVars, method, steps, system, answers, edits, faults>>

UndoStepsInOrder(chosen) == InOrder({e.name : e \in chosen})

(* getUndoSteps: what was created goes first, in reverse order; then the   *)
(* rest in order.                                                          *)
UndoSteps(chosen) ==
  LET new == {e.name : e \in {f \in chosen : f.status = {"CREATED"}}}
  IN  Reverse(InOrder(new)) \o InOrder({e.name : e \in chosen} \ new)
Choose ==
  /\ list # Unknown /\ steps = <<>> /\ DOMAIN answers = {}
  /\ \E chosen \in (SUBSET list) \ {{}} : steps' = UndoSteps(chosen)
  /\ UNCHANGED <<streamVars, method, list, system, answers, edits, faults>>

(* Only of lists that were compared directory by directory: a bound        *)
MoreTrouble == method = "generic" /\ edits + faults < MaxTrouble
Undo(fault) ==
  LET file == CHOOSE e \in list : e.name = Head(steps)
      r == DoUndo(system, file, fault)
  IN  /\ steps # <<>>
      /\ fault # "none" => MoreTrouble
      /\ faults' = IF fault = "none" THEN faults ELSE faults + 1
      /\ system' = r.tree
      /\ answers' = [p \in DOMAIN answers \cup {file.name} |-> IF p = file.name THEN r.end ELSE answers[p]]
      /\ steps' = IF r.end = "blocked" THEN <<>> ELSE Tail(steps)
      /\ UNCHANGED <<streamVars, method, list, edits>>

(* Somebody removes a file or makes one.                                   *)
Edit(p) ==
  /\ steps # <<>> /\ MoreTrouble /\ edits' = edits + 1
  /\ \/ p \in DOMAIN system /\ Below(system, p) = {}
        /\ system' = Restrict(system, DOMAIN system \ {p})
     \/ p \notin DOMAIN system /\ IsDir(system, Front(p))
        /\ \E node \in Edits : system' = PutFlags(system, p, node)
  /\ UNCHANGED <<streamVars, method, list, steps, answers, faults>>

Finished ==
  /\ list # Unknown /\ steps = <<>> /\ (DOMAIN answers # {} \/ list = {})
  /\ UNCHANGED vars

Next ==
  \/ Send \/ Compare \/ Choose \/ Finished
  \/ \E fault \in Fault \cup {"none"} : Undo(fault)
  \/ \E p \in Path : Edit(p)

Spec == Init /\ [][Next]_vars

-----------------------------------------------------------------------------
(* Properties                                                              *)

(* The trees of which StreamExact is claimed: no file has a lower inode    *)
(* number than the directory it is in, and not both a directory has moved  *)
(* and a name of a directory belongs to another file.  There is no new     *)
(* fifo, socket or device (see Make), an inode is of the same file in both *)
(* snapshots, and nothing is mounted into a snapshot.                      *)
Ordered(t) == \A i \in DOMAIN t : t[i].up < i
MovesDir == \E i \in DOMAIN pre \cap DOMAIN post :
  pre[i].node.type = "dir" /\ (pre[i].up # post[i].up \/ pre[i].name # post[i].name)
ReusesDir == \E i \in DOMAIN pre, j \in DOMAIN post :
  i # j /\ "dir" \in {pre[i].node.type, post[j].node.type} /\ PathOf(pre, i) = PathOf(post, j)
SameFiles ==
  /\ \A i \in DOMAIN post : i \in DOMAIN pre \/ ~Special(post[i].node)
  /\ \A i \in DOMAIN pre \cap DOMAIN post : pre[i].node.type = post[i].node.type
  /\ \A t \in {pre, post} : \A i \in DOMAIN t : t[i].node.dev = "own"
Followable == Ordered(pre) /\ Ordered(post) /\ ~(MovesDir /\ ReusesDir) /\ SameFiles

(* The list collected from the commands of the kernel is the one that a    *)
(* comparison directory by directory gives, however the commands are about *)
(* temporary names and about names that belong to other files by then.     *)
StreamExact == Done /\ Followable => BtrfsCmpDirs = CmpDirs(Tree1, Tree2)

(* Equal but for the modification time and for setuid and setgid bits,     *)
(* which chown takes after they were set (File.cc:370-379, 503-516).       *)
Alike(n1, n2) ==
  /\ n1.type = n2.type /\ n1.data = n2.data /\ n1.owner = n2.owner
  /\ n1.perm = n2.perm \/ n2.perm = Setuid

(* What undo cannot put back is left aside: fifos, sockets and devices,    *)
(* mounted file systems, ignored files, content that changed within one    *)
(* modification time, and links that something else has taken the place    *)
(* of (File.cc:503 changes the mode of what the link leads to).            *)
WasLink(p) ==
  p \in DOMAIN Tree1 \cap DOMAIN Tree2 /\ Tree1[p].type = "lnk" /\ Tree2[p].type # "lnk"
Plain ==
  /\ \A t \in {Tree1, Tree2} : \A p \in DOMAIN t :
       ~Special(t[p]) /\ t[p].dev = "own" /\ p \notin Ignored /\ ~WasLink(p)
  /\ \A p \in DOMAIN Tree1 \cap DOMAIN Tree2 :
       Tree1[p].mtime = Tree2[p].mtime => Tree1[p].data = Tree2[p].data
  /\ method = "btrfs" => Followable

(* Undoing the whole of a list, computed, collected or loaded and turned   *)
(* round, leads back to the first snapshot, with no step failing: the list *)
(* misses nothing, and the steps come in an order in which each can be     *)
(* done (Files::getUndoSteps).                                             *)
UndoRestores ==
  list # Unknown /\ DOMAIN answers = {e.name : e \in list} /\ steps = <<>> /\ edits + faults = 0 /\ Plain =>
    /\ \A p \in DOMAIN answers : answers[p] = "ok"
    /\ DOMAIN system = DOMAIN Tree1 /\ \A p \in DOMAIN system : Alike(system[p], Tree1[p])

(* The way to a file passes neither the file itself nor a link that the    *)
(* file leads to: a link is followed once here.                            *)
Unbent(t, p) ==
  \A i \in 1..Len(p)-1 : LET q == Real(t, SubSeq(p, 1, i))
                         IN  q # Real(t, p) /\ (Follow(t, q) = q \/ q # Target(t, p))

Restored(file) ==
  LET p == file.name
      q == Real(system, p)
  IN  IF file.status = {"CREATED"} THEN q \notin DOMAIN system \/ Special(system[q])
      ELSE ~Special(Tree1[p]) =>
             /\ q \in DOMAIN system
             /\ file.status \cap {"DELETED", "TYPE", "CONTENT"} # {} =>
                  Alike(system[q], Tree1[p]) \/ (system[q].type = "device" /\ Tree1[p].type = "reg")
             /\ "PERMISSIONS" \in file.status => Tree1[p].perm \in {system[q].perm, Setuid}
             /\ "OWNER" \in file.status => Tree1[p].owner = system[q].owner

(* When doUndo says that a file was undone it is as it was in the first    *)
(* snapshot, although the list is of an earlier time, any part of it may   *)
(* have been chosen, calls have failed and others work in the system:      *)
(* unless somebody has put a link in its place and it is not removed       *)
(* first, or it was a fifo, socket or device, or is one to be removed, for *)
(* which File.cc does nothing, or it is a device by now, which a file is   *)
(* then written to.                                                        *)
OkMeansRestored ==
  [][\A file \in list :
       /\ file.name \in DOMAIN answers' \ DOMAIN answers /\ answers'[file.name] = "ok"
       /\ Unbent(system, file.name)
       /\ \/ Target(system, file.name) = Real(system, file.name)
          \/ file.status \cap {"CREATED", "TYPE", "CONTENT"} # {}
       => Restored(file)']_vars

(* A step changes no file but its own, whatever has become of the system   *)
(* since the comparison, and makes none but its own and the directories    *)
(* above it: a file somebody has put into a directory to be removed stays. *)
(* A link that is at the name, or is put back there, is followed.          *)
StepKeepsOthers ==
  [][\A p \in DOMAIN answers' \ DOMAIN answers :
       LET own == {Real(system, p)} \cup {q \in {Target(system', p)} : WasLink(p) \/ Target(system, p) = q}
       IN  Unbent(system, p) =>
             /\ \A q \in DOMAIN system \ own : q \in DOMAIN system' /\ system'[q] = system[q]
             /\ \A q \in DOMAIN system' \ DOMAIN system : \E r \in own : IsPrefix(q, r)]_vars

(* A file that is the same in both snapshots is not touched by the undo of *)
(* others.  Violated: see WasLink.                                         *)
UnchangedStays ==
  \A p \in DOMAIN Tree2 \ {e.name : e \in list} :
    list # Unknown /\ edits = 0 => p \in DOMAIN system /\ Alike(system[p], Tree2[p])

=============================================================================
