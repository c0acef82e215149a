----------------------------- MODULE SendStream -----------------------------
(***************************************************************************)
(* The comparison of two read-only btrfs snapshots (src/snapper/Btrfs.cc): *)
(* the kernel sends the commands that turn the first into the second, a    *)
(* StreamProcessor collects in a tree of names what they touch, looks at   *)
(* the touched files again and reports the rest as the commands say.       *)
(*                                                                         *)
(* The kernel takes the files by inode number.  It makes a new one under a *)
(* temporary name and renames it; renames away what is in the way of a     *)
(* name, and a directory that is to be removed and not yet empty; and      *)
(* gives a file that is no directory its new name before it takes the old  *)
(* one from it.                                                            *)
(***************************************************************************)
EXTENDS Compare, Functions

CONSTANTS
  Ino,   \* inode numbers
  Name   \* names of files

(* The kernel chooses names that no file has (o257-7-0).                   *)
TempName(i) == 1000 + i

ASSUME SendStreamConstants ==
  /\ Ino \subseteq Nat \ {0} /\ IsFiniteSet(Ino)
  /\ Name \subseteq Nat /\ \A i \in Ino : TempName(i) \notin Name
  /\ \A p \in Path : Len(p) > 1 => Tail(p) \in Path

VARIABLES
  pre, post,  \* the two snapshots (dir1, dir2): from inodes to their places
  cur,        \* what the commands so far have made of the first
  files,      \* the StreamProcessor's tree: from names to flags
  thrown      \* a handler has thrown

streamVars == <<pre, post, cur, files, thrown>>

(* Files in directories, which all are below the root, each with a name of *)
(* its own                                                                 *)
IsForest(t) ==
  /\ DOMAIN t \subseteq Ino
  /\ \A i \in DOMAIN t : /\ DOMAIN t[i] = {"up", "name", "node"}
                         /\ t[i].name \in Name /\ t[i].up \in DOMAIN t \cup {0}
  /\ \A i, j \in DOMAIN t : t[i].up = t[j].up /\ t[i].name = t[j].name => i = j
  /\ \E depth \in [DOMAIN t -> 0..Cardinality(Ino)] :
       \A i \in DOMAIN t : t[i].up # 0 => depth[t[i].up] < depth[i]

TreeOf(t) ==
  LET path[i \in DOMAIN t \cup {0}] == IF i = 0 THEN <<>> ELSE Append(path[t[i].up], t[i].name)
  IN  [p \in {path[i] : i \in DOMAIN t} |-> t[CHOOSE i \in DOMAIN t : path[i] = p].node]
PathOf(t, i) ==
  LET path[j \in DOMAIN t \cup {0}] == IF j = 0 THEN <<>> ELSE Append(path[t[j].up], t[j].name)
  IN  path[i]

-----------------------------------------------------------------------------
(* tree_node: functions from a prefix-closed set of names to flags; find   *)
(* is membership in the domain.                                            *)

Chain(p) == Prefixes(p) \ {<<>>}
Childs(f, p) == {q \in DOMAIN f : IsStrictPrefix(p, q)}

PutFlags(f, p, status) ==
  [q \in DOMAIN f \cup Chain(p) |-> IF q = p THEN status ELSE IF q \in DOMAIN f THEN f[q] ELSE {}]
Insert(f, p) == IF p \in DOMAIN f THEN f ELSE PutFlags(f, p, {})
AddFlags(f, p, status) == PutFlags(f, p, Insert(f, p)[p] \cup status)

(* erase: without its children a name goes, and with it those above it     *)
(* that have no flags and no other children.                               *)
Erase(f, p) ==
  IF p \notin DOMAIN f THEN f
  ELSE IF Childs(f, p) # {} THEN [f EXCEPT ![p] = {}]
  ELSE LET above == {q \in Chain(p) \ {p} :
                       \A r \in Childs(f, q) \cup {q} : IsPrefix(r, p) /\ (r # p => f[r] = {})}
       IN  Restrict(f, DOMAIN f \ (above \cup {p}))

RenameNode(f, o, n) ==
  LET moved == [q \in DOMAIN Insert(f, n) \cup {n \o SubSeq(r, Len(o) + 1, Len(r)) : r \in Childs(f, o)} |->
                  IF IsPrefix(n, q) THEN f[o \o SubSeq(q, Len(n) + 1, Len(q))] ELSE Insert(f, n)[q]]
  IN  Erase(Restrict(moved, DOMAIN moved \ Childs(f, o)), o)

-----------------------------------------------------------------------------
(* The handlers of the commands                                            *)

Touched == {"CONTENT", "PERMISSIONS", "OWNER"}
Retouch(f, p) == [f EXCEPT ![p] = (@ \ {"CREATED", "DELETED"}) \cup Touched]

CreatedAnew(f, p) == PutFlags(f, p, {"CREATED"})
Created(f, p) == IF p \in DOMAIN f THEN Retouch(f, p) ELSE PutFlags(f, p, {"CREATED"})
Deleted(f, p) == IF p \in DOMAIN f THEN Erase(f, p) ELSE PutFlags(f, p, {"DELETED"})

(* merge: what was below one name goes below another that is known         *)
(* already; from the second level on with `to' in front once too often for *)
(* each level.                                                             *)
MergedName(to, rest) ==
  LET x[i \in 1..Len(rest)] == IF i = 1 THEN Append(to, rest[1]) ELSE Append(to \o x[i - 1], rest[i])
  IN  x[Len(rest)]
Merge(f, tmp, to) ==
  LET from == [x \in {MergedName(to, q) : q \in DOMAIN tmp} |->
                 CHOOSE q \in DOMAIN tmp : MergedName(to, q) = x]
      new == (UNION {Chain(x) : x \in DOMAIN from}) \ DOMAIN f
  IN  [x \in DOMAIN f \cup new |->
         IF x \in new THEN IF x \in DOMAIN from THEN tmp[from[x]] ELSE {}
         ELSE IF x \in DOMAIN from THEN Retouch(f, x)[x] ELSE f[x]]

(* process_rename: of a name no command has touched yet, with all that was *)
(* below it in the first tree                                              *)
RenameUntouched(f, from, to) ==
  LET below == InOrder({SubSeq(p, Len(from) + 1, Len(p)) : p \in Below(TreeOf(pre), from)})
      renamed[i \in 0..Len(below)] ==
        LET rest == IF i = 0 THEN <<>> ELSE below[i]
        IN  Created(Deleted(IF i = 0 THEN f ELSE renamed[i - 1], from \o rest), to \o rest)
  IN  renamed[Len(below)]
ProcessRename(f, from, to) ==
  IF from \notin DOMAIN f THEN RenameUntouched(f, from, to)
  ELSE IF to \notin DOMAIN f THEN RenameNode(f, from, to)
  ELSE LET tmp == [q \in {SubSeq(r, Len(from) + 1, Len(r)) : r \in Childs(f, from)} |-> f[from \o q]]
           bare == Restrict(f, DOMAIN f \ Childs(f, from))
       IN  Merge(Created(Deleted(bare, from), to), tmp, to)

-----------------------------------------------------------------------------
(* The kernel's commands: what each does to the tree, and what the         *)
(* StreamProcessor makes of it                                             *)

Placed(i) == cur[i].up = post[i].up /\ cur[i].name = post[i].name
Empty(i) == \A j \in DOMAIN cur : cur[j].up # i
Settled(i) ==
  IF i \in DOMAIN post THEN i \in DOMAIN cur /\ Placed(i) /\ cur[i].node = post[i].node
  ELSE i \in DOMAIN cur => cur[i].name = TempName(i) /\ ~Empty(i)
Turn(i) == ~Settled(i) /\ \A j \in Ino : j < i => Settled(j)
Done == \A i \in Ino : Settled(i)

Put(i, up, name) == cur' = [cur EXCEPT ![i].up = up, ![i].name = name]
Throws(from) == from \notin DOMAIN files /\ ~IsDir(TreeOf(pre), Front(from))
Renamed(i) ==
  LET from == PathOf(cur, i)
  IN  /\ files' = ProcessRename(files, from, PathOf(cur', i))
      /\ thrown' = (thrown \/ Throws(from))
      /\ UNCHANGED <<pre, post>>

(* process_mkfile, mkdir and symlink.  Fifos, sockets and devices (mknod,  *)
(* mkfifo, mksock) are not looked at.  The directory a file goes into may  *)
(* have to be made before its turn.                                        *)
Bare(node) == [node EXCEPT !.perm = 0, !.owner = 0]
Make(i) ==
  /\ i \in DOMAIN post \ DOMAIN cur
  /\ Turn(i) \/ \E k \in DOMAIN post \cap DOMAIN cur : Turn(k) /\ ~Placed(k) /\ post[k].up = i
  /\ cur' = [j \in DOMAIN cur \cup {i} |->
               IF j = i THEN [up |-> 0, name |-> TempName(i), node |-> Bare(post[i].node)] ELSE cur[j]]
  /\ files' = IF Special(post[i].node) THEN files ELSE Created(files, <<TempName(i)>>)
  /\ UNCHANGED <<pre, post, thrown>>

(* process_rename of what has the name a file is to get, and of a          *)
(* directory to be removed in which there still are files                  *)
InTheWay(i, j) == j # i /\ cur[j].up = post[i].up /\ cur[j].name = post[i].name
Evict(i) ==
  /\ i \in DOMAIN cur
  /\ \/ \E k \in DOMAIN post \cap DOMAIN cur : Turn(k) /\ ~Placed(k) /\ InTheWay(k, i)
     \/ Turn(i) /\ i \notin DOMAIN post /\ ~Empty(i)
  /\ Put(i, 0, TempName(i)) /\ Renamed(i)

CanPlace(i) ==
  /\ i \in DOMAIN post \cap DOMAIN cur /\ Turn(i) /\ ~Placed(i)
  /\ post[i].up \in DOMAIN cur \cup {0} /\ ~IsPrefix(PathOf(cur, i), PathOf(cur, post[i].up))
  /\ \A j \in DOMAIN cur : ~InTheWay(i, j)
ByRename(i) == cur[i].name = TempName(i) \/ cur[i].node.type = "dir"

(* process_rename to the new name                                          *)
Place(i) ==
  /\ CanPlace(i) /\ ByRename(i)
  /\ Put(i, post[i].up, post[i].name) /\ Renamed(i)

(* process_link to the new name, process_unlink of the old                 *)
Link(i) ==
  /\ CanPlace(i) /\ ~ByRename(i)
  /\ Put(i, post[i].up, post[i].name)
  /\ files' = Deleted(Created(files, PathOf(cur', i)), PathOf(cur, i))
  /\ UNCHANGED <<pre, post, thrown>>

(* process_unlink and process_rmdir                                        *)
Delete(i) ==
  /\ Turn(i) /\ i \in DOMAIN cur \ DOMAIN post /\ Empty(i)
  /\ cur' = Restrict(cur, DOMAIN cur \ {i})
  /\ files' = Deleted(files, PathOf(cur, i))
  /\ UNCHANGED <<pre, post, thrown>>

(* process_write, clone, truncate and update_extent; process_chmod;        *)
(* process_chown                                                           *)
Change(i) ==
  /\ Turn(i) /\ i \in DOMAIN cur \cap DOMAIN post /\ Placed(i)
  /\ cur' = [cur EXCEPT ![i].node = post[i].node]
  /\ files' = AddFlags(files, PathOf(cur, i), CmpFiles(cur[i].node, post[i].node))
  /\ UNCHANGED <<pre, post, thrown>>

Command ==
  \E i \in Ino : Make(i) \/ Evict(i) \/ Place(i) \/ Link(i) \/ Delete(i) \/ Change(i)

-----------------------------------------------------------------------------
(* The result                                                              *)

Tree1 == TreeOf(pre)
Tree2 == TreeOf(post)

(* check: opening a directory that is not there, or finding the file in    *)
(* neither tree, ends in an exception.                                     *)
Rechecked == {p \in DOMAIN files : files[p] \cap {"CREATED", "DELETED"} = {} /\ files[p] # {}}
CheckThrows ==
  \E p \in Rechecked : \/ ~IsDir(Tree1, Front(p)) \/ ~IsDir(Tree2, Front(p))
                       \/ p \notin DOMAIN Tree1 \cup DOMAIN Tree2
Check(p) ==
  IF p \notin Rechecked THEN files[p] \cap {"CREATED", "DELETED"}
  ELSE IF p \notin DOMAIN Tree1 THEN {"CREATED"}
  ELSE IF p \notin DOMAIN Tree2 THEN {"DELETED"}
  ELSE CmpFiles(Tree1[p], Tree2[p])
Result == {[name |-> p, status |-> Check(p)] : p \in {q \in DOMAIN files : Check(q) # {}}}

(* Btrfs::cmpDirs                                                          *)
BtrfsCmpDirs == IF thrown \/ CheckThrows THEN CmpDirs(Tree1, Tree2) ELSE Result

=============================================================================
