------------------------------- MODULE MCUndo -------------------------------
(* Small pairs of snapshots, to be checked with TLC.                       *)
EXTENDS Undo

File(type, data, mtime, perm, owner, dev) ==
  [type |-> type, data |-> data, mtime |-> mtime, perm |-> perm, owner |-> owner, dev |-> dev]
Dir == File("dir", <<>>, 0, 1, 1, "own")
Mounted == File("dir", <<>>, 0, 1, 1, "mounted")
Text == File("reg", <<1>>, 1, 1, 1, "own")
Text2 == File("reg", <<2>>, 2, 2, 1, "own")
Program == File("reg", <<1>>, 3, Setuid, 2, "own")
Lnk == File("lnk", <<2>>, 1, 0, 1, "own")
Fifo == File("fifo", <<>>, 0, 1, 1, "own")
Socket == File("socket", <<>>, 0, 1, 1, "own")
Device == File("device", <<>>, 0, 2, 1, "own")
ThreeInodes == 1..3
TwoNames == {1, 2}
ShortPaths == UNION {[1..n -> TwoNames] : n \in 1..3}
Trees(inodes, nodes) ==
  LET places == [up : {0} \cup inodes, name : TwoNames, node : nodes]
      goesIn(t, i) == t[i].up = 0 \/ (t[i].up \in DOMAIN t /\ t[i].up < i /\ t[t[i].up].node.type = "dir")
  IN  {t \in UNION {[S -> places] : S \in SUBSET inodes} :
         /\ \A i \in DOMAIN t : goesIn(t, i)
         /\ \A i, j \in DOMAIN t : t[i].up = t[j].up /\ t[i].name = t[j].name => i = j}
SameTypes(t1, t2) == \A i \in DOMAIN t1 \cap DOMAIN t2 : t1[i].node.type = t2[i].node.type
Sent == {pair \in [pre : Trees(ThreeInodes, {Dir, Text}), post : Trees(ThreeInodes, {Dir, Text, Text2}), method : {"btrfs"}] :
           SameTypes(pair.pre, pair.post)}
Compared ==
  [pre : Trees({1, 2}, {Dir, Text, Lnk}) \cup Trees({1}, {Dir, Program, Fifo}),
   post : Trees({1, 2}, {Dir, Text2, Lnk}) \cup Trees({1}, {Program, Mounted, Fifo, Socket, Device}), method : {"generic"}]
SomePairs == Sent \cup Compared
LinkReplaced ==
  LET places == [up : {0}, name : TwoNames, node : {Text, Lnk}]
      trees == {t \in [{1, 2} -> places] : t[1].name # t[2].name}
  IN  {pair \in [pre : trees, post : trees, method : {"generic"}] : pair.pre[2] = pair.post[2]}
OneIgnored == {<<2, 2>>}
SomeEdits == {Text2, Lnk}
=============================================================================
