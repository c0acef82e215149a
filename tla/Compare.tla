------------------------------- MODULE Compare -------------------------------
(***************************************************************************)
(* File trees, the comparison of two of them that works on any file system *)
(* (src/snapper/Compare.cc), and the lists of changed files it gives,      *)
(* which are saved beside the later snapshot and loaded for either order   *)
(* of the two (Comparison.cc, File.cc).                                    *)
(***************************************************************************)
EXTENDS Integers, SequencesExt

CONSTANTS
  Path,     \* paths of files: sequences of names, which are numbers
  Ignored   \* the paths the config's ignore patterns match

ASSUME CompareConstants ==
  /\ Path \subseteq Seq(Nat) \ {<<>>} /\ IsFiniteSet(Path)
  /\ \A p \in Path : Len(p) > 1 => Front(p) \in Path
  /\ Ignored \subseteq Path

(* A file: its type ("dir", "reg", "lnk", "fifo", "socket", "device"), its *)
(* content or target, when that was last modified, its permission bits,    *)
(* its user and group taken together, and whether it is on the file system *)
(* of the subvolume ("own") or mounted into it.                            *)
Fields == {"type", "data", "mtime", "perm", "owner", "dev"}
Special(node) == node.type \in {"fifo", "socket", "device"}

IsDir(t, p) == IF p = <<>> THEN TRUE ELSE p \in DOMAIN t /\ t[p].type = "dir"
IsTree(t) == \A p \in DOMAIN t : DOMAIN t[p] = Fields /\ IsDir(t, Front(p))

Entries(t, d) == {p \in DOMAIN t : Front(p) = d}
Below(t, d) == {p \in DOMAIN t : IsStrictPrefix(d, p)}

-----------------------------------------------------------------------------
(* Compare.cc                                                              *)

(* cmpFilesContent: equal modification times are taken for equal content.  *)
CmpFilesContent(n1, n2) ==
  n1.type \in {"reg", "lnk"} => n1.mtime = n2.mtime \/ n1.data = n2.data

CmpFiles(n1, n2) ==
  (IF n1.type # n2.type THEN {"TYPE"}
   ELSE IF CmpFilesContent(n1, n2) THEN {} ELSE {"CONTENT"})
  \cup (IF n1.perm # n2.perm THEN {"PERMISSIONS"} ELSE {})
  \cup (IF n1.owner # n2.owner THEN {"OWNER"} ELSE {})

Listed(P, status) == {[name |-> p, status |-> {status}] : p \in P}

(* An entry of only one of the directories, with all that is below it,     *)
(* other file systems included                                             *)
Lonesome(t, p, status) ==
  IF t[p].dev = "own" THEN Listed({p} \cup Below(t, p), status) ELSE {}

(* cmpDirsWorker and twosome, from directory to directory.  .snapshots,    *)
(* which filter passes over, is in no tree here, and a file that cannot be *)
(* read or looked at (an IOErrorException, or a difference) is left out.   *)
CmpDirs(t1, t2) ==
  LET worker[d \in DOMAIN t1 \cup {<<>>}] ==
        LET both == Entries(t1, d) \cap Entries(t2, d)
            own == {p \in both : t1[p].dev = "own" /\ t2[p].dev = "own"}
            changed == {p \in own : CmpFiles(t1[p], t2[p]) # {}}
            retyped == {p \in own : t1[p].type # t2[p].type}
        IN  (UNION {Lonesome(t1, p, "DELETED") : p \in Entries(t1, d) \ both})
            \cup (UNION {Lonesome(t2, p, "CREATED") : p \in Entries(t2, d) \ both})
            \cup {[name |-> p, status |-> CmpFiles(t1[p], t2[p])] : p \in changed}
            \cup (UNION {Listed(Below(t1, p), "DELETED") \cup Listed(Below(t2, p), "CREATED") : p \in retyped})
            \cup (UNION {worker[p] : p \in {q \in own \ retyped : t1[q].type = "dir"}})
  IN  worker[<<>>]

-----------------------------------------------------------------------------
(* Saved lists                                                             *)

(* statusToString writes one letter for the first four flags, of which     *)
(* stringToStatus gives back that one.                                     *)
Letter == <<"CREATED", "DELETED", "TYPE", "CONTENT">>
ReadBack(status) ==
  {Letter[i] : i \in {j \in 1..4 : Letter[j] \in status /\ \A k \in 1..j-1 : Letter[k] \notin status}}
  \cup (status \cap {"PERMISSIONS", "OWNER"})

Turned(flag) == CASE flag = "CREATED" -> "DELETED" [] flag = "DELETED" -> "CREATED" [] OTHER -> flag
InvertStatus(status) == {Turned(flag) : flag \in status}

(* Comparison::save and load, for the lower number first in the file: both *)
(* invert when the higher one is the first of the comparison.              *)
Save(list, invert) ==
  {[e EXCEPT !.status = IF invert THEN InvertStatus(@) ELSE @] : e \in list}
Load(saved, invert) ==
  {[e EXCEPT !.status = IF invert THEN InvertStatus(ReadBack(@)) ELSE ReadBack(@)] : e \in saved}

(* Files::filter                                                           *)
Filtered(list) == {e \in list : e.name \notin Ignored}

(* Files::sort: by name; a directory comes before what is in it.           *)
Before(p, q) ==
  \/ IsStrictPrefix(p, q)
  \/ \E i \in 1..Len(p) : /\ i <= Len(q) /\ p[i] < q[i]
                          /\ \A j \in 1..i-1 : p[j] = q[j]
InOrder(P) ==
  [i \in 1..Cardinality(P) |-> CHOOSE p \in P : Cardinality({q \in P : Before(q, p)}) = i - 1]

=============================================================================
