----------------------------- MODULE UndoProofs -----------------------------
(***************************************************************************)
(* What the comparison of two trees lists, in which order the files of a   *)
(* list are undone, how undoing the whole list of two snapshots leads      *)
(* towards the first one, and what a single step does in a system in which *)
(* others work and calls fail, proved for any trees.                       *)
(***************************************************************************)
EXTENDS Undo, Counting, SequenceTheorems

-----------------------------------------------------------------------------
(* Paths                                                                   *)

LEMMA UpTo ==
  ASSUME NEW p \in Seq(Nat), NEW n \in 0..Len(p)
  PROVE  /\ SubSeq(p, 1, n) \in Seq(Nat)
         /\ Len(SubSeq(p, 1, n)) = n
         /\ \A i \in 1..n : SubSeq(p, 1, n)[i] = p[i]
<1>1. Len(p) \in Nat /\ \A i \in 1..n : p[i] \in Nat
  BY LenProperties, ElementOfSeq
<1> QED BY <1>1, SubSeqProperties

LEMMA PrefixMeans ==
  ASSUME NEW s \in Seq(Nat), NEW t \in Seq(Nat)
  PROVE  IsPrefix(s, t) <=> Len(s) <= Len(t) /\ \A i \in 1..Len(s) : s[i] = t[i]
<1> DEFINE u == SubSeq(s, 1, Len(s))
           v == SubSeq(t, 1, Len(s))
<1>1. Len(s) \in Nat /\ Len(t) \in Nat
  BY LenProperties
<1>2. u \in Seq(Nat) /\ Len(u) = Len(s) /\ \A i \in 1..Len(s) : u[i] = s[i]
  BY <1>1, UpTo
<1>3. Len(s) <= Len(t) => v \in Seq(Nat) /\ Len(v) = Len(s) /\ \A i \in 1..Len(s) : v[i] = t[i]
  BY <1>1, UpTo
<1> HIDE DEF u, v
<1>4. Len(s) <= Len(t) => (u = v <=> \A i \in 1..Len(s) : s[i] = t[i])
  BY <1>2, <1>3, SeqEqual
<1> QED BY <1>1, <1>4 DEF IsPrefix, u, v

(* What the proofs use of prefixes                                         *)
LEMMA PrefixOrder ==
  ASSUME NEW s \in Seq(Nat), NEW t \in Seq(Nat), NEW u \in Seq(Nat)
  PROVE  /\ IsPrefix(s, s)
         /\ IsPrefix(s, t) /\ IsPrefix(t, u) => IsPrefix(s, u)
         /\ IsPrefix(s, u) /\ IsPrefix(t, u) /\ Len(s) <= Len(t) => IsPrefix(s, t)
         /\ IsPrefix(s, t) /\ Len(t) <= Len(s) => s = t
         /\ IsPrefix(s, t) => Len(s) <= Len(t)
         /\ IsStrictPrefix(s, t) <=> IsPrefix(s, t) /\ Len(s) < Len(t)
<1>1. Len(s) \in Nat /\ Len(t) \in Nat /\ Len(u) \in Nat
  BY LenProperties
<1>2. IsPrefix(s, s) /\ (IsPrefix(s, t) => Len(s) <= Len(t))
  BY <1>1, PrefixMeans
<1>3. IsPrefix(s, t) /\ IsPrefix(t, u) => IsPrefix(s, u)
  BY <1>1, PrefixMeans
<1>4. IsPrefix(s, u) /\ IsPrefix(t, u) /\ Len(s) <= Len(t) => IsPrefix(s, t)
  BY <1>1, PrefixMeans
<1>5. IsPrefix(s, t) /\ Len(t) <= Len(s) => s = t
  BY <1>1, PrefixMeans, SeqEqual
<1>6. IsStrictPrefix(s, t) <=> IsPrefix(s, t) /\ Len(s) < Len(t)
  BY <1>1, <1>2, <1>5 DEF IsStrictPrefix
<1> QED BY <1>2, <1>3, <1>4, <1>5, <1>6

LEMMA EmptyPrefix ==
  ASSUME NEW p \in Seq(Nat)
  PROVE  <<>> \in Seq(Nat) /\ Len(<<>>) = 0 /\ IsPrefix(<<>>, p) /\ (p # <<>> <=> Len(p) > 0)
<1>1. <<>> \in Seq(Nat) /\ Len(<<>>) = 0 /\ Len(p) \in Nat
  BY EmptySeq, LenProperties
<1>2. ASSUME NEW e \in Seq(Nat), Len(e) = 0
      PROVE  IsPrefix(e, p)
  <2>1. Len(e) <= Len(p) /\ \A i \in 1..Len(e) : e[i] = p[i]
    BY <1>1, <1>2
  <2> QED BY <2>1, PrefixMeans
<1>3. IsPrefix(<<>>, p)
  BY <1>1, <1>2
<1>4. p # <<>> <=> Len(p) > 0
  BY <1>1, EmptySeq
<1> QED BY <1>1, <1>3, <1>4

LEMMA PrefixIsSubSeq ==
  ASSUME NEW p \in Seq(Nat), NEW n \in 0..Len(p)
  PROVE  /\ IsPrefix(SubSeq(p, 1, n), p)
         /\ \A s \in Seq(Nat) : IsPrefix(s, p) /\ Len(s) = n => s = SubSeq(p, 1, n)
<1> DEFINE u == SubSeq(p, 1, n)
<1>1. Len(p) \in Nat
  BY LenProperties
<1>2. u \in Seq(Nat) /\ Len(u) = n /\ \A i \in 1..n : u[i] = p[i]
  BY UpTo
<1> HIDE DEF u
<1>3. IsPrefix(u, p)
  BY <1>1, <1>2, PrefixMeans
<1>4. ASSUME NEW s \in Seq(Nat), IsPrefix(s, p), Len(s) = n
      PROVE  s = u
  <2>1. \A i \in 1..n : s[i] = u[i]
    BY <1>2, <1>4, PrefixMeans
  <2> QED BY <1>2, <1>4, <2>1, SeqEqual
<1> QED BY <1>3, <1>4 DEF u

LEMMA FrontProperties ==
  ASSUME NEW p \in Seq(Nat), p # <<>>
  PROVE  /\ Front(p) \in Seq(Nat) /\ Len(Front(p)) = Len(p) - 1
         /\ IsPrefix(Front(p), p)
         /\ \A s \in Seq(Nat) : IsStrictPrefix(s, p) <=> IsPrefix(s, Front(p))
<1>1. Len(p) \in Nat /\ Len(p) > 0
  BY LenProperties, EmptyPrefix
<1>2. Front(p) \in Seq(Nat) /\ Len(Front(p)) = Len(p) - 1 /\ IsPrefix(Front(p), p)
  <2>1. Len(p) - 1 \in 0..Len(p)
    BY <1>1
  <2> QED BY <2>1, UpTo, PrefixIsSubSeq DEF Front
<1>3. ASSUME NEW s \in Seq(Nat)
      PROVE  IsStrictPrefix(s, p) <=> IsPrefix(s, Front(p))
  <2>1. Len(s) \in Nat
    BY LenProperties
  <2> QED BY <1>1, <1>2, <2>1, PrefixOrder
<1> QED BY <1>2, <1>3

LEMMA NextOnTheWay ==
  ASSUME NEW d \in Seq(Nat), NEW p \in Seq(Nat), IsStrictPrefix(d, p)
  PROVE  \E c \in Seq(Nat) \ {<<>>} : IsPrefix(c, p) /\ Len(c) = Len(d) + 1 /\ Front(c) = d
<1> DEFINE c == SubSeq(p, 1, Len(d) + 1)
<1>1. Len(d) \in Nat /\ Len(p) \in Nat /\ IsPrefix(d, p) /\ Len(d) < Len(p)
  BY LenProperties, PrefixOrder
<1>2. c \in Seq(Nat) /\ Len(c) = Len(d) + 1 /\ IsPrefix(c, p)
  BY <1>1, UpTo, PrefixIsSubSeq
<1> HIDE DEF c
<1>3. c # <<>>
  BY <1>1, <1>2, EmptyPrefix
<1>4. IsStrictPrefix(d, c)
  BY <1>1, <1>2, PrefixOrder
<1>5. IsPrefix(d, Front(c)) /\ Front(c) \in Seq(Nat) /\ Len(Front(c)) = Len(d)
  BY <1>1, <1>2, <1>3, <1>4, FrontProperties
<1>6. Front(c) = d
  BY <1>1, <1>5, PrefixOrder
<1> QED BY <1>2, <1>3, <1>6

-----------------------------------------------------------------------------
(* Trees                                                                   *)

Tree(t) == IsTree(t) /\ DOMAIN t \subseteq Path

LEMMA PathType == \A p \in Path : p \in Seq(Nat) /\ p # <<>>
BY CompareConstants

LEMMA DirsAbove ==
  ASSUME NEW t, Tree(t), NEW q \in Seq(Nat) \ {<<>>}, NEW p \in DOMAIN t, IsStrictPrefix(q, p)
  PROVE  q \in DOMAIN t /\ t[q].type = "dir"
<1> DEFINE Bad == {r \in DOMAIN t : IsStrictPrefix(q, r)}
           Lengths == {Len(r) : r \in Bad}
<1> SUFFICES ASSUME ~IsDir(t, q) PROVE FALSE
  BY DEF IsDir
<1>1. \A r \in DOMAIN t : r \in Seq(Nat) /\ r # <<>> /\ Len(r) \in Nat
  BY PathType, LenProperties DEF Tree
<1>2. PICK n \in Lengths : \A m \in Lengths : n <= m
  <2>1. Lengths \in SUBSET Nat /\ Lengths # {}
    BY <1>1
  <2> HIDE DEF Lengths
  <2> QED BY <2>1, LeastNumber
<1>3. PICK r \in Bad : Len(r) = n /\ \A s \in Bad : Len(r) <= Len(s)
  BY <1>2
<1>4. r \in Seq(Nat) /\ r # <<>> /\ IsPrefix(q, Front(r)) /\ IsDir(t, Front(r)) /\ Len(r) \in Nat
  <2>1. r \in Seq(Nat) /\ r # <<>> /\ r \in DOMAIN t /\ IsStrictPrefix(q, r) /\ Len(r) \in Nat
    BY <1>1
  <2>2. IsDir(t, Front(r))
    BY <2>1 DEF Tree, IsTree
  <2> QED BY <2>1, <2>2, FrontProperties
<1>5. Front(r) \in Seq(Nat) /\ Len(Front(r)) = Len(r) - 1
  BY <1>4, FrontProperties
<1>6. Front(r) # q
  BY <1>4
<1>7. IsStrictPrefix(q, Front(r)) /\ Front(r) # <<>>
  <2>1. Len(q) \in Nat /\ Len(q) > 0 /\ Len(Front(r)) \in Nat
    BY LenProperties, EmptyPrefix, <1>5
  <2> QED BY <1>4, <1>5, <1>6, <2>1, PrefixOrder, EmptyPrefix DEF IsStrictPrefix
<1>8. Front(r) \in Bad
  BY <1>4, <1>7 DEF IsDir
<1> QED BY <1>3, <1>4, <1>5, <1>8

-----------------------------------------------------------------------------
(* The comparison                                                          *)

(* What a list says of a file, and the files it says something of          *)
Status(t1, t2, p) ==
  IF p \notin DOMAIN t2 THEN {"DELETED"}
  ELSE IF p \notin DOMAIN t1 THEN {"CREATED"}
  ELSE CmpFiles(t1[p], t2[p])
Differing(t1, t2) == {p \in DOMAIN t1 \cup DOMAIN t2 : Status(t1, t2, p) # {}}
Entry(t1, t2, p) == [name |-> p, status |-> Status(t1, t2, p)]
ListOf(t1, t2, P) == {Entry(t1, t2, p) : p \in P}

(* Nothing mounted was in the way, from the directory d down, as long as   *)
(* the way leads through what is a directory in both trees.                *)
Own(t, p) == p \in DOMAIN t => t[p].dev = "own"
BothDirs(t1, t2, p) == IsDir(t1, p) /\ IsDir(t2, p)
Reached(t1, t2, d, p) ==
  \A q \in DOMAIN t1 \cup DOMAIN t2 :
    /\ IsStrictPrefix(d, q) /\ IsPrefix(q, p)
    /\ Front(q) = d \/ BothDirs(t1, t2, Front(q))
    => Own(t1, q) /\ Own(t2, q)
Found(t1, t2, d) ==
  {Entry(t1, t2, p) : p \in {q \in Differing(t1, t2) : IsStrictPrefix(d, q) /\ Reached(t1, t2, d, q)}}

(* What CmpDirs collects for a directory                                   *)
Directory(t1, t2, worker, d) ==
  LET both == Entries(t1, d) \cap Entries(t2, d)
      own == {p \in both : t1[p].dev = "own" /\ t2[p].dev = "own"}
      changed == {p \in own : CmpFiles(t1[p], t2[p]) # {}}
      retyped == {p \in own : t1[p].type # t2[p].type}
  IN  (UNION {Lonesome(t1, p, "DELETED") : p \in Entries(t1, d) \ both})
      \cup (UNION {Lonesome(t2, p, "CREATED") : p \in Entries(t2, d) \ both})
      \cup {[name |-> p, status |-> CmpFiles(t1[p], t2[p])] : p \in changed}
      \cup (UNION {Listed(Below(t1, p), "DELETED") \cup Listed(Below(t2, p), "CREATED") : p \in retyped})
      \cup (UNION {worker[p] : p \in {q \in own \ retyped : t1[q].type = "dir"}})
Works(t1, t2, worker) ==
  worker = [d \in DOMAIN t1 \cup {<<>>} |-> Directory(t1, t2, worker, d)]

LEMMA CmpDirsIsWorker ==
  ASSUME NEW t1, NEW t2, NEW w, Works(t1, t2, w),
         \A v : Works(t1, t2, v) => v = w
  PROVE  CmpDirs(t1, t2) = w[<<>>]
<1>1. CmpDirs(t1, t2) = (CHOOSE v : Works(t1, t2, v))[<<>>]
  BY DEF CmpDirs, Works, Directory
<1>2. (CHOOSE v : Works(t1, t2, v)) = w
  OBVIOUS
<1> QED BY <1>1, <1>2

LEMMA Inside ==
  ASSUME NEW t, Tree(t), NEW d \in Seq(Nat), NEW p \in Entries(t, d)
  PROVE  /\ p \in DOMAIN t /\ p \in Seq(Nat) /\ p # <<>> /\ Front(p) = d
         /\ IsPrefix(d, p) /\ IsStrictPrefix(d, p) /\ Len(p) = Len(d) + 1
<1>1. p \in DOMAIN t /\ p \in Seq(Nat) /\ p # <<>> /\ Front(p) = d
  BY PathType DEF Entries, Tree
<1>2. IsPrefix(d, p) /\ Len(d) = Len(p) - 1 /\ Len(p) \in Nat
  BY <1>1, FrontProperties, LenProperties
<1>3. IsStrictPrefix(d, p)
  BY <1>1, <1>2, PrefixOrder
<1> QED BY <1>1, <1>2, <1>3

LEMMA AboveInTree ==
  ASSUME NEW t, Tree(t), NEW q \in Seq(Nat) \ {<<>>}, NEW p \in DOMAIN t, IsPrefix(q, p)
  PROVE  q \in DOMAIN t
<1>1. q = p \/ IsStrictPrefix(q, p)
  BY DEF IsStrictPrefix
<1> QED BY <1>1, DirsAbove

(* The way to what is in an entry of a directory                           *)
LEMMA ThroughEntry ==
  ASSUME NEW t1, NEW t2, Tree(t1), Tree(t2), NEW d \in Seq(Nat),
         NEW c \in DOMAIN t1 \cup DOMAIN t2, Front(c) = d,
         NEW p \in DOMAIN t1 \cup DOMAIN t2, IsPrefix(c, p)
  PROVE  /\ Reached(t1, t2, d, p) => Own(t1, c) /\ Own(t2, c)
         /\ Own(t1, c) /\ Own(t2, c) =>
              /\ ~BothDirs(t1, t2, c) \/ p = c => Reached(t1, t2, d, p)
              /\ BothDirs(t1, t2, c) => (Reached(t1, t2, d, p) <=> Reached(t1, t2, c, p))
<1>1. \A r \in DOMAIN t1 \cup DOMAIN t2 : r \in Seq(Nat) /\ r # <<>> /\ Len(r) \in Nat
  BY PathType, LenProperties DEF Tree
<1>2. IsStrictPrefix(d, c) /\ Len(c) = Len(d) + 1 /\ Len(d) \in Nat
  BY <1>1, FrontProperties, PrefixOrder, LenProperties
<1>3. ASSUME Reached(t1, t2, d, p)
      PROVE  Own(t1, c) /\ Own(t2, c)
  BY <1>2, <1>3 DEF Reached
<1>4. ASSUME NEW r \in DOMAIN t1 \cup DOMAIN t2, IsStrictPrefix(d, r), IsPrefix(r, p), r # c
      PROVE  /\ p # c /\ IsStrictPrefix(c, r) /\ Front(r) # d
             /\ BothDirs(t1, t2, Front(r)) => BothDirs(t1, t2, c)
  <2>1. Len(d) < Len(r)
    BY <1>1, <1>4, PrefixOrder
  <2>2. IsStrictPrefix(c, r)
    BY <1>1, <1>2, <1>4, <2>1, PrefixOrder DEF IsStrictPrefix
  <2>3. p # c
    BY <1>1, <1>4, <2>2, PrefixOrder DEF IsStrictPrefix
  <2>4. Front(r) \in Seq(Nat) /\ IsPrefix(c, Front(r)) /\ Len(Front(r)) = Len(r) - 1 /\ Len(c) < Len(r)
    BY <1>1, <2>2, FrontProperties, PrefixOrder
  <2>5. Front(r) # d /\ Front(r) # <<>>
    BY <1>1, <1>2, <2>4, EmptyPrefix
  <2>6. ASSUME BothDirs(t1, t2, Front(r))
        PROVE  BothDirs(t1, t2, c)
    <3>1. CASE Front(r) = c
      BY <2>6, <3>1
    <3>2. CASE Front(r) # c
      <4>1. IsStrictPrefix(c, Front(r)) /\ Front(r) \in DOMAIN t1 /\ Front(r) \in DOMAIN t2
        BY <2>4, <2>5, <2>6, <3>2 DEF IsStrictPrefix, BothDirs, IsDir
      <4> QED BY <1>1, <4>1, DirsAbove DEF BothDirs, IsDir
    <3> QED BY <3>1, <3>2
  <2> QED BY <2>2, <2>3, <2>5, <2>6
<1>5. ASSUME Own(t1, c), Own(t2, c), ~BothDirs(t1, t2, c) \/ p = c
      PROVE  Reached(t1, t2, d, p)
  BY <1>4, <1>5 DEF Reached
<1>6. ASSUME NEW r \in DOMAIN t1 \cup DOMAIN t2, IsStrictPrefix(c, r)
      PROVE  IsStrictPrefix(d, r) /\ r # c
  BY <1>1, <1>2, <1>6, PrefixOrder DEF IsStrictPrefix
<1>7. ASSUME Own(t1, c), Own(t2, c), BothDirs(t1, t2, c)
      PROVE  Reached(t1, t2, d, p) <=> Reached(t1, t2, c, p)
  BY <1>4, <1>6, <1>7 DEF Reached
<1> QED BY <1>3, <1>5, <1>7

(* What is in only one of the trees takes with it what is below it; below  *)
(* what has another type there is nothing that is in both.                 *)
LEMMA BelowOneSided ==
  ASSUME NEW t1, NEW t2, Tree(t1), Tree(t2),
         NEW c \in DOMAIN t1 \cup DOMAIN t2, NEW p \in DOMAIN t1 \cup DOMAIN t2
  PROVE  /\ IsPrefix(c, p) /\ c \notin DOMAIN t2 => p \notin DOMAIN t2 /\ p \in DOMAIN t1
         /\ IsPrefix(c, p) /\ c \notin DOMAIN t1 => p \notin DOMAIN t1 /\ p \in DOMAIN t2
         /\ IsStrictPrefix(c, p) /\ c \in DOMAIN t1 \cap DOMAIN t2 /\ t1[c].type # t2[c].type =>
              ~(p \in DOMAIN t1 /\ p \in DOMAIN t2)
         /\ IsStrictPrefix(c, p) /\ c \in DOMAIN t1 \cap DOMAIN t2 /\ t1[c].type = t2[c].type =>
              t1[c].type = "dir"
<1>1. c \in Seq(Nat) \ {<<>>}
  BY PathType DEF Tree
<1>2. IsPrefix(c, p) /\ c \notin DOMAIN t2 => p \notin DOMAIN t2 /\ p \in DOMAIN t1
  BY <1>1, AboveInTree
<1>3. IsPrefix(c, p) /\ c \notin DOMAIN t1 => p \notin DOMAIN t1 /\ p \in DOMAIN t2
  BY <1>1, AboveInTree
<1>4. ASSUME IsStrictPrefix(c, p), c \in DOMAIN t1 \cap DOMAIN t2
      PROVE  (p \in DOMAIN t1 => t1[c].type = "dir") /\ (p \in DOMAIN t2 => t2[c].type = "dir")
  BY <1>1, <1>4, DirsAbove
<1> QED BY <1>2, <1>3, <1>4

LEMMA FoundMember ==
  ASSUME NEW t1, NEW t2, NEW d, NEW e
  PROVE  e \in Found(t1, t2, d) <=>
           \E p \in DOMAIN t1 \cup DOMAIN t2 :
             /\ e = [name |-> p, status |-> Status(t1, t2, p)] /\ Status(t1, t2, p) # {}
             /\ IsStrictPrefix(d, p) /\ Reached(t1, t2, d, p)
BY DEF Found, Differing, Entry

(* The list of a directory is what differs below it.                       *)
LEMMA DirectoryFinds ==
  ASSUME NEW t1, NEW t2, Tree(t1), Tree(t2), NEW d \in Seq(Nat),
         NEW w, \A c \in DOMAIN t1 : Front(c) = d => w[c] = Found(t1, t2, c)
  PROVE  Directory(t1, t2, w, d) = Found(t1, t2, d)
<1> DEFINE both == Entries(t1, d) \cap Entries(t2, d)
           own == {p \in both : t1[p].dev = "own" /\ t2[p].dev = "own"}
           changed == {p \in own : CmpFiles(t1[p], t2[p]) # {}}
           retyped == {p \in own : t1[p].type # t2[p].type}
           kept == {p \in own \ retyped : t1[p].type = "dir"}
           Gone == UNION {Lonesome(t1, p, "DELETED") : p \in Entries(t1, d) \ both}
           New == UNION {Lonesome(t2, p, "CREATED") : p \in Entries(t2, d) \ both}
           Other == {[name |-> p, status |-> CmpFiles(t1[p], t2[p])] : p \in changed}
           Within == UNION {Listed(Below(t1, p), "DELETED") \cup Listed(Below(t2, p), "CREATED") : p \in retyped}
           Further == UNION {w[p] : p \in kept}
<1>1. Directory(t1, t2, w, d) = Gone \cup New \cup Other \cup Within \cup Further
  BY DEF Directory
<1>2. \A p \in DOMAIN t1 \cup DOMAIN t2 : p \in Seq(Nat) /\ p # <<>> /\ IsPrefix(p, p)
  BY PathType, PrefixOrder DEF Tree
<1>3. \A p \in Entries(t1, d) \cup Entries(t2, d) :
        p \in DOMAIN t1 \cup DOMAIN t2 /\ Front(p) = d /\ IsStrictPrefix(d, p)
  BY Inside
<1>4. \A p : /\ p \in Entries(t1, d) <=> p \in DOMAIN t1 /\ Front(p) = d
             /\ p \in Entries(t2, d) <=> p \in DOMAIN t2 /\ Front(p) = d
  BY DEF Entries
<1>5. ASSUME NEW e \in Gone
      PROVE  e \in Found(t1, t2, d)
  <2>1. PICK c \in Entries(t1, d) \ both : e \in Lonesome(t1, c, "DELETED")
    OBVIOUS
  <2>2. c \in DOMAIN t1 /\ c \notin DOMAIN t2 /\ Front(c) = d
    BY <1>4, <2>1
  <2>3. PICK p \in {c} \cup Below(t1, c) : e = [name |-> p, status |-> {"DELETED"}] /\ t1[c].dev = "own"
    BY <2>1 DEF Lonesome, Listed
  <2>4. p \in DOMAIN t1 \cup DOMAIN t2 /\ IsPrefix(c, p)
    BY <1>2, <2>2, <2>3 DEF Below, IsStrictPrefix
  <2>5. p \notin DOMAIN t2 /\ p \in DOMAIN t1
    BY <2>2, <2>4, BelowOneSided
  <2>6. Reached(t1, t2, d, p)
    <3>1. ~BothDirs(t1, t2, c) /\ Own(t1, c) /\ Own(t2, c)
      BY <1>2, <2>2, <2>3 DEF BothDirs, IsDir, Own
    <3> QED BY <2>2, <2>4, <3>1, ThroughEntry
  <2>7. IsStrictPrefix(d, p)
    BY <1>2, <1>3, <2>1, <2>4, PrefixOrder, LenProperties DEF IsStrictPrefix
  <2> QED BY <2>3, <2>4, <2>5, <2>6, <2>7, FoundMember DEF Status
<1>6. ASSUME NEW e \in New
      PROVE  e \in Found(t1, t2, d)
  <2>1. PICK c \in Entries(t2, d) \ both : e \in Lonesome(t2, c, "CREATED")
    OBVIOUS
  <2>2. c \in DOMAIN t2 /\ c \notin DOMAIN t1 /\ Front(c) = d
    BY <1>4, <2>1
  <2>3. PICK p \in {c} \cup Below(t2, c) : e = [name |-> p, status |-> {"CREATED"}] /\ t2[c].dev = "own"
    BY <2>1 DEF Lonesome, Listed
  <2>4. p \in DOMAIN t1 \cup DOMAIN t2 /\ IsPrefix(c, p)
    BY <1>2, <2>2, <2>3 DEF Below, IsStrictPrefix
  <2>5. p \notin DOMAIN t1 /\ p \in DOMAIN t2
    BY <2>2, <2>4, BelowOneSided
  <2>6. Reached(t1, t2, d, p)
    <3>1. ~BothDirs(t1, t2, c) /\ Own(t1, c) /\ Own(t2, c)
      BY <1>2, <2>2, <2>3 DEF BothDirs, IsDir, Own
    <3> QED BY <2>2, <2>4, <3>1, ThroughEntry
  <2>7. IsStrictPrefix(d, p)
    BY <1>2, <1>3, <2>1, <2>4, PrefixOrder, LenProperties DEF IsStrictPrefix
  <2> QED BY <2>3, <2>4, <2>5, <2>6, <2>7, FoundMember DEF Status
<1>7. \A c \in own : /\ c \in DOMAIN t1 /\ c \in DOMAIN t2 /\ Front(c) = d /\ IsStrictPrefix(d, c)
                     /\ Own(t1, c) /\ Own(t2, c)
  BY <1>3, <1>4 DEF Own
<1>8. ASSUME NEW e \in Other
      PROVE  e \in Found(t1, t2, d)
  <2>1. PICK c \in own : CmpFiles(t1[c], t2[c]) # {} /\ e = [name |-> c, status |-> CmpFiles(t1[c], t2[c])]
    OBVIOUS
  <2>2. Reached(t1, t2, d, c)
    BY <1>2, <1>7, <2>1, ThroughEntry
  <2> HIDE DEF own
  <2> QED BY <1>7, <2>1, <2>2, FoundMember DEF Status
<1>9. ASSUME NEW e \in Within
      PROVE  e \in Found(t1, t2, d)
  <2>1. PICK c \in own : /\ t1[c].type # t2[c].type
                         /\ e \in Listed(Below(t1, c), "DELETED") \cup Listed(Below(t2, c), "CREATED")
    OBVIOUS
  <2>2. PICK p : \/ p \in Below(t1, c) /\ e = [name |-> p, status |-> {"DELETED"}]
                 \/ p \in Below(t2, c) /\ e = [name |-> p, status |-> {"CREATED"}]
    BY <2>1 DEF Listed
  <2> HIDE DEF own
  <2>3. p \in DOMAIN t1 \cup DOMAIN t2 /\ IsStrictPrefix(c, p) /\ IsPrefix(c, p)
    BY <2>2 DEF Below, IsStrictPrefix
  <2>4. ~(p \in DOMAIN t1 /\ p \in DOMAIN t2)
    BY <1>7, <2>1, <2>3, BelowOneSided
  <2>5. Reached(t1, t2, d, p)
    <3>1. ~BothDirs(t1, t2, c)
      BY <1>2, <1>7, <2>1 DEF BothDirs, IsDir
    <3> QED BY <1>7, <2>1, <2>3, <3>1, ThroughEntry
  <2>6. IsStrictPrefix(d, p)
    BY <1>2, <1>7, <2>1, <2>3, PrefixOrder, LenProperties DEF IsStrictPrefix
  <2>7. e = [name |-> p, status |-> Status(t1, t2, p)] /\ Status(t1, t2, p) # {}
    BY <2>2, <2>4 DEF Status, Below
  <2> QED BY <2>3, <2>5, <2>6, <2>7, FoundMember
<1>10. ASSUME NEW e \in Further
      PROVE  e \in Found(t1, t2, d)
  <2>1. PICK c \in own : t1[c].type = t2[c].type /\ t1[c].type = "dir" /\ e \in w[c]
    OBVIOUS
  <2> HIDE DEF own
  <2>2. e \in Found(t1, t2, c) /\ BothDirs(t1, t2, c)
    BY <1>7, <2>1 DEF BothDirs, IsDir
  <2>3. PICK p \in DOMAIN t1 \cup DOMAIN t2 :
             /\ e = [name |-> p, status |-> Status(t1, t2, p)] /\ Status(t1, t2, p) # {}
             /\ IsStrictPrefix(c, p) /\ Reached(t1, t2, c, p)
    BY <2>2, FoundMember
  <2>4. Reached(t1, t2, d, p)
    BY <1>7, <2>1, <2>2, <2>3, ThroughEntry DEF IsStrictPrefix
  <2>5. IsStrictPrefix(d, p)
    BY <1>2, <1>7, <2>1, <2>3, PrefixOrder, LenProperties DEF IsStrictPrefix
  <2> QED BY <2>3, <2>4, <2>5, FoundMember
<1>11. ASSUME NEW e \in Found(t1, t2, d)
       PROVE  e \in Gone \cup New \cup Other \cup Within \cup Further
  <2>1. PICK p \in DOMAIN t1 \cup DOMAIN t2 :
             /\ e = [name |-> p, status |-> Status(t1, t2, p)] /\ Status(t1, t2, p) # {}
             /\ IsStrictPrefix(d, p) /\ Reached(t1, t2, d, p)
    BY <1>11, FoundMember
  <2>2. PICK c \in Seq(Nat) \ {<<>>} : IsPrefix(c, p) /\ Len(c) = Len(d) + 1 /\ Front(c) = d
    BY <1>2, <2>1, NextOnTheWay
  <2>3. c \in DOMAIN t1 \cup DOMAIN t2
    BY <2>1, <2>2, AboveInTree
  <2>4. Own(t1, c) /\ Own(t2, c)
    BY <2>1, <2>2, <2>3, ThroughEntry
  <2>5. CASE c \notin DOMAIN t2
    <3>1. p \notin DOMAIN t2 /\ p \in DOMAIN t1 /\ c \in DOMAIN t1
      BY <2>2, <2>3, <2>5, BelowOneSided
    <3>2. e = [name |-> p, status |-> {"DELETED"}] /\ p \in {c} \cup Below(t1, c)
      BY <2>1, <2>2, <3>1 DEF Status, Below, IsStrictPrefix
    <3>3. c \in Entries(t1, d) \ both /\ t1[c].dev = "own"
      BY <1>4, <2>2, <2>4, <2>5, <3>1 DEF Own
    <3>4. e \in Lonesome(t1, c, "DELETED")
      BY <3>2, <3>3 DEF Lonesome, Listed
    <3> QED BY <3>3, <3>4
  <2>6. CASE c \notin DOMAIN t1
    <3>1. p \notin DOMAIN t1 /\ p \in DOMAIN t2 /\ c \in DOMAIN t2
      BY <2>2, <2>3, <2>6, BelowOneSided
    <3>2. e = [name |-> p, status |-> {"CREATED"}] /\ p \in {c} \cup Below(t2, c)
      BY <2>1, <2>2, <3>1 DEF Status, Below, IsStrictPrefix
    <3>3. c \in Entries(t2, d) \ both /\ t2[c].dev = "own"
      BY <1>4, <2>2, <2>4, <2>6, <3>1 DEF Own
    <3>4. e \in Lonesome(t2, c, "CREATED")
      BY <3>2, <3>3 DEF Lonesome, Listed
    <3> QED BY <3>3, <3>4
  <2>7. CASE c \in DOMAIN t1 /\ c \in DOMAIN t2
    <3>1. c \in own
      BY <1>4, <2>2, <2>4, <2>7 DEF Own
    <3>2. CASE p = c
      <4>1. e = [name |-> c, status |-> CmpFiles(t1[c], t2[c])] /\ CmpFiles(t1[c], t2[c]) # {}
        BY <2>1, <2>7, <3>2 DEF Status
      <4>2. e \in Other
        BY <3>1, <4>1
      <4> QED BY <4>2
    <3>3. CASE p # c /\ t1[c].type # t2[c].type
      <4>1. IsStrictPrefix(c, p)
        BY <2>2, <3>3 DEF IsStrictPrefix
      <4>2. ~(p \in DOMAIN t1 /\ p \in DOMAIN t2)
        BY <2>7, <3>3, <4>1, BelowOneSided
      <4>3. e \in Listed(Below(t1, c), "DELETED") \cup Listed(Below(t2, c), "CREATED")
        BY <2>1, <4>1, <4>2 DEF Listed, Below, Status
      <4>4. c \in retyped
        BY <3>1, <3>3
      <4> QED BY <4>3, <4>4
    <3>4. CASE p # c /\ t1[c].type = t2[c].type
      <4>1. IsStrictPrefix(c, p)
        BY <2>2, <3>4 DEF IsStrictPrefix
      <4>2. t1[c].type = "dir"
        BY <2>7, <3>4, <4>1, BelowOneSided
      <4>3. BothDirs(t1, t2, c)
        BY <2>7, <3>4, <4>2 DEF BothDirs, IsDir
      <4>4. Reached(t1, t2, c, p)
        BY <2>1, <2>2, <2>3, <2>4, <4>3, ThroughEntry
      <4>5. e \in w[c]
        <5>1. e \in Found(t1, t2, c)
          BY <2>1, <4>1, <4>4, FoundMember
        <5> QED BY <2>2, <2>7, <5>1
      <4>6. c \in kept
        BY <3>1, <3>4, <4>2
      <4> QED BY <4>5, <4>6
    <3> QED BY <3>2, <3>3, <3>4
  <2> QED BY <2>5, <2>6, <2>7
<1> HIDE DEF Gone, New, Other, Within, Further
<1> QED BY <1>1, <1>5, <1>6, <1>8, <1>9, <1>10, <1>11

LEMMA FoundWorks ==
  ASSUME NEW t1, NEW t2, Tree(t1), Tree(t2)
  PROVE  Works(t1, t2, [d \in DOMAIN t1 \cup {<<>>} |-> Found(t1, t2, d)])
<1> DEFINE w == [d \in DOMAIN t1 \cup {<<>>} |-> Found(t1, t2, d)]
<1>1. \A c \in DOMAIN t1 : w[c] = Found(t1, t2, c)
  OBVIOUS
<1>2. \A d \in DOMAIN t1 \cup {<<>>} : d \in Seq(Nat)
  BY PathType, EmptySeq DEF Tree
<1>3. \A d \in DOMAIN t1 \cup {<<>>} : w[d] = Directory(t1, t2, w, d)
  <2> TAKE d \in DOMAIN t1 \cup {<<>>}
  <2>1. w[d] = Found(t1, t2, d)
    OBVIOUS
  <2> HIDE DEF w
  <2> QED BY <1>1, <1>2, <2>1, DirectoryFinds
<1>4. w = [d \in DOMAIN t1 \cup {<<>>} |-> Directory(t1, t2, w, d)]
  <2>1. w = [d \in DOMAIN t1 \cup {<<>>} |-> w[d]]
    OBVIOUS
  <2> HIDE DEF w
  <2> QED BY <1>3, <2>1
<1> QED BY <1>4 DEF Works

(* There is no other function: take a directory for which one differs      *)
(* that has the least number of files below it.                            *)
LEMMA OnlyFoundWorks ==
  ASSUME NEW t1, NEW t2, Tree(t1), Tree(t2), NEW w, Works(t1, t2, w)
  PROVE  w = [d \in DOMAIN t1 \cup {<<>>} |-> Found(t1, t2, d)]
<1> DEFINE Bad == {d \in DOMAIN t1 \cup {<<>>} : w[d] # Found(t1, t2, d)}
           Sizes == {Cardinality(Below(t1, d)) : d \in Bad}
<1>1. \A d \in DOMAIN t1 \cup {<<>>} : d \in Seq(Nat) /\ w[d] = Directory(t1, t2, w, d)
  BY PathType, EmptySeq DEF Tree, Works
<1>2. IsFiniteSet(DOMAIN t1)
  BY CompareConstants, FS_Subset DEF Tree
<1>3. \A d : IsFiniteSet(Below(t1, d)) /\ Cardinality(Below(t1, d)) \in Nat
  BY <1>2, FS_Subset, FS_CardinalityType DEF Below
<1>4. Bad = {}
  <2> SUFFICES ASSUME Bad # {} PROVE FALSE
    OBVIOUS
  <2>1. PICK n \in Sizes : \A m \in Sizes : n <= m
    <3>1. Sizes \in SUBSET Nat /\ Sizes # {}
      BY <1>3
    <3> HIDE DEF Sizes
    <3> QED BY <3>1, LeastNumber
  <2>2. PICK d \in Bad : \A c \in Bad : Cardinality(Below(t1, d)) <= Cardinality(Below(t1, c))
    BY <2>1
  <2>3. \A c \in DOMAIN t1 : Front(c) = d => w[c] = Found(t1, t2, c)
    <3> TAKE c \in DOMAIN t1
    <3> HAVE Front(c) = d
    <3>1. c \in Entries(t1, d) /\ d \in Seq(Nat) /\ c \in Seq(Nat)
      BY <1>1 DEF Entries
    <3>2. IsStrictPrefix(d, c) /\ c \in Below(t1, d)
      BY <3>1, Inside DEF Below
    <3>3. Below(t1, c) \in SUBSET (Below(t1, d) \ {c})
      <4>1. ASSUME NEW q \in Below(t1, c)
            PROVE  q \in Below(t1, d) /\ q # c
        <5>1. q \in DOMAIN t1 /\ q \in Seq(Nat) /\ IsStrictPrefix(c, q)
          BY <1>1, <4>1 DEF Below
        <5>2. IsStrictPrefix(d, q)
          BY <3>1, <3>2, <5>1, PrefixOrder, LenProperties DEF IsStrictPrefix
        <5> QED BY <5>1, <5>2 DEF Below, IsStrictPrefix
      <4> QED BY <4>1
    <3>4. Cardinality(Below(t1, c)) < Cardinality(Below(t1, d))
      <4>1. /\ IsFiniteSet(Below(t1, d) \ {c})
            /\ Cardinality(Below(t1, d) \ {c}) = Cardinality(Below(t1, d)) - 1
        BY <1>3, <3>2, FS_RemoveElement
      <4>2. Cardinality(Below(t1, c)) <= Cardinality(Below(t1, d) \ {c})
        BY <3>3, <4>1, FS_Subset
      <4> QED BY <1>3, <4>1, <4>2
    <3>5. c \notin Bad
      BY <1>3, <2>2, <3>4
    <3> QED BY <3>5
  <2>4. Directory(t1, t2, w, d) = Found(t1, t2, d)
    BY <1>1, <2>3, DirectoryFinds
  <2> QED BY <1>1, <2>4
<1>5. w = [d \in DOMAIN t1 \cup {<<>>} |-> w[d]]
  BY DEF Works
<1> QED BY <1>4, <1>5

(* A comparison directory by directory (CmpDirs, Compare.cc) lists exactly *)
(* the files that are in only one of the trees or that differ, each once   *)
(* and with all in which they differ, but for those on file systems that   *)
(* are mounted on the way: however the trees are nested, and also below    *)
(* what is a directory in only one of them.                                *)
THEOREM ComparisonIsExact ==
  ASSUME NEW t1, NEW t2, Tree(t1), Tree(t2)
  PROVE  CmpDirs(t1, t2) = ListOf(t1, t2, {p \in Differing(t1, t2) : Reached(t1, t2, <<>>, p)})
<1> DEFINE w == [d \in DOMAIN t1 \cup {<<>>} |-> Found(t1, t2, d)]
<1>1. Works(t1, t2, w)
  BY FoundWorks
<1>2. ASSUME NEW v, Works(t1, t2, v) PROVE v = w
  BY <1>2, OnlyFoundWorks
<1>3. w[<<>>] = Found(t1, t2, <<>>)
  OBVIOUS
<1> HIDE DEF w
<1>4. CmpDirs(t1, t2) = Found(t1, t2, <<>>)
  BY <1>1, <1>2, <1>3, CmpDirsIsWorker
<1>5. \A p \in Differing(t1, t2) : IsStrictPrefix(<<>>, p)
  BY PathType, EmptyPrefix DEF Differing, Tree, IsStrictPrefix
<1>6. {q \in Differing(t1, t2) : IsStrictPrefix(<<>>, q) /\ Reached(t1, t2, <<>>, q)}
        = {q \in Differing(t1, t2) : Reached(t1, t2, <<>>, q)}
  BY <1>5
<1> QED BY <1>4, <1>6 DEF Found, ListOf

-----------------------------------------------------------------------------
(* Saved lists                                                             *)

StatusLetters == {"CREATED", "DELETED", "TYPE", "CONTENT"}
Readable(status) ==
  /\ status \subseteq StatusLetters \cup {"PERMISSIONS", "OWNER"}
  /\ \A x, y \in status \cap StatusLetters : x = y

LEMMA LetterValues ==
  /\ Letter[1] = "CREATED" /\ Letter[2] = "DELETED" /\ Letter[3] = "TYPE" /\ Letter[4] = "CONTENT"
  /\ \A x \in StatusLetters : \E i \in 1..4 : Letter[i] = x
  /\ \A i \in 1..4 : Letter[i] \in StatusLetters
  /\ \A i, j \in 1..4 : Letter[i] = Letter[j] => i = j
<1>1. Letter[1] = "CREATED" /\ Letter[2] = "DELETED" /\ Letter[3] = "TYPE" /\ Letter[4] = "CONTENT"
  BY DEF Letter
<1>2. \A i \in 1..4 : i = 1 \/ i = 2 \/ i = 3 \/ i = 4
  OBVIOUS
<1> QED BY <1>1, <1>2 DEF StatusLetters

LEMMA ReadableReadsBack ==
  ASSUME NEW status, Readable(status)
  PROVE  ReadBack(status) = status
<1> DEFINE First == {j \in 1..4 : Letter[j] \in status /\ \A k \in 1..j-1 : Letter[k] \notin status}
<1>1. ReadBack(status) = {Letter[i] : i \in First} \cup (status \cap {"PERMISSIONS", "OWNER"})
  BY DEF ReadBack
<1>2. \A j \in 1..4 : \A k \in 1..j-1 : k \in 1..4 /\ k # j
  OBVIOUS
<1>3. ASSUME NEW x \in status \cap StatusLetters
      PROVE  \E i \in First : Letter[i] = x
  <2>1. PICK i \in 1..4 : Letter[i] = x
    BY LetterValues
  <2>2. \A k \in 1..i-1 : Letter[k] \notin status
    BY <1>2, <2>1, LetterValues DEF Readable
  <2> QED BY <2>1, <2>2
<1>4. {Letter[i] : i \in First} = status \cap StatusLetters
  BY <1>3, LetterValues
<1> QED BY <1>1, <1>4 DEF Readable

LEMMA StatusTurns ==
  ASSUME NEW t1, NEW t2, NEW p \in DOMAIN t1 \cup DOMAIN t2
  PROVE  /\ Readable(Status(t1, t2, p))
         /\ InvertStatus(Status(t1, t2, p)) = Status(t2, t1, p)
<1>1. CASE p \notin DOMAIN t2 \/ p \notin DOMAIN t1
  <2>1. \/ Status(t1, t2, p) = {"DELETED"} /\ Status(t2, t1, p) = {"CREATED"}
        \/ Status(t1, t2, p) = {"CREATED"} /\ Status(t2, t1, p) = {"DELETED"}
    BY <1>1 DEF Status
  <2>2. InvertStatus({"DELETED"}) = {"CREATED"} /\ InvertStatus({"CREATED"}) = {"DELETED"}
    BY DEF InvertStatus, Turned
  <2> QED BY <2>1, <2>2 DEF Readable, StatusLetters
<1>2. CASE p \in DOMAIN t2 /\ p \in DOMAIN t1
  <2>1. Status(t1, t2, p) = CmpFiles(t1[p], t2[p]) /\ Status(t2, t1, p) = CmpFiles(t2[p], t1[p])
    BY <1>2 DEF Status
  <2>2. CmpFiles(t1[p], t2[p]) = CmpFiles(t2[p], t1[p])
    BY DEF CmpFiles, CmpFilesContent
  <2>3. /\ CmpFiles(t1[p], t2[p]) \subseteq {"TYPE", "CONTENT", "PERMISSIONS", "OWNER"}
        /\ ~("TYPE" \in CmpFiles(t1[p], t2[p]) /\ "CONTENT" \in CmpFiles(t1[p], t2[p]))
    BY DEF CmpFiles
  <2>4. \A flag \in {"TYPE", "CONTENT", "PERMISSIONS", "OWNER"} : Turned(flag) = flag
    BY DEF Turned
  <2>5. InvertStatus(CmpFiles(t1[p], t2[p])) = CmpFiles(t1[p], t2[p])
    BY <2>3, <2>4 DEF InvertStatus
  <2>6. Readable(CmpFiles(t1[p], t2[p]))
    BY <2>3 DEF Readable, StatusLetters
  <2> QED BY <2>1, <2>2, <2>5, <2>6
<1> QED BY <1>1, <1>2

LEMMA ListTurns ==
  ASSUME NEW t1, NEW t2, NEW P \in SUBSET (DOMAIN t1 \cup DOMAIN t2), NEW a \in BOOLEAN, NEW b \in BOOLEAN
  PROVE  Load(Save(ListOf(t1, t2, P), a), b) =
           IF a = b THEN ListOf(t1, t2, P) ELSE ListOf(t2, t1, P)
<1> DEFINE Saved(p) == [name |-> p, status |-> IF a THEN Status(t2, t1, p) ELSE Status(t1, t2, p)]
           Loaded(p) == [name |-> p, status |-> IF a = b THEN Status(t1, t2, p) ELSE Status(t2, t1, p)]
<1>1. \A p \in P : /\ Readable(Status(t1, t2, p)) /\ Readable(Status(t2, t1, p))
                   /\ InvertStatus(Status(t1, t2, p)) = Status(t2, t1, p)
                   /\ InvertStatus(Status(t2, t1, p)) = Status(t1, t2, p)
  BY StatusTurns
<1>2. Save(ListOf(t1, t2, P), a) = {Saved(p) : p \in P}
  <2>1. \A p \in P : [Entry(t1, t2, p) EXCEPT !.status = IF a THEN InvertStatus(@) ELSE @] = Saved(p)
    BY <1>1 DEF Entry
  <2> HIDE DEF Saved
  <2> QED BY <2>1 DEF Save, ListOf
<1>3. Load({Saved(p) : p \in P}, b) = {Loaded(p) : p \in P}
  <2>1. ASSUME NEW p \in P
        PROVE  [Saved(p) EXCEPT !.status = IF b THEN InvertStatus(ReadBack(@)) ELSE ReadBack(@)] = Loaded(p)
    <3> DEFINE st == IF a THEN Status(t2, t1, p) ELSE Status(t1, t2, p)
    <3>1. ReadBack(st) = st
      BY <1>1, ReadableReadsBack
    <3>2. InvertStatus(st) = IF a THEN Status(t1, t2, p) ELSE Status(t2, t1, p)
      BY <1>1
    <3>3. (IF b THEN InvertStatus(ReadBack(st)) ELSE ReadBack(st))
             = IF a = b THEN Status(t1, t2, p) ELSE Status(t2, t1, p)
      BY <3>1, <3>2
    <3> HIDE DEF st
    <3>4. [[name |-> p, status |-> st] EXCEPT !.status = IF b THEN InvertStatus(ReadBack(@)) ELSE ReadBack(@)]
            = [name |-> p, status |-> IF b THEN InvertStatus(ReadBack(st)) ELSE ReadBack(st)]
      OBVIOUS
    <3> QED BY <3>3, <3>4 DEF st
  <2> HIDE DEF Saved, Loaded
  <2> QED BY <2>1 DEF Load
<1>4. CASE a = b
  BY <1>2, <1>3, <1>4 DEF Entry, ListOf
<1>5. CASE a # b
  BY <1>2, <1>3, <1>5 DEF Entry, ListOf
<1> QED BY <1>4, <1>5

(* A list that was saved beside the later snapshot (Comparison::save) and  *)
(* is loaded for either order of the two (Comparison::load) is the one a   *)
(* comparison in that order gives: the one letter that is written for the  *)
(* type of a change, and turning the status round once or twice, lose      *)
(* nothing.                                                                *)
THEOREM SavedListsReturn ==
  ASSUME NEW t1, NEW t2, Tree(t1), Tree(t2), NEW a \in BOOLEAN, NEW b \in BOOLEAN
  PROVE  Load(Save(CmpDirs(t1, t2), a), b) = IF a = b THEN CmpDirs(t1, t2) ELSE CmpDirs(t2, t1)
<1> DEFINE P == {q \in Differing(t1, t2) : Reached(t1, t2, <<>>, q)}
           Q == {q \in Differing(t2, t1) : Reached(t2, t1, <<>>, q)}
<1>1. \A p \in DOMAIN t1 \cup DOMAIN t2 : Status(t1, t2, p) = {} <=> Status(t2, t1, p) = {}
  BY StatusTurns DEF InvertStatus
<1>2. \A p : Reached(t1, t2, <<>>, p) <=> Reached(t2, t1, <<>>, p)
  BY DEF Reached, BothDirs
<1>3. P = Q
  BY <1>1, <1>2 DEF Differing
<1>4. CmpDirs(t1, t2) = ListOf(t1, t2, P) /\ CmpDirs(t2, t1) = ListOf(t2, t1, P)
  BY <1>3, ComparisonIsExact
<1>5. P \in SUBSET (DOMAIN t1 \cup DOMAIN t2)
  BY DEF Differing
<1> HIDE DEF P, Q
<1> QED BY <1>4, <1>5, ListTurns

-----------------------------------------------------------------------------
(* The order of names                                                      *)

(* i is the first place at which p and q are different, and there p comes  *)
(* first, or ends.                                                         *)
Parting(p, q, i) ==
  /\ i <= Len(q) /\ i - 1 <= Len(p)
  /\ \A j \in 1..i-1 : p[j] = q[j]
  /\ i <= Len(p) => p[i] < q[i]

LEMMA BeforeMeans ==
  ASSUME NEW p \in Seq(Nat), NEW q \in Seq(Nat)
  PROVE  Before(p, q) <=> \E i \in Nat \ {0} : Parting(p, q, i)
<1>1. Len(p) \in Nat /\ Len(q) \in Nat
  BY LenProperties
<1>2. ASSUME IsStrictPrefix(p, q)
      PROVE  Parting(p, q, Len(p) + 1)
  <2>1. Len(p) < Len(q) /\ \A j \in 1..Len(p) : p[j] = q[j]
    BY <1>1, <1>2, PrefixOrder, PrefixMeans
  <2> QED BY <1>1, <2>1 DEF Parting
<1>3. ASSUME NEW i \in 1..Len(p), i <= Len(q), p[i] < q[i], \A j \in 1..i-1 : p[j] = q[j]
      PROVE  Parting(p, q, i)
  BY <1>1, <1>3 DEF Parting
<1>4. ASSUME NEW i \in Nat \ {0}, Parting(p, q, i)
      PROVE  Before(p, q)
  <2>1. CASE i <= Len(p)
    BY <1>1, <1>4, <2>1 DEF Before, Parting
  <2>2. CASE i = Len(p) + 1
    <3>1. IsPrefix(p, q) /\ Len(p) < Len(q)
      BY <1>1, <1>4, <2>2, PrefixMeans DEF Parting
    <3> QED BY <3>1, PrefixOrder DEF Before
  <2> QED BY <1>1, <1>4, <2>1, <2>2 DEF Parting
<1>5. ASSUME Before(p, q)
      PROVE  \E i \in Nat \ {0} : Parting(p, q, i)
  <2>1. CASE IsStrictPrefix(p, q)
    BY <1>1, <1>2, <2>1
  <2>2. CASE ~IsStrictPrefix(p, q)
    <3>1. PICK i \in 1..Len(p) : i <= Len(q) /\ p[i] < q[i] /\ \A j \in 1..i-1 : p[j] = q[j]
      BY <1>5, <2>2 DEF Before
    <3> QED BY <1>1, <1>3, <3>1
  <2> QED BY <2>1, <2>2
<1> QED BY <1>4, <1>5

LEMMA BeforeOrders ==
  ASSUME NEW p \in Seq(Nat), NEW q \in Seq(Nat)
  PROVE  /\ ~Before(p, p)
         /\ p # q => Before(p, q) \/ Before(q, p)
         /\ \A r \in Seq(Nat) : Before(p, q) /\ Before(q, r) => Before(p, r)
<1>1. Len(p) \in Nat /\ Len(q) \in Nat /\ \A i \in 1..Len(p) : p[i] \in Nat
  BY LenProperties, ElementOfSeq
<1>2. \A i \in 1..Len(q) : q[i] \in Nat
  BY ElementOfSeq
<1>3. ~Before(p, p)
  <2>1. \A i \in Nat \ {0} : ~Parting(p, p, i)
    BY <1>1 DEF Parting
  <2> QED BY <2>1, BeforeMeans
<1>4. ASSUME p # q
      PROVE  Before(p, q) \/ Before(q, p)
  <2> DEFINE Apart == {i \in Nat \ {0} : i > Len(p) \/ i > Len(q) \/ p[i] # q[i]}
  <2>1. Apart \in SUBSET Nat /\ Len(p) + 1 \in Apart
    BY <1>1
  <2>2. PICK i \in Apart : \A j \in Apart : i <= j
    <3> HIDE DEF Apart
    <3> QED BY <2>1, LeastNumber
  <2>3. \A j \in 1..i-1 : j <= Len(p) /\ j <= Len(q) /\ p[j] = q[j]
    <3> TAKE j \in 1..i-1
    <3>1. j \notin Apart /\ j \in Nat \ {0}
      BY <2>2
    <3> QED BY <3>1
  <2>4. i - 1 <= Len(p) /\ i - 1 <= Len(q)
    BY <1>1, <2>3
  <2>5. CASE i <= Len(p) /\ i <= Len(q)
    <3>1. p[i] < q[i] \/ q[i] < p[i]
      BY <1>1, <1>2, <2>5
    <3>2. Parting(p, q, i) \/ Parting(q, p, i)
      BY <1>1, <2>3, <2>5, <3>1 DEF Parting
    <3> QED BY <3>2, BeforeMeans
  <2>6. CASE i > Len(p) /\ i <= Len(q)
    <3>1. Parting(p, q, i)
      BY <1>1, <2>3, <2>4, <2>6 DEF Parting
    <3> QED BY <3>1, BeforeMeans
  <2>7. CASE i > Len(q) /\ i <= Len(p)
    <3>1. Parting(q, p, i)
      BY <1>1, <2>3, <2>4, <2>7 DEF Parting
    <3> QED BY <3>1, BeforeMeans
  <2>8. CASE i > Len(q) /\ i > Len(p)
    <3>1. Len(p) = Len(q) /\ Len(p) = i - 1
      BY <1>1, <2>4, <2>8
    <3>2. p = q
      BY <2>3, <3>1, SeqEqual
    <3> QED BY <1>4, <3>2
  <2> QED BY <1>1, <2>5, <2>6, <2>7, <2>8
<1>5. ASSUME NEW r \in Seq(Nat), Before(p, q), Before(q, r)
      PROVE  Before(p, r)
  <2>1. Len(r) \in Nat /\ \A i \in 1..Len(r) : r[i] \in Nat
    BY LenProperties, ElementOfSeq
  <2>2. PICK i \in Nat \ {0} : Parting(p, q, i)
    BY <1>5, BeforeMeans
  <2>3. PICK k \in Nat \ {0} : Parting(q, r, k)
    BY <1>5, BeforeMeans
  <2>4. CASE i <= k
    <3>1. i <= Len(r) /\ i - 1 <= Len(p) /\ i <= Len(q)
      BY <1>1, <2>1, <2>2, <2>3, <2>4 DEF Parting
    <3>2. \A j \in 1..i-1 : p[j] = q[j] /\ q[j] = r[j]
      <4>1. \A j \in 1..i-1 : j \in 1..k-1
        BY <2>4
      <4> QED BY <2>2, <2>3, <4>1 DEF Parting
    <3>3. i <= Len(p) => p[i] < r[i]
      <4>1. i <= Len(p) => p[i] < q[i]
        BY <2>2 DEF Parting
      <4>2. CASE i < k
        <5>1. q[i] = r[i]
          BY <2>3, <4>2 DEF Parting
        <5> QED BY <4>1, <5>1
      <4>3. CASE i = k
        <5>1. q[i] < r[i]
          BY <2>3, <3>1, <4>3 DEF Parting
        <5> SUFFICES ASSUME i <= Len(p) PROVE p[i] < r[i]
          OBVIOUS
        <5>2. p[i] < q[i]
          BY <4>1
        <5>3. i \in 1..Len(p) /\ i \in 1..Len(q) /\ i \in 1..Len(r)
          BY <1>1, <2>1, <3>1
        <5>4. p[i] \in Nat /\ q[i] \in Nat /\ r[i] \in Nat
          BY <1>1, <1>2, <2>1, <5>3
        <5>5. \A x, y, z \in Nat : x < y /\ y < z => x < z
          OBVIOUS
        <5> QED BY ONLY <5>1, <5>2, <5>4, <5>5
      <4> QED BY <2>4, <4>2, <4>3
    <3>4. Parting(p, r, i)
      BY <3>1, <3>2, <3>3 DEF Parting
    <3> QED BY <3>4, BeforeMeans
  <2>5. CASE k < i
    <3>1. /\ k <= Len(r) /\ k <= Len(q) /\ k <= Len(p) /\ k - 1 <= Len(p)
          /\ p[k] = q[k] /\ q[k] < r[k]
      <4>1. k <= Len(r) /\ (k <= Len(q) => q[k] < r[k])
        BY <2>3 DEF Parting
      <4>2. i <= Len(q) /\ i - 1 <= Len(p) /\ \A j \in 1..i-1 : p[j] = q[j]
        BY <2>2 DEF Parting
      <4>3. k \in 1..i-1 /\ k <= Len(q) /\ k <= Len(p) /\ k - 1 <= Len(p)
        BY <1>1, <2>5, <4>2
      <4> QED BY <4>1, <4>2, <4>3
    <3>2. \A j \in 1..k-1 : p[j] = r[j]
      <4>1. \A j \in 1..k-1 : j \in 1..i-1
        BY <2>5
      <4> QED BY <2>2, <2>3, <4>1 DEF Parting
    <3>3. p[k] < r[k]
      BY <3>1
    <3>4. Parting(p, r, k)
      BY <3>1, <3>2, <3>3 DEF Parting
    <3> QED BY <3>4, BeforeMeans
  <2> QED BY <2>4, <2>5
<1> QED BY <1>3, <1>4, <1>5

(* How many of the names in P come before p                                *)
Rank(P, p) == Cardinality({q \in P : Before(q, p)})

LEMMA RankGrows ==
  ASSUME NEW P \in SUBSET Seq(Nat), IsFiniteSet(P), NEW p \in P
  PROVE  /\ Rank(P, p) \in 0..Cardinality(P)-1
         /\ \A q \in P : Before(q, p) => Rank(P, q) < Rank(P, p)
<1> DEFINE Earlier(q) == {r \in P : Before(r, q)}
<1>1. \A q \in P : IsFiniteSet(Earlier(q)) /\ Cardinality(Earlier(q)) \in Nat
  BY FS_Subset, FS_CardinalityType
<1>2. Cardinality(P \ {p}) = Cardinality(P) - 1 /\ IsFiniteSet(P \ {p}) /\ Cardinality(P) \in Nat
  BY FS_RemoveElement, FS_CardinalityType
<1>3. Earlier(p) \in SUBSET (P \ {p})
  BY BeforeOrders
<1>4. Cardinality(Earlier(p)) <= Cardinality(P) - 1
  BY <1>2, <1>3, FS_Subset
<1>5. ASSUME NEW q \in P, Before(q, p)
      PROVE  Cardinality(Earlier(q)) < Cardinality(Earlier(p))
  <2>1. Earlier(q) \in SUBSET (Earlier(p) \ {q}) /\ q \in Earlier(p)
    BY <1>5, BeforeOrders
  <2>2. /\ IsFiniteSet(Earlier(p) \ {q})
        /\ Cardinality(Earlier(p) \ {q}) = Cardinality(Earlier(p)) - 1
    BY <1>1, <2>1, FS_RemoveElement
  <2>3. Cardinality(Earlier(q)) <= Cardinality(Earlier(p) \ {q})
    BY <2>1, <2>2, FS_Subset
  <2> HIDE DEF Earlier
  <2> QED BY <1>1, <2>2, <2>3
<1>6. \A q : Rank(P, q) = Cardinality(Earlier(q))
  BY DEF Rank
<1> HIDE DEF Earlier
<1> QED BY <1>1, <1>2, <1>4, <1>5, <1>6

(* Files::sort: InOrder enumerates the names in P, each once and in order. *)
LEMMA InOrderEnumerates ==
  ASSUME NEW P \in SUBSET Seq(Nat), IsFiniteSet(P)
  PROVE  /\ Cardinality(P) \in Nat
         /\ InOrder(P) \in [1..Cardinality(P) -> P] /\ InOrder(P) \in Seq(P) /\ Len(InOrder(P)) = Cardinality(P)
         /\ \A p \in P : \E i \in 1..Cardinality(P) : InOrder(P)[i] = p
         /\ \A i, j \in 1..Cardinality(P) : i < j => Before(InOrder(P)[i], InOrder(P)[j])
<1> DEFINE n == Cardinality(P)
           rank == [p \in P |-> Rank(P, p)]
<1>1. n \in Nat
  BY FS_CardinalityType
<1>2. \A p \in P : Rank(P, p) \in 0..n-1
  BY RankGrows
<1>3. \A p, q \in P : Rank(P, p) = Rank(P, q) => p = q
  <2> TAKE p, q \in P
  <2>1. Before(q, p) => Rank(P, q) < Rank(P, p)
    BY RankGrows
  <2>2. Before(p, q) => Rank(P, p) < Rank(P, q)
    BY RankGrows
  <2>3. p # q => Before(p, q) \/ Before(q, p)
    BY BeforeOrders
  <2> QED BY <1>1, <1>2, <2>1, <2>2, <2>3
<1>4. rank \in Surjection(P, 0..n-1)
  <2>1. rank \in Injection(P, 0..n-1)
    BY <1>2, <1>3 DEF Injection, IsInjective
  <2>2. IsFiniteSet(0..n-1) /\ Cardinality(0..n-1) = n
    BY <1>1, FS_Interval
  <2> QED BY <2>1, <2>2, FS_Injection
<1>5. ASSUME NEW i \in 1..n
      PROVE  InOrder(P)[i] \in P /\ Rank(P, InOrder(P)[i]) = i - 1
  <2>1. i - 1 \in 0..n-1
    BY <1>1
  <2>2. \E p \in P : Rank(P, p) = i - 1
    BY <1>4, <2>1 DEF Surjection
  <2>3. InOrder(P)[i] = CHOOSE p \in P : Rank(P, p) = i - 1
    BY DEF InOrder, Rank
  <2> QED BY <2>2, <2>3
<1>6. DOMAIN InOrder(P) = 1..n /\ InOrder(P) = [i \in 1..n |-> InOrder(P)[i]]
  <2> DEFINE at(i) == CHOOSE p \in P : Cardinality({q \in P : Before(q, p)}) = i - 1
  <2>1. InOrder(P) = [i \in 1..n |-> at(i)]
    BY DEF InOrder
  <2> HIDE DEF at
  <2> QED BY <2>1
<1>7. InOrder(P) \in [1..n -> P]
  BY <1>5, <1>6
<1>8. InOrder(P) \in Seq(P) /\ Len(InOrder(P)) = n
  <2>1. InOrder(P) \in Seq(P)
    BY <1>1, <1>7, SeqDef
  <2> QED BY <1>1, <1>6, <2>1, LenProperties
<1>9. ASSUME NEW p \in P
      PROVE  \E i \in 1..n : InOrder(P)[i] = p
  <2>1. Rank(P, p) + 1 \in 1..n
    BY <1>1, <1>2
  <2>2. InOrder(P)[Rank(P, p) + 1] \in P /\ Rank(P, InOrder(P)[Rank(P, p) + 1]) = Rank(P, p)
    BY <1>2, <1>5, <2>1
  <2> QED BY <1>3, <2>1, <2>2
<1>10. ASSUME NEW i \in 1..n, NEW j \in 1..n, i < j
       PROVE  Before(InOrder(P)[i], InOrder(P)[j])
  <2> DEFINE p == InOrder(P)[i]
             q == InOrder(P)[j]
  <2>1. p \in P /\ q \in P /\ Rank(P, p) < Rank(P, q)
    BY <1>1, <1>5, <1>10
  <2> HIDE DEF p, q
  <2>2. Before(q, p) => Rank(P, q) < Rank(P, p)
    BY <2>1, RankGrows
  <2>3. p # q => Before(p, q) \/ Before(q, p)
    BY <2>1, BeforeOrders
  <2>4. Before(p, q)
    BY <1>1, <1>2, <2>1, <2>2, <2>3
  <2> QED BY <2>4 DEF p, q
<1> HIDE DEF n
<1>11. QED
  BY <1>1, <1>7, <1>8, <1>9, <1>10 DEF n

LEMMA ReverseProperties ==
  ASSUME NEW S, NEW s \in Seq(S)
  PROVE  /\ Reverse(s) \in Seq(S) /\ Len(Reverse(s)) = Len(s)
         /\ \A i \in 1..Len(s) : Reverse(s)[i] = s[Len(s) - i + 1]
<1>1. Len(s) \in Nat /\ \A i \in 1..Len(s) : s[Len(s) - i + 1] \in S
  BY LenProperties, ElementOfSeq
<1>2. Reverse(s) = [i \in 1..Len(s) |-> s[Len(s) - i + 1]]
  BY DEF Reverse
<1>3. Reverse(s) \in [1..Len(s) -> S]
  BY <1>1, <1>2
<1>4. Reverse(s) \in Seq(S)
  BY <1>1, <1>3, SeqDef
<1>5. DOMAIN Reverse(s) = 1..Len(Reverse(s)) /\ Len(Reverse(s)) \in Nat /\ DOMAIN Reverse(s) = 1..Len(s)
  BY <1>2, <1>4, LenProperties
<1>6. Len(Reverse(s)) = Len(s)
  BY <1>1, <1>5
<1> QED BY <1>2, <1>4, <1>6

Names(chosen) == {e.name : e \in chosen}
New(chosen) == {e.name : e \in {f \in chosen : f.status = {"CREATED"}}}

(* p may be undone before q.                                               *)
Precedes(new, p, q) ==
  IF q \in new THEN p \in new /\ Before(q, p) ELSE p \in new \/ Before(p, q)
InTurn(new, s) == \A i, j \in 1..Len(s) : i < j => Precedes(new, s[i], s[j])

(* The steps of an undo (Files::getUndoSteps) are the chosen files, each   *)
(* once: first what was created, what is in a directory before the         *)
(* directory; then the rest, a directory before what is in it.             *)
THEOREM UndoStepsComeInTurn ==
  ASSUME NEW chosen, Names(chosen) \subseteq Seq(Nat), IsFiniteSet(Names(chosen))
  PROVE  /\ UndoSteps(chosen) \in Seq(Names(chosen))
         /\ \A p \in Names(chosen) : \E i \in 1..Len(UndoSteps(chosen)) : UndoSteps(chosen)[i] = p
         /\ \A i, j \in 1..Len(UndoSteps(chosen)) : UndoSteps(chosen)[i] = UndoSteps(chosen)[j] => i = j
         /\ InTurn(New(chosen), UndoSteps(chosen))
<1> DEFINE all == Names(chosen)
           new == New(chosen)
           rest == all \ new
           first == Reverse(InOrder(new))
           last == InOrder(rest)
           s == UndoSteps(chosen)
           m == Cardinality(new)
           n == Cardinality(rest)
<1>1. new \in SUBSET all /\ all \in SUBSET Seq(Nat)
  BY DEF New, Names
<1>2. IsFiniteSet(new) /\ IsFiniteSet(rest) /\ new \in SUBSET Seq(Nat) /\ rest \in SUBSET Seq(Nat)
  <2>1. rest \in SUBSET all
    OBVIOUS
  <2> QED BY <1>1, <2>1, FS_Subset
<1>3. s = first \o last
  BY DEF UndoSteps, New, Names
<1> HIDE DEF all, new, s
<1>4. /\ m \in Nat /\ first \in Seq(all) /\ Len(first) = m
      /\ \A i \in 1..m : first[i] \in new
      /\ \A p \in new : \E i \in 1..m : first[i] = p
      /\ \A i, j \in 1..m : i < j => Before(first[j], first[i])
  <2> DEFINE g == InOrder(new)
  <2>1. /\ m \in Nat /\ g \in Seq(new) /\ Len(g) = m /\ g \in [1..m -> new]
        /\ \A p \in new : \E i \in 1..m : g[i] = p
        /\ \A i, j \in 1..m : i < j => Before(g[i], g[j])
    BY <1>2, InOrderEnumerates
  <2> HIDE DEF g, m
  <2>2. Reverse(g) \in Seq(new) /\ Len(Reverse(g)) = m /\ \A i \in 1..m : Reverse(g)[i] = g[m - i + 1]
    BY <2>1, ReverseProperties
  <2>3. \A i \in 1..m : m - i + 1 \in 1..m /\ m - (m - i + 1) + 1 = i
    BY <2>1
  <2>4. Reverse(g) \in Seq(all)
    BY <1>1, <2>2, SeqMonotonic
  <2>5. \A i \in 1..m : Reverse(g)[i] \in new
    BY <2>1, <2>2, <2>3
  <2>6. \A p \in new : \E i \in 1..m : Reverse(g)[i] = p
    <3> TAKE p \in new
    <3>1. PICK k \in 1..m : g[k] = p
      BY <2>1
    <3> QED BY <2>2, <2>3, <3>1
  <2>7. ASSUME NEW i \in 1..m, NEW j \in 1..m, i < j
        PROVE  Before(Reverse(g)[j], Reverse(g)[i])
    <3>1. m - j + 1 < m - i + 1
      BY <2>1, <2>7
    <3> QED BY <2>1, <2>2, <2>3, <3>1
  <2> QED BY <2>1, <2>2, <2>4, <2>5, <2>6, <2>7 DEF g
<1>5. /\ n \in Nat /\ last \in Seq(all) /\ Len(last) = n
      /\ \A i \in 1..n : last[i] \in rest
      /\ \A p \in rest : \E i \in 1..n : last[i] = p
      /\ \A i, j \in 1..n : i < j => Before(last[i], last[j])
  <2>1. /\ n \in Nat /\ last \in Seq(rest) /\ Len(last) = n /\ last \in [1..n -> rest]
        /\ \A p \in rest : \E i \in 1..n : last[i] = p
        /\ \A i, j \in 1..n : i < j => Before(last[i], last[j])
    BY <1>2, InOrderEnumerates
  <2>2. last \in Seq(all)
    <3>1. rest \subseteq all
      OBVIOUS
    <3> HIDE DEF last, rest
    <3> QED BY <2>1, <3>1, SeqMonotonic
  <2> QED BY <2>1, <2>2
<1> HIDE DEF first, last, m, n
<1>6. /\ s \in Seq(all) /\ Len(s) = m + n
      /\ \A i \in 1..m+n : s[i] = IF i <= m THEN first[i] ELSE last[i - m]
  <2>1. /\ first \o last \in Seq(all) /\ Len(first \o last) = Len(first) + Len(last)
        /\ \A i \in 1..Len(first) + Len(last) :
             (first \o last)[i] = IF i <= Len(first) THEN first[i] ELSE last[i - Len(first)]
    <3>1. first \in Seq(all) /\ last \in Seq(all)
      BY <1>4, <1>5
    <3> QED BY <3>1, ConcatProperties
  <2> QED BY <1>3, <1>4, <1>5, <2>1
<1>7. \A i \in 1..m+n : /\ i <= m => i \in 1..m /\ s[i] = first[i]
                        /\ i > m => i - m \in 1..n /\ s[i] = last[i - m]
  BY <1>4, <1>5, <1>6
<1>8. ASSUME NEW p \in all
      PROVE  \E i \in 1..Len(s) : s[i] = p
  <2>1. CASE p \in new
    <3>1. PICK i \in 1..m : first[i] = p
      BY <1>4, <2>1
    <3>2. i \in 1..m+n /\ i <= m
      BY <1>4, <1>5
    <3> QED BY <1>6, <1>7, <3>1, <3>2
  <2>2. CASE p \notin new
    <3>1. PICK i \in 1..n : last[i] = p
      BY <1>5, <2>2
    <3>2. i + m \in 1..m+n /\ i + m > m /\ (i + m) - m = i
      BY <1>4, <1>5
    <3> QED BY <1>6, <1>7, <3>1, <3>2
  <2> QED BY <2>1, <2>2
<1>9. InTurn(new, s)
  <2> SUFFICES ASSUME NEW i \in 1..m+n, NEW j \in 1..m+n, i < j
               PROVE  Precedes(new, s[i], s[j])
    BY <1>6 DEF InTurn
  <2>1. CASE j <= m
    <3>1. s[i] = first[i] /\ s[j] = first[j] /\ i \in 1..m /\ j \in 1..m
      BY <1>4, <1>5, <1>7, <2>1
    <3> QED BY <1>4, <3>1 DEF Precedes
  <2>2. CASE i <= m /\ j > m
    <3>1. s[i] \in new /\ s[j] \notin new
      BY <1>4, <1>5, <1>7, <2>2
    <3> QED BY <3>1 DEF Precedes
  <2>3. CASE i > m
    <3>1. s[i] = last[i - m] /\ s[j] = last[j - m] /\ i - m \in 1..n /\ j - m \in 1..n /\ i - m < j - m
      BY <1>4, <1>5, <1>7, <2>3
    <3>2. s[j] \notin new /\ Before(s[i], s[j])
      BY <1>5, <3>1
    <3> QED BY <3>2 DEF Precedes
  <2> QED BY <1>4, <1>5, <2>1, <2>2, <2>3
<1>10. ASSUME NEW i \in 1..Len(s), NEW j \in 1..Len(s), s[i] = s[j]
       PROVE  i = j
  <2>1. s[i] \in Seq(Nat) /\ Len(s) \in Nat
    BY <1>1, <1>6, ElementOfSeq, LenProperties
  <2>2. ~Precedes(new, s[i], s[i])
    BY <2>1, BeforeOrders DEF Precedes
  <2> QED BY <1>9, <1>10, <2>1, <2>2 DEF InTurn
<1> QED BY <1>6, <1>8, <1>9, <1>10 DEF all, new, s

-----------------------------------------------------------------------------
(* What a call does to a file all directories above which are there        *)

InDirs(t, p) == \A q \in Seq(Nat) \ {<<>>} : IsStrictPrefix(q, p) => q \in DOMAIN t /\ t[q].type = "dir"
Having(t, p, node) == [q \in DOMAIN t \cup {p} |-> IF q = p THEN node ELSE t[q]]
Without(t, p) == [q \in DOMAIN t \ {p} |-> t[q]]

LEMMA HavingNode ==
  ASSUME NEW t, NEW p, NEW n
  PROVE  /\ Having(t, p, n)[p] = n /\ DOMAIN Having(t, p, n) = DOMAIN t \cup {p}
         /\ p \in DOMAIN Having(t, p, n)
         /\ InDirs(t, p) => InDirs(Having(t, p, n), p)
BY DEF Having, InDirs, IsStrictPrefix

LEMMA HavingAt == \A t, p, n : Having(t, p, n)[p] = n
BY DEF Having

LEMMA HavingTwice ==
  ASSUME NEW t, NEW p, NEW n, NEW m
  PROVE  Having(Having(t, p, n), p, m) = Having(t, p, m)
BY DEF Having

LEMMA HavingWithout ==
  ASSUME NEW t, NEW p
  PROVE  /\ p \notin DOMAIN Without(t, p)
         /\ InDirs(t, p) => InDirs(Without(t, p), p)
         /\ \A n : Having(Without(t, p), p, n) = Having(t, p, n)
BY DEF Having, InDirs, Without, IsStrictPrefix

(* No link is on the way.                                                  *)
Resolved(t, p, real) ==
  real = [i \in 1..Len(p) |-> IF i = 1 THEN <<p[1]>> ELSE Append(Follow(t, real[i - 1]), p[i])]

LEMMA StepsOfPath ==
  ASSUME NEW p \in Seq(Nat) \ {<<>>}
  PROVE  /\ Len(p) \in Nat \ {0}
         /\ SubSeq(p, 1, 1) = <<p[1]>> /\ SubSeq(p, 1, Len(p)) = p
         /\ \A i \in 2..Len(p) : Append(SubSeq(p, 1, i - 1), p[i]) = SubSeq(p, 1, i)
<1>1. Len(p) \in Nat /\ Len(p) > 0 /\ \A i \in 1..Len(p) : p[i] \in Nat
  BY LenProperties, EmptyPrefix, ElementOfSeq
<1>2. SubSeq(p, 1, Len(p)) = p
  BY SubSeqFull
<1>3. SubSeq(p, 1, 1) = <<p[1]>>
  <2> DEFINE u == SubSeq(p, 1, 1)
  <2>1. u \in Seq(Nat) /\ Len(u) = 1 /\ \A i \in 1..1 : u[i] = p[i]
    BY <1>1, UpTo
  <2>2. <<p[1]>> \in Seq(Nat) /\ Len(<<p[1]>>) = 1 /\ <<p[1]>>[1] = p[1]
    BY <1>1
  <2> HIDE DEF u
  <2>3. u[1] = p[1]
    BY <2>1
  <2>4. u = <<p[1]>>
    BY <2>1, <2>2, <2>3, SeqEqual
  <2> QED BY <2>4 DEF u
<1>4. ASSUME NEW i \in 2..Len(p)
      PROVE  Append(SubSeq(p, 1, i - 1), p[i]) = SubSeq(p, 1, i)
  <2> DEFINE u == SubSeq(p, 1, i - 1)
             v == SubSeq(p, 1, i)
             a == Append(u, p[i])
  <2>1. i - 1 \in 0..Len(p) /\ i \in 0..Len(p) /\ i \in 1..Len(p)
    BY <1>1
  <2>2. u \in Seq(Nat) /\ Len(u) = i - 1 /\ \A j \in 1..i-1 : u[j] = p[j]
    BY <2>1, UpTo
  <2>3. v \in Seq(Nat) /\ Len(v) = i /\ \A j \in 1..i : v[j] = p[j]
    BY <2>1, UpTo
  <2>4. p[i] \in Nat
    BY <1>1, <2>1
  <2> HIDE DEF u, v
  <2>5. a \in Seq(Nat) /\ Len(a) = Len(u) + 1 /\ (\A j \in 1..Len(u) : a[j] = u[j]) /\ a[Len(u) + 1] = p[i]
    BY <2>2, <2>4, AppendProperties
  <2> HIDE DEF a
  <2>6. Len(a) = i /\ \A j \in 1..i : a[j] = v[j]
    <3>1. Len(a) = i
      BY <2>2, <2>5
    <3>2. ASSUME NEW j \in 1..i
          PROVE  a[j] = v[j]
      <4>1. CASE j = i
        <5>1. a[i] = p[i] /\ v[i] = p[i]
          BY <2>1, <2>2, <2>3, <2>5
        <5> QED BY <4>1, <5>1
      <4>2. CASE j # i
        <5>1. j \in 1..i-1
          BY <4>2
        <5>2. a[j] = p[j] /\ v[j] = p[j]
          BY <2>2, <2>3, <2>5, <5>1
        <5> QED BY <5>2
      <4> QED BY <4>1, <4>2
    <3> QED BY <3>1, <3>2
  <2>7. a = v
    BY <2>3, <2>5, <2>6, SeqEqual
  <2> QED BY <2>7 DEF a, u, v
<1> QED BY <1>1, <1>2, <1>3, <1>4

LEMMA RealIsPath ==
  ASSUME NEW t, NEW p \in Seq(Nat) \ {<<>>}, InDirs(t, p)
  PROVE  Real(t, p) = p
<1> DEFINE w == [i \in 1..Len(p) |-> SubSeq(p, 1, i)]
<1>1. Len(p) \in Nat \ {0} /\ w[1] = <<p[1]>> /\ w[Len(p)] = p
      /\ \A i \in 2..Len(p) : Append(w[i - 1], p[i]) = w[i]
  BY StepsOfPath
<1>2. \A i \in 1..Len(p)-1 : Follow(t, w[i]) = w[i]
  <2> TAKE i \in 1..Len(p)-1
  <2>1. i \in 0..Len(p) /\ w[i] = SubSeq(p, 1, i)
    BY <1>1
  <2>2. w[i] \in Seq(Nat) /\ Len(w[i]) = i /\ IsPrefix(w[i], p)
    BY <2>1, UpTo, PrefixIsSubSeq
  <2> HIDE DEF w
  <2>3. w[i] # <<>> /\ IsStrictPrefix(w[i], p)
    BY <1>1, <2>2, EmptyPrefix, PrefixOrder
  <2>4. w[i] \in DOMAIN t /\ t[w[i]].type = "dir"
    BY <2>2, <2>3 DEF InDirs
  <2> QED BY <2>4 DEF Follow
<1>3. Resolved(t, p, w)
  <2>1. \A i \in 1..Len(p) : w[i] = IF i = 1 THEN <<p[1]>> ELSE Append(Follow(t, w[i - 1]), p[i])
    <3> TAKE i \in 1..Len(p)
    <3>1. CASE i = 1
      BY <1>1, <3>1
    <3>2. CASE i # 1
      <4>1. i \in 2..Len(p) /\ i - 1 \in 1..Len(p)-1
        BY <1>1, <3>2
      <4> HIDE DEF w
      <4> QED BY <1>1, <1>2, <3>2, <4>1
    <3> QED BY <3>1, <3>2
  <2>2. w = [i \in 1..Len(p) |-> w[i]]
    OBVIOUS
  <2> HIDE DEF w
  <2>3. w = [i \in 1..Len(p) |-> IF i = 1 THEN <<p[1]>> ELSE Append(Follow(t, w[i - 1]), p[i])]
    BY <2>1, <2>2
  <2> QED BY <2>3 DEF Resolved
<1>4. ASSUME NEW v, Resolved(t, p, v)
      PROVE  v = w
  <2> DEFINE Bad == {i \in 1..Len(p) : v[i] # w[i]}
  <2>1. \A i \in 1..Len(p) : v[i] = IF i = 1 THEN <<p[1]>> ELSE Append(Follow(t, v[i - 1]), p[i])
    BY <1>4 DEF Resolved
  <2>2. \A i \in 1..Len(p) : w[i] = IF i = 1 THEN <<p[1]>> ELSE Append(Follow(t, w[i - 1]), p[i])
    BY <1>3 DEF Resolved
  <2> HIDE DEF w
  <2>3. Bad = {}
    <3> SUFFICES ASSUME Bad # {} PROVE FALSE
      OBVIOUS
    <3>1. Bad \in SUBSET Nat
      BY <1>1
    <3>2. PICK i \in Bad : \A j \in Bad : i <= j
      <4> HIDE DEF Bad
      <4> QED BY <3>1, LeastNumber
    <3>3. i # 1
      BY <2>1, <2>2
    <3>4. i - 1 \in 1..Len(p) /\ i - 1 \notin Bad
      BY <1>1, <3>2, <3>3
    <3>5. v[i - 1] = w[i - 1]
      BY <3>4
    <3> QED BY <2>1, <2>2, <3>3, <3>5
  <2>4. v = [i \in 1..Len(p) |-> v[i]] /\ w = [i \in 1..Len(p) |-> w[i]]
    BY <1>4 DEF Resolved, w
  <2> QED BY <2>3, <2>4
<1> HIDE DEF w
<1>5. Real(t, p) = (CHOOSE v : Resolved(t, p, v))[Len(p)]
  BY DEF Real, Resolved
<1>6. (CHOOSE v : Resolved(t, p, v)) = w
  BY <1>3, <1>4
<1> QED BY <1>1, <1>5, <1>6

LEMMA OnTheSpot ==
  ASSUME NEW t, NEW p \in Seq(Nat) \ {<<>>}, InDirs(t, p)
  PROVE  /\ Real(t, p) = p
         /\ ~(p \in DOMAIN t /\ t[p].type = "lnk") => Target(t, p) = p
         /\ IsDir(t, Front(p))
         /\ \A node : PutFlags(t, p, node) = Having(t, p, node)
<1>1. Real(t, p) = p
  BY RealIsPath
<1>2. ~(p \in DOMAIN t /\ t[p].type = "lnk") => Target(t, p) = p
  BY <1>1 DEF Target, Follow
<1>3. IsDir(t, Front(p))
  <2>1. Front(p) \in Seq(Nat) /\ IsStrictPrefix(Front(p), p)
    BY FrontProperties, PrefixOrder, LenProperties
  <2> QED BY <2>1 DEF InDirs, IsDir
<1>4. ASSUME NEW node
      PROVE  PutFlags(t, p, node) = Having(t, p, node)
  <2>1. ASSUME NEW q \in Chain(p)
        PROVE  q \in DOMAIN t \/ q = p
    <3>1. PICK l \in 0..Len(p) : q = SubSeq(p, 1, l) /\ q # <<>>
      BY DEF Chain, Prefixes
    <3>2. q \in Seq(Nat) \ {<<>>} /\ IsPrefix(q, p)
      BY <3>1, UpTo, PrefixIsSubSeq
    <3> QED BY <3>2 DEF InDirs, IsStrictPrefix
  <2>2. p \in Chain(p)
    <3>1. Len(p) \in 0..Len(p) /\ SubSeq(p, 1, Len(p)) = p
      BY LenProperties, SubSeqFull
    <3> QED BY <3>1 DEF Chain, Prefixes
  <2>3. DOMAIN t \cup Chain(p) = DOMAIN t \cup {p}
    BY <2>1, <2>2
  <2>4. PutFlags(t, p, node)
          = [q \in DOMAIN t \cup Chain(p) |-> IF q = p THEN node ELSE IF q \in DOMAIN t THEN t[q] ELSE {}]
    BY DEF PutFlags
  <2> QED BY <2>3, <2>4 DEF Having
<1> QED BY <1>1, <1>2, <1>3, <1>4

(* No call fails of itself.                                                *)
LEMMA ChmodOnTheSpot ==
  ASSUME NEW t, NEW p \in Seq(Nat) \ {<<>>}, InDirs(t, p), NEW x, p \in DOMAIN t, t[p].type # "lnk"
  PROVE  Chmod(t, p, x, "none") = Ok(Having(t, p, [t[p] EXCEPT !.perm = x]))
<1>1. Target(t, p) = p
  BY OnTheSpot
<1>2. Chmod(t, p, x, "none") = Ok([t EXCEPT ![p].perm = x])
  BY <1>1 DEF Chmod
<1>3. [t EXCEPT ![p].perm = x] = Having(t, p, [t[p] EXCEPT !.perm = x])
  BY DEF Having
<1> QED BY <1>2, <1>3

LEMMA LchownOnTheSpot ==
  ASSUME NEW t, NEW p \in Seq(Nat) \ {<<>>}, InDirs(t, p), NEW x, p \in DOMAIN t
  PROVE  Lchown(t, p, x, "none") = Ok(Having(t, p, Chowned(t[p], x)))
<1>1. Real(t, p) = p
  BY OnTheSpot
<1>2. Lchown(t, p, x, "none") = Ok([t EXCEPT ![p] = Chowned(@, x)])
  BY <1>1 DEF Lchown
<1>3. [t EXCEPT ![p] = Chowned(@, x)] = Having(t, p, Chowned(t[p], x))
  BY DEF Having
<1> QED BY <1>2, <1>3

LEMMA DeleteOnTheSpot ==
  ASSUME NEW t, NEW p \in Seq(Nat) \ {<<>>}, InDirs(t, p),
         p \in DOMAIN t, ~Special(t[p]), Below(t, p) = {}, t[p].dev = "own"
  PROVE  DeleteAllTypes(t, p, "none") = Ok(Without(t, p))
<1>1. Real(t, p) = p
  BY OnTheSpot
<1>2. DeleteAllTypes(t, p, "none") = Ok(Restrict(t, DOMAIN t \ {p}))
  BY <1>1 DEF DeleteAllTypes
<1> QED BY <1>2 DEF Restrict, Without

(* The directories above are there already.                                *)
MakesAt(t, path, fault, make, i) ==
  LET q == SubSeq(path, 1, i)
  IN  IF i = 0 THEN Ok(t)
      ELSE IF Target(t, q) \in DOMAIN t
           THEN IF IsDir(t, Target(t, q)) THEN Ok(t) ELSE Failed(t)
      ELSE Then(make[i - 1], LAMBDA s :
             IF fault = "mkdir" \/ Real(s, q) \in DOMAIN s THEN Failed(s)
             ELSE Ok(PutFlags(s, Real(s, q), NewDir)))
Makes(t, path, fault, make) == make = [i \in 0..Len(path)-1 |-> MakesAt(t, path, fault, make, i)]

LEMMA ParentsAreThere ==
  ASSUME NEW t, NEW p \in Seq(Nat) \ {<<>>}, InDirs(t, p)
  PROVE  CreateParentDirectories(t, p, "none") = Ok(t)
<1> DEFINE w == [i \in 0..Len(p)-1 |-> Ok(t)]
<1>1. Len(p) \in Nat \ {0}
  BY StepsOfPath
<1>2. ASSUME NEW i \in 1..Len(p)-1
      PROVE  Target(t, SubSeq(p, 1, i)) \in DOMAIN t /\ IsDir(t, Target(t, SubSeq(p, 1, i)))
  <2> DEFINE q == SubSeq(p, 1, i)
  <2>1. i \in 0..Len(p)
    BY <1>1
  <2>2. q \in Seq(Nat) /\ Len(q) = i /\ IsPrefix(q, p)
    BY <2>1, UpTo, PrefixIsSubSeq
  <2> HIDE DEF q
  <2>3. q # <<>> /\ IsStrictPrefix(q, p)
    BY <1>1, <2>2, EmptyPrefix, PrefixOrder
  <2>4. q \in DOMAIN t /\ t[q].type = "dir"
    BY <2>2, <2>3 DEF InDirs
  <2>5. InDirs(t, q)
    BY <2>2, <2>3, PrefixOrder, LenProperties DEF InDirs, IsStrictPrefix
  <2>6. Target(t, q) = q
    BY <2>2, <2>3, <2>4, <2>5, OnTheSpot
  <2>7. Target(t, q) \in DOMAIN t /\ IsDir(t, Target(t, q))
    BY <2>4, <2>6 DEF IsDir
  <2> QED BY <2>7 DEF q
<1>3. ASSUME NEW v
      PROVE  Makes(t, p, "none", v) <=> v = w
  <2>1. ASSUME NEW i \in 0..Len(p)-1
        PROVE  MakesAt(t, p, "none", v, i) = Ok(t)
    <3>1. CASE i = 0
      BY <3>1 DEF MakesAt
    <3>2. CASE i # 0
      <4>1. i \in 1..Len(p)-1
        BY <1>1, <3>2
      <4> QED BY <1>2, <3>2, <4>1 DEF MakesAt
    <3> QED BY <3>1, <3>2
  <2>2. [i \in 0..Len(p)-1 |-> MakesAt(t, p, "none", v, i)] = w
    BY <2>1
  <2> HIDE DEF w
  <2> QED BY <2>2 DEF Makes
<1>4. CreateParentDirectories(t, p, "none") = (CHOOSE v : Makes(t, p, "none", v))[Len(p) - 1]
  BY DEF CreateParentDirectories, Makes, MakesAt
<1>5. (CHOOSE v : Makes(t, p, "none", v)) = w
  <2>1. Makes(t, p, "none", w) /\ \A v : Makes(t, p, "none", v) => v = w
    BY <1>3
  <2> HIDE DEF w
  <2> QED BY <2>1
<1>6. Len(p) - 1 \in 0..Len(p)-1
  BY <1>1
<1> QED BY <1>4, <1>5, <1>6

AnyNode ==
  [type : {"dir", "reg", "lnk", "fifo", "socket", "device"}, data : Seq(Nat), mtime : Nat, perm : Nat, owner : Nat,
   dev : {"own", "mounted"}]

LEMMA NodeType == \A n \in Node : n \in AnyNode /\ (n.type = "dir" => n.data = <<>>) /\ (n.type = "lnk" => n.perm = 0)
BY DEF Node, AnyNode

WithPerm(n, x) == [n EXCEPT !.perm = x]
WithOwner(n, x) == [n EXCEPT !.owner = x]

LEMMA NodeWithPerm ==
  ASSUME NEW n \in AnyNode, NEW x \in Nat
  PROVE  /\ WithPerm(n, x) \in AnyNode /\ WithPerm(n, x).perm = x
         /\ WithPerm(n, x).type = n.type /\ WithPerm(n, x).data = n.data
         /\ WithPerm(n, x).owner = n.owner /\ WithPerm(n, x).dev = n.dev
BY DEF AnyNode, WithPerm

LEMMA NodeWithOwner ==
  ASSUME NEW n \in AnyNode, NEW x \in Nat
  PROVE  /\ WithOwner(n, x) \in AnyNode /\ WithOwner(n, x).owner = x
         /\ WithOwner(n, x).type = n.type /\ WithOwner(n, x).data = n.data
         /\ WithOwner(n, x).perm = n.perm /\ WithOwner(n, x).dev = n.dev
BY DEF AnyNode, WithOwner

LEMMA NodeChowned ==
  ASSUME NEW n \in AnyNode, NEW x \in Nat
  PROVE  /\ Chowned(n, x) \in AnyNode /\ Chowned(n, x).owner = x
         /\ Chowned(n, x).type = n.type /\ Chowned(n, x).data = n.data
         /\ Chowned(n, x).perm = n.perm \/ n.perm = Setuid
BY DEF AnyNode, Chowned

(* What is put back is as it was in the first snapshot.                    *)
PutBack(t, r, p) == \E n \in AnyNode : r = Ok(Having(t, p, n)) /\ Alike(n, Tree1[p])

LEMMA CreatedDirectory ==
  ASSUME NEW t, NEW p \in Seq(Nat) \ {<<>>}, InDirs(t, p), p \notin DOMAIN t,
         NEW node \in AnyNode, node.type = "dir"
  PROVE  \E n \in AnyNode : CreateDirectory(t, p, node, "none") = Ok(Having(t, p, n)) /\ Alike(n, node)
<1> DEFINE bare == WithOwner(WithPerm(node, 0), 1)
           open == WithPerm(bare, node.perm)
           done == Chowned(open, node.owner)
           T1 == Having(t, p, bare)
           T2 == Having(t, p, open)
<1>1. node.perm \in Nat /\ node.owner \in Nat
  BY DEF AnyNode
<1>2. bare \in AnyNode /\ bare.type = "dir" /\ bare.data = node.data
  <2> DEFINE m == WithPerm(node, 0)
  <2>1. m \in AnyNode /\ m.type = "dir" /\ m.data = node.data
    BY NodeWithPerm
  <2> HIDE DEF m
  <2>2. WithOwner(m, 1) \in AnyNode /\ WithOwner(m, 1).type = "dir" /\ WithOwner(m, 1).data = node.data
    BY <2>1, NodeWithOwner
  <2> QED BY <2>2 DEF m
<1>3. bare = [node EXCEPT !.perm = 0, !.owner = 1]
  BY DEF WithPerm, WithOwner
<1> HIDE DEF bare
<1>4. open \in AnyNode /\ open.type = "dir" /\ open.data = node.data /\ open.perm = node.perm
  BY <1>1, <1>2, NodeWithPerm
<1> HIDE DEF open
<1>5. done \in AnyNode /\ Alike(done, node)
  BY <1>1, <1>4, NodeChowned DEF Alike
<1> HIDE DEF done
<1>6. Real(t, p) = p /\ PutFlags(t, p, bare) = T1
  BY OnTheSpot
<1>7. T1[p] = bare /\ p \in DOMAIN T1
  BY HavingNode
<1>8. InDirs(T1, p)
  BY HavingNode
<1>9. Having(T1, p, open) = T2
  BY HavingTwice
<1>10. T2[p] = open /\ p \in DOMAIN T2
  BY HavingNode
<1>11. InDirs(T2, p)
  BY HavingNode
<1>12. Having(T2, p, done) = Having(t, p, done)
  BY HavingTwice
<1> HIDE DEF T1, T2
<1>13. Chmod(T1, p, node.perm, "none") = Ok(T2)
  <2>1. Chmod(T1, p, node.perm, "none") = Ok(Having(T1, p, [T1[p] EXCEPT !.perm = node.perm]))
    BY <1>2, <1>7, <1>8, ChmodOnTheSpot
  <2> QED BY <1>7, <1>9, <2>1 DEF open, WithPerm
<1>14. Target(T2, p) = p
  BY <1>4, <1>10, <1>11, OnTheSpot
<1>15. Lchown(T2, p, node.owner, "none") = Ok(Having(t, p, done))
  <2>1. Lchown(T2, p, node.owner, "none") = Ok(Having(T2, p, Chowned(T2[p], node.owner)))
    BY <1>10, <1>11, LchownOnTheSpot
  <2> QED BY <1>10, <1>12, <2>1 DEF done
<1>16. CreateDirectory(t, p, node, "none")
         = Then(Chmod(T1, p, node.perm, "none"), LAMBDA s : Lchown(s, Target(s, p), node.owner, "none"))
  BY <1>3, <1>6 DEF CreateDirectory
<1>17. CreateDirectory(t, p, node, "none") = Ok(Having(t, p, done))
  BY <1>13, <1>14, <1>15, <1>16 DEF Then, Ok, Answer
<1> QED BY <1>5, <1>17

LEMMA CreatedFile ==
  ASSUME NEW t, NEW p \in Seq(Nat) \ {<<>>}, InDirs(t, p), p \notin DOMAIN t,
         NEW node \in AnyNode
  PROVE  \E n \in AnyNode : CreateFile(t, p, node, "none") = Ok(Having(t, p, n)) /\ Alike(n, node)
<1> DEFINE m == WithPerm(node, node.perm)
           n == Chowned(m, node.owner)
<1>1. node.perm \in Nat /\ node.owner \in Nat
  BY DEF AnyNode
<1>2. m \in AnyNode /\ m.type = node.type /\ m.data = node.data /\ m.perm = node.perm
  BY <1>1, NodeWithPerm
<1>3. n = MadeBy(node, node.perm, node.owner)
  BY DEF MadeBy, WithPerm
<1> HIDE DEF m
<1>4. n \in AnyNode /\ Alike(n, node)
  BY <1>1, <1>2, NodeChowned DEF Alike
<1> HIDE DEF n
<1>5. Target(t, p) = p /\ IsDir(t, Front(p)) /\ ~IsDir(t, p)
  BY OnTheSpot DEF IsDir
<1>6. PutFlags(t, p, n) = Having(t, p, n)
  BY OnTheSpot
<1>7. CreateFile(t, p, node, "none") = Ok(PutFlags(t, p, n))
  BY <1>3, <1>5 DEF CreateFile
<1> QED BY <1>4, <1>6, <1>7

LEMMA CreatedLink ==
  ASSUME NEW t, NEW p \in Seq(Nat) \ {<<>>}, InDirs(t, p), p \notin DOMAIN t,
         NEW node \in AnyNode
  PROVE  \E n \in AnyNode : CreateLink(t, p, node, "none") = Ok(Having(t, p, n)) /\ Alike(n, node)
<1> DEFINE bare == WithOwner(node, 1)
           n == Chowned(bare, node.owner)
           T1 == Having(t, p, bare)
<1>1. node.owner \in Nat
  BY DEF AnyNode
<1>2. bare \in AnyNode /\ bare.type = node.type /\ bare.data = node.data /\ bare.perm = node.perm
  BY NodeWithOwner
<1>3. bare = [node EXCEPT !.owner = 1]
  BY DEF WithOwner
<1> HIDE DEF bare
<1>4. n \in AnyNode /\ Alike(n, node)
  BY <1>1, <1>2, NodeChowned DEF Alike
<1> HIDE DEF n
<1>5. Real(t, p) = p /\ IsDir(t, Front(p)) /\ PutFlags(t, p, bare) = T1
  BY OnTheSpot
<1>6. T1[p] = bare /\ p \in DOMAIN T1
  BY HavingNode
<1>7. InDirs(T1, p)
  BY HavingNode
<1>8. Having(T1, p, n) = Having(t, p, n)
  BY HavingTwice
<1> HIDE DEF T1
<1>9. CreateLink(t, p, node, "none") = Lchown(T1, p, node.owner, "none")
  BY <1>3, <1>5 DEF CreateLink
<1>10. Lchown(T1, p, node.owner, "none") = Ok(Having(t, p, n))
  <2>1. Lchown(T1, p, node.owner, "none") = Ok(Having(T1, p, Chowned(T1[p], node.owner)))
    BY <1>6, <1>7, LchownOnTheSpot
  <2> QED BY <1>6, <1>8, <2>1 DEF n
<1> QED BY <1>4, <1>9, <1>10

LEMMA Created1 ==
  ASSUME NEW t, NEW p \in Seq(Nat) \ {<<>>}, InDirs(t, p), p \notin DOMAIN t,
         p \in DOMAIN Tree1, Tree1[p] \in AnyNode, ~Special(Tree1[p])
  PROVE  /\ PutBack(t, CreateByType(t, p, "none"), p)
         /\ CreateAllTypes(t, p, "none") = CreateByType(t, p, "none")
<1>1. PutBack(t, CreateByType(t, p, "none"), p)
  <2>1. CASE Tree1[p].type = "dir"
    BY <2>1, CreatedDirectory DEF CreateByType, PutBack
  <2>2. CASE Tree1[p].type = "reg"
    BY <2>2, CreatedFile DEF CreateByType, PutBack
  <2>3. CASE Tree1[p].type = "lnk"
    BY <2>3, CreatedLink DEF CreateByType, PutBack
  <2> QED BY <2>1, <2>2, <2>3 DEF AnyNode, Special
<1>2. CreateAllTypes(t, p, "none") = CreateByType(t, p, "none")
  BY ParentsAreThere DEF CreateAllTypes, Then, Ok, Answer
<1> QED BY <1>1, <1>2

(* The content, the permissions and the owner of a file, as far as the     *)
(* status asks for them                                                    *)
LEMMA ContentModified ==
  ASSUME NEW t, NEW p \in Seq(Nat) \ {<<>>}, InDirs(t, p), p \in DOMAIN t,
         p \in DOMAIN Tree1, Tree1[p] \in AnyNode, Tree1[p].type \in {"reg", "lnk"},
         ~Special(t[p]), t[p].dev = "own", Below(t, p) = {}
  PROVE  PutBack(t, ModifyContent(t, p, "none"), p)
<1> DEFINE W == Without(t, p)
<1>1. DeleteAllTypes(t, p, "none") = Ok(W)
  BY DeleteOnTheSpot
<1>2. p \notin DOMAIN W /\ InDirs(W, p) /\ \A n : Having(W, p, n) = Having(t, p, n)
  BY HavingWithout
<1> HIDE DEF W
<1>3. PutBack(W, CreateByType(W, p, "none"), p)
  BY <1>2, Created1 DEF Special
<1>4. ModifyContent(t, p, "none") = CreateByType(W, p, "none")
  BY <1>1 DEF ModifyContent, Then, Ok, Answer
<1> QED BY <1>2, <1>3, <1>4 DEF PutBack

LEMMA PermissionsModified ==
  ASSUME NEW t, NEW p \in Seq(Nat) \ {<<>>}, InDirs(t, p), NEW n \in AnyNode, n.type # "lnk", NEW x \in Nat
  PROVE  Chmod(Having(t, p, n), p, x, "none") = Ok(Having(t, p, WithPerm(n, x)))
<1> DEFINE T == Having(t, p, n)
<1>1. T[p] = n /\ p \in DOMAIN T
  BY HavingNode
<1>2. InDirs(T, p)
  BY HavingNode
<1>3. Having(T, p, WithPerm(n, x)) = Having(t, p, WithPerm(n, x))
  BY HavingTwice
<1> HIDE DEF T
<1>4. Chmod(T, p, x, "none") = Ok(Having(T, p, [T[p] EXCEPT !.perm = x]))
  BY <1>1, <1>2, ChmodOnTheSpot
<1>5. Chmod(T, p, x, "none") = Ok(Having(t, p, WithPerm(n, x)))
  BY <1>1, <1>3, <1>4 DEF WithPerm
<1> QED BY <1>5 DEF T

LEMMA OwnerModified ==
  ASSUME NEW t, NEW p \in Seq(Nat) \ {<<>>}, InDirs(t, p), NEW n \in AnyNode, NEW x \in Nat
  PROVE  Lchown(Having(t, p, n), p, x, "none") = Ok(Having(t, p, Chowned(n, x)))
<1> DEFINE T == Having(t, p, n)
<1>1. T[p] = n /\ p \in DOMAIN T
  BY HavingNode
<1>2. InDirs(T, p)
  BY HavingNode
<1>3. Having(T, p, Chowned(n, x)) = Having(t, p, Chowned(n, x))
  BY HavingTwice
<1> HIDE DEF T
<1>4. Lchown(T, p, x, "none") = Ok(Having(T, p, Chowned(T[p], x)))
  BY <1>1, <1>2, LchownOnTheSpot
<1>5. Lchown(T, p, x, "none") = Ok(Having(t, p, Chowned(n, x)))
  BY <1>1, <1>3, <1>4
<1> QED BY <1>5 DEF T

LEMMA HavingItself ==
  ASSUME NEW t, NEW p \in DOMAIN t, t = [q \in DOMAIN t |-> t[q]]
  PROVE  Having(t, p, t[p]) = t
BY DEF Having

(* From node n on: what is asked for is put back, the rest is as it was.   *)
LEMMA Modified ==
  ASSUME NEW t, NEW p \in Seq(Nat) \ {<<>>}, InDirs(t, p), p \in DOMAIN Tree1, Tree1[p] \in AnyNode,
         NEW status, NEW n \in AnyNode, NEW r,
         r = Ok(Having(t, p, n)), n.type = Tree1[p].type, n.data = Tree1[p].data,
         "PERMISSIONS" \in status => n.type # "lnk",
         "PERMISSIONS" \in status \/ n.perm = Tree1[p].perm \/ Tree1[p].perm = Setuid,
         "OWNER" \in status \/ n.owner = Tree1[p].owner,
         NEW r2, r2 = IF "PERMISSIONS" \in status
                      THEN Then(r, LAMBDA s : Chmod(s, p, Tree1[p].perm, "none")) ELSE r
  PROVE  PutBack(t, IF "OWNER" \in status THEN Then(r2, LAMBDA s : Lchown(s, p, Tree1[p].owner, "none")) ELSE r2, p)
<1>1. Tree1[p].perm \in Nat /\ Tree1[p].owner \in Nat
  BY DEF AnyNode
<1>2. PICK m \in AnyNode : /\ r2 = Ok(Having(t, p, m))
                           /\ m.type = n.type /\ m.data = n.data /\ m.owner = n.owner
                           /\ m.perm = Tree1[p].perm \/ Tree1[p].perm = Setuid
  <2>1. CASE "PERMISSIONS" \in status
    <3>1. r2 = Chmod(Having(t, p, n), p, Tree1[p].perm, "none")
      BY <2>1 DEF Then, Ok, Answer
    <3>2. r2 = Ok(Having(t, p, WithPerm(n, Tree1[p].perm)))
      BY <1>1, <2>1, <3>1, PermissionsModified
    <3> QED BY <1>1, <3>2, NodeWithPerm
  <2>2. CASE "PERMISSIONS" \notin status
    BY <2>2
  <2> QED BY <2>1, <2>2
<1>3. CASE "OWNER" \in status
  <2>1. Then(r2, LAMBDA s : Lchown(s, p, Tree1[p].owner, "none")) = Lchown(Having(t, p, m), p, Tree1[p].owner, "none")
    BY <1>2 DEF Then, Ok, Answer
  <2>2. Lchown(Having(t, p, m), p, Tree1[p].owner, "none") = Ok(Having(t, p, Chowned(m, Tree1[p].owner)))
    BY <1>1, OwnerModified
  <2> DEFINE o == Chowned(m, Tree1[p].owner)
  <2>3. o \in AnyNode /\ Alike(o, Tree1[p])
    BY <1>1, <1>2, NodeChowned DEF Alike
  <2> HIDE DEF o
  <2>4. PutBack(t, Ok(Having(t, p, o)), p)
    BY <2>3 DEF PutBack
  <2> QED BY <1>3, <2>1, <2>2, <2>4 DEF o
<1>4. CASE "OWNER" \notin status
  BY <1>2, <1>4 DEF PutBack, Alike
<1> QED BY <1>3, <1>4

(* A file that is there in both snapshots and of the same type, or made    *)
(* again with the type it had                                              *)
LEMMA ModifiedFile ==
  ASSUME NEW t, NEW p \in Seq(Nat) \ {<<>>}, InDirs(t, p), p \in DOMAIN Tree1, Tree1[p] \in AnyNode,
         NEW status, NEW n \in AnyNode, t = Having(t, p, n), n.type = Tree1[p].type,
         "PERMISSIONS" \in status => n.type # "lnk",
         IF "CONTENT" \in status
         THEN n.type \in {"reg", "lnk"} /\ n.dev = "own" /\ Below(t, p) = {}
         ELSE /\ n.data = Tree1[p].data
              /\ "PERMISSIONS" \in status \/ n.perm = Tree1[p].perm \/ Tree1[p].perm = Setuid
              /\ "OWNER" \in status \/ n.owner = Tree1[p].owner
  PROVE  PutBack(t, ModifyAllTypes(t, p, status, "none"), p)
<1> DEFINE r1 == IF "CONTENT" \in status THEN ModifyContent(t, p, "none") ELSE Ok(t)
           r2 == IF "PERMISSIONS" \in status
                 THEN Then(r1, LAMBDA s : Chmod(s, p, Tree1[p].perm, "none")) ELSE r1
<1>1. p \in DOMAIN t /\ t[p] = n
  <2>1. Having(t, p, n)[p] = n
    BY ONLY HavingAt
  <2>2. p \in DOMAIN Having(t, p, n)
    BY HavingNode
  <2> QED BY <2>1, <2>2
<1>2. CreateParentDirectories(t, p, "none") = Ok(t)
  BY ParentsAreThere
<1>3. Then(Ok(t), LAMBDA s : ModifyContent(s, p, "none")) = ModifyContent(t, p, "none")
  BY DEF Then, Ok, Answer
<1>4. ModifyAllTypes(t, p, status, "none")
        = IF "OWNER" \in status THEN Then(r2, LAMBDA s : Lchown(s, p, Tree1[p].owner, "none")) ELSE r2
  BY <1>2, <1>3 DEF ModifyAllTypes
<1> HIDE DEF r1
<1>5. PICK m \in AnyNode :
        /\ r1 = Ok(Having(t, p, m)) /\ m.type = Tree1[p].type /\ m.data = Tree1[p].data
        /\ "PERMISSIONS" \in status \/ m.perm = Tree1[p].perm \/ Tree1[p].perm = Setuid
        /\ "OWNER" \in status \/ m.owner = Tree1[p].owner
  <2>1. CASE "CONTENT" \in status
    <3>1. PutBack(t, ModifyContent(t, p, "none"), p)
      BY <1>1, <2>1, ContentModified DEF Special
    <3> QED BY <2>1, <3>1 DEF PutBack, Alike, r1
  <2>2. CASE "CONTENT" \notin status
    BY <2>2 DEF r1
  <2> QED BY <2>1, <2>2
<1>6. "PERMISSIONS" \in status => m.type # "lnk"
  BY <1>5
<1> DEFINE R2 == r2
<1>7. PutBack(t, IF "OWNER" \in status THEN Then(R2, LAMBDA s : Lchown(s, p, Tree1[p].owner, "none")) ELSE R2, p)
  BY <1>5, <1>6, Modified
<1> QED BY <1>4, <1>7

(* File::doUndo when nothing fails, by what the list says of the file      *)
LEMMA UndoneCreated ==
  ASSUME NEW t, NEW p \in Seq(Nat) \ {<<>>}, InDirs(t, p), NEW file, file.name = p,
         file.status = {"CREATED"},
         p \in DOMAIN t, ~Special(t[p]), Below(t, p) = {}, t[p].dev = "own"
  PROVE  DoUndo(t, file, "none") = Ok(Without(t, p))
<1>1. DeleteAllTypes(t, p, "none") = Ok(Without(t, p))
  BY DeleteOnTheSpot
<1> QED BY <1>1 DEF DoUndo, Ok, Answer

LEMMA UndoneDeleted ==
  ASSUME NEW t, NEW p \in Seq(Nat) \ {<<>>}, InDirs(t, p), NEW file, file.name = p,
         file.status = {"DELETED"},
         p \notin DOMAIN t, p \in DOMAIN Tree1, Tree1[p] \in AnyNode, ~Special(Tree1[p])
  PROVE  PutBack(t, DoUndo(t, file, "none"), p)
<1>1. PutBack(t, CreateByType(t, p, "none"), p) /\ CreateAllTypes(t, p, "none") = CreateByType(t, p, "none")
  BY Created1
<1>2. DoUndo(t, file, "none") = CreateAllTypes(t, p, "none")
  BY DEF DoUndo, Ok, Answer
<1> QED BY <1>1, <1>2

LEMMA UndoneModified ==
  ASSUME NEW t, NEW p \in Seq(Nat) \ {<<>>}, InDirs(t, p), NEW file, file.name = p,
         file.status \cap {"CREATED", "DELETED", "TYPE"} = {},
         file.status \cap {"CONTENT", "PERMISSIONS", "OWNER"} # {},
         PutBack(t, ModifyAllTypes(t, p, file.status, "none"), p)
  PROVE  PutBack(t, DoUndo(t, file, "none"), p)
<1>1. DoUndo(t, file, "none") = ModifyAllTypes(t, p, file.status, "none")
  BY DEF DoUndo, Ok, Answer
<1> QED BY <1>1

(* What doUndo goes on to                                                  *)
Onward(r, file, flags, n) ==
  IF r.end = "blocked" \/ file.status \cap flags = {} THEN r
  ELSE IF r.end = "failed" /\ n.end = "ok" THEN Failed(n.tree) ELSE n

LEMMA DeletedAndMade ==
  ASSUME NEW t, NEW W, NEW T, NEW file, "TYPE" \in file.status,
         DeleteAllTypes(t, file.name, "none") = Ok(W), CreateAllTypes(W, file.name, "none") = Ok(T)
  PROVE  DoUndo(t, file, "none") =
           IF file.status \cap {"CONTENT", "PERMISSIONS", "OWNER"} = {} THEN Ok(T)
           ELSE ModifyAllTypes(T, file.name, file.status, "none")
<1> DEFINE deleted == Onward(Ok(t), file, {"CREATED", "TYPE"}, DeleteAllTypes(Ok(t).tree, file.name, "none"))
           made == Onward(deleted, file, {"DELETED", "TYPE"}, CreateAllTypes(deleted.tree, file.name, "none"))
<1>1. DoUndo(t, file, "none")
        = Onward(made, file, {"CONTENT", "PERMISSIONS", "OWNER"},
                 ModifyAllTypes(made.tree, file.name, file.status, "none"))
  BY DEF DoUndo, Onward
<1>2. \A s : Ok(s).end = "ok" /\ Ok(s).tree = s
  BY DEF Ok, Answer
<1>3. deleted = Ok(W)
  <2>1. file.status \cap {"CREATED", "TYPE"} # {}
    OBVIOUS
  <2> QED BY <1>2, <2>1 DEF Onward
<1> HIDE DEF deleted
<1>4. made = Ok(T)
  <2>1. file.status \cap {"DELETED", "TYPE"} # {}
    OBVIOUS
  <2> QED BY <1>2, <1>3, <2>1 DEF Onward
<1> HIDE DEF made
<1> QED BY <1>1, <1>2, <1>4 DEF Onward

LEMMA UndoneType ==
  ASSUME NEW t, NEW p \in Seq(Nat) \ {<<>>}, InDirs(t, p), NEW file, file.name = p,
         "TYPE" \in file.status, file.status \subseteq {"TYPE", "PERMISSIONS", "OWNER"},
         p \in DOMAIN t, ~Special(t[p]), Below(t, p) = {}, t[p].dev = "own",
         p \in DOMAIN Tree1, Tree1[p] \in AnyNode, ~Special(Tree1[p]),
         "PERMISSIONS" \in file.status => Tree1[p].type # "lnk"
  PROVE  PutBack(t, DoUndo(t, file, "none"), p)
<1> DEFINE W == Without(t, p)
           made == CreateAllTypes(W, p, "none")
<1>1. DeleteAllTypes(t, p, "none") = Ok(W)
  BY DeleteOnTheSpot
<1>2. p \notin DOMAIN W /\ InDirs(W, p) /\ \A n : Having(W, p, n) = Having(t, p, n)
  BY HavingWithout
<1> HIDE DEF W
<1>3. PutBack(W, made, p)
  BY <1>2, Created1
<1>4. PICK n \in AnyNode : made = Ok(Having(t, p, n)) /\ Alike(n, Tree1[p])
  BY <1>2, <1>3 DEF PutBack
<1> HIDE DEF made
<1> DEFINE T == Having(t, p, n)
<1>5. T[p] = n /\ p \in DOMAIN T /\ InDirs(T, p) /\ T = Having(T, p, n)
  <2>1. T[p] = n
    BY HavingAt
  <2>2. p \in DOMAIN T
    BY HavingNode
  <2>3. InDirs(T, p)
    BY HavingNode
  <2>4. T = Having(T, p, n)
    BY HavingTwice
  <2> QED BY <2>1, <2>2, <2>3, <2>4
<1>6. \A m : Having(T, p, m) = Having(t, p, m)
  BY HavingTwice
<1> HIDE DEF T
<1>7. made = Ok(T)
  BY <1>4 DEF T
<1>8. CASE file.status \cap {"PERMISSIONS", "OWNER"} = {}
  <2>1. DoUndo(t, file, "none") = made
    BY <1>1, <1>7, <1>8, DeletedAndMade DEF made
  <2> QED BY <1>4, <2>1 DEF PutBack
<1>9. CASE file.status \cap {"PERMISSIONS", "OWNER"} # {}
  <2>1. DoUndo(t, file, "none") = ModifyAllTypes(T, p, file.status, "none")
    BY <1>1, <1>7, <1>9, DeletedAndMade DEF made
  <2>2. PutBack(T, ModifyAllTypes(T, p, file.status, "none"), p)
    <3>1. "CONTENT" \notin file.status
      OBVIOUS
    <3>2. /\ n.type = Tree1[p].type /\ n.data = Tree1[p].data /\ n.owner = Tree1[p].owner
          /\ n.perm = Tree1[p].perm \/ Tree1[p].perm = Setuid
      BY <1>4 DEF Alike
    <3> QED BY <1>5, <3>1, <3>2, ModifiedFile
  <2> QED BY <1>6, <2>1, <2>2 DEF PutBack
<1> QED BY <1>8, <1>9

-----------------------------------------------------------------------------
(* The way back                                                            *)

Snapshots ==
  /\ IsSnapshot(Tree1) /\ IsSnapshot(Tree2)
  /\ Tree1 = [p \in DOMAIN Tree1 |-> Tree1[p]] /\ Tree2 = [p \in DOMAIN Tree2 |-> Tree2[p]]
Changed == Differing(Tree1, Tree2)
Changes == ListOf(Tree1, Tree2, Changed)
CreatedOnly == DOMAIN Tree2 \ DOMAIN Tree1

(* Those done are as in the first snapshot, the others as in the second.   *)
Partway(t, done) ==
  /\ t = [p \in DOMAIN t |-> t[p]]
  /\ DOMAIN t = {p \in DOMAIN Tree1 \cup DOMAIN Tree2 : IF p \in done THEN p \in DOMAIN Tree1 ELSE p \in DOMAIN Tree2}
  /\ \A p \in DOMAIN t : IF p \in done THEN Alike(t[p], Tree1[p]) ELSE t[p] = Tree2[p]

(* It is the turn of p.                                                    *)
Turns(done, p) ==
  /\ \A q \in done : Precedes(CreatedOnly, q, p)
  /\ \A q \in Changed \ done : q # p => Precedes(CreatedOnly, p, q)

LEMMA SnapshotTrees ==
  ASSUME Snapshots
  PROVE  /\ Tree(Tree1) /\ Tree(Tree2)
         /\ \A p \in DOMAIN Tree1 \cup DOMAIN Tree2 : p \in Seq(Nat) \ {<<>>}
         /\ \A p \in DOMAIN Tree1 : Tree1[p] \in Node
         /\ \A p \in DOMAIN Tree2 : Tree2[p] \in Node
BY PathType DEF Snapshots, IsSnapshot, Tree

LEMMA AboveComesBefore ==
  ASSUME NEW p \in Seq(Nat), NEW q \in Seq(Nat), IsStrictPrefix(q, p)
  PROVE  Before(q, p) /\ ~Before(p, q) /\ p # q
<1>1. Before(q, p) /\ p # q
  BY DEF Before, IsStrictPrefix
<1> QED BY <1>1, BeforeOrders

(* The file of a directory that is one in both trees may be there; what is *)
(* below anything else is gone or not yet there.                           *)
LEMMA TurnOfCreated ==
  ASSUME Snapshots, NEW t, NEW done \in SUBSET Changed, NEW p \in Changed \ done,
         Partway(t, done), Turns(done, p), p \in CreatedOnly
  PROVE  p \in DOMAIN t /\ t[p] = Tree2[p] /\ InDirs(t, p) /\ Below(t, p) = {}
<1>1. p \in DOMAIN Tree2 /\ p \notin DOMAIN Tree1 /\ p \in Seq(Nat) \ {<<>>}
  BY SnapshotTrees DEF CreatedOnly
<1>2. p \in DOMAIN t /\ t[p] = Tree2[p]
  BY <1>1 DEF Partway
<1>3. ASSUME NEW q \in Seq(Nat) \ {<<>>}, IsStrictPrefix(q, p)
      PROVE  q \in DOMAIN t /\ t[q].type = "dir"
  <2>1. q \in DOMAIN Tree2 /\ Tree2[q].type = "dir"
    BY <1>1, <1>3, SnapshotTrees, DirsAbove
  <2>2. ~Before(p, q)
    BY <1>1, <1>3, AboveComesBefore
  <2>3. q \notin done
    BY <2>2 DEF Turns, Precedes
  <2> QED BY <2>1, <2>3 DEF Partway
<1>4. ASSUME NEW r \in Below(t, p)
      PROVE  FALSE
  <2>1. r \in DOMAIN t /\ IsStrictPrefix(p, r)
    BY DEF Below
  <2>2. r \notin DOMAIN Tree1
    <3> SUFFICES ASSUME r \in DOMAIN Tree1 PROVE FALSE
      OBVIOUS
    <3> QED BY <1>1, <2>1, SnapshotTrees, DirsAbove
  <2>3. r \in DOMAIN Tree2 /\ r \notin done
    BY <2>1, <2>2 DEF Partway
  <2>4. r \in Seq(Nat)
    BY <2>3, SnapshotTrees
  <2>5. Before(p, r) /\ ~Before(r, p) /\ r # p
    BY <1>1, <2>1, <2>4, AboveComesBefore
  <2>6. r \in Changed \ done /\ r \in CreatedOnly
    BY <2>2, <2>3 DEF Changed, Differing, Status, CreatedOnly
  <2> QED BY <2>5, <2>6 DEF Turns, Precedes
<1> QED BY <1>2, <1>3, <1>4 DEF InDirs

LEMMA TurnOfOthers ==
  ASSUME Snapshots, NEW t, NEW done \in SUBSET Changed, NEW p \in Changed \ done,
         Partway(t, done), Turns(done, p), p \notin CreatedOnly
  PROVE  /\ p \in DOMAIN Tree1 /\ InDirs(t, p)
         /\ p \in DOMAIN t <=> p \in DOMAIN Tree2
         /\ p \in DOMAIN t => t[p] = Tree2[p]
         /\ Below(t, p) # {} => p \in DOMAIN Tree2 /\ Tree1[p].type = "dir" /\ Tree2[p].type = "dir"
<1>1. p \in DOMAIN Tree1 /\ p \in Seq(Nat) \ {<<>>}
  BY SnapshotTrees DEF Changed, Differing, CreatedOnly
<1>2. (p \in DOMAIN t <=> p \in DOMAIN Tree2) /\ (p \in DOMAIN t => t[p] = Tree2[p])
  BY <1>1 DEF Partway
<1>3. \A q \in Changed \ done : q # p => q \notin CreatedOnly /\ Before(p, q)
  BY DEF Turns, Precedes
<1>4. ASSUME NEW q \in Seq(Nat) \ {<<>>}, IsStrictPrefix(q, p)
      PROVE  q \in DOMAIN t /\ t[q].type = "dir"
  <2>1. q \in DOMAIN Tree1 /\ Tree1[q].type = "dir"
    BY <1>1, <1>4, SnapshotTrees, DirsAbove
  <2>2. CASE q \in done
    BY <2>1, <2>2 DEF Partway, Alike
  <2>3. CASE q \notin done
    <3>1. ~Before(p, q) /\ q # p
      BY <1>1, <1>4, AboveComesBefore
    <3>2. q \notin Changed
      BY <1>3, <2>3, <3>1
    <3>3. q \in DOMAIN Tree2 /\ Tree2[q].type = Tree1[q].type
      BY <2>1, <3>2 DEF Changed, Differing, Status, CmpFiles
    <3> QED BY <2>1, <2>3, <3>3 DEF Partway
  <2> QED BY <2>2, <2>3
<1>5. ASSUME NEW r \in Below(t, p)
      PROVE  p \in DOMAIN Tree2 /\ Tree1[p].type = "dir" /\ Tree2[p].type = "dir"
  <2>1. r \in DOMAIN t /\ IsStrictPrefix(p, r) /\ r \in DOMAIN Tree1 \cup DOMAIN Tree2
    BY DEF Below, Partway
  <2>2. r \in Seq(Nat)
    BY <2>1, SnapshotTrees
  <2>3. ~Before(r, p) /\ r # p
    BY <1>1, <2>1, <2>2, AboveComesBefore
  <2>4. r \notin done
    <3> SUFFICES ASSUME r \in done PROVE FALSE
      OBVIOUS
    <3>1. r \in DOMAIN Tree1
      BY <2>1 DEF Partway
    <3> QED BY <2>3, <3>1 DEF Turns, Precedes, CreatedOnly
  <2>5. r \in DOMAIN Tree2
    BY <2>1, <2>4 DEF Partway
  <2>6. r \in DOMAIN Tree1
    <3> SUFFICES ASSUME r \notin DOMAIN Tree1 PROVE FALSE
      OBVIOUS
    <3>1. r \in Changed \ done /\ r \in CreatedOnly
      BY <2>4, <2>5 DEF Changed, Differing, Status, CreatedOnly
    <3> QED BY <1>3, <2>3, <3>1
  <2> QED BY <1>1, <2>1, <2>5, <2>6, SnapshotTrees, DirsAbove
<1> QED BY <1>1, <1>2, <1>4, <1>5 DEF InDirs

LEMMA PartwayPutBack ==
  ASSUME NEW t, NEW done \in SUBSET Changed, NEW p \in DOMAIN Tree1, Partway(t, done),
         NEW r, PutBack(t, r, p)
  PROVE  r.end = "ok" /\ Partway(r.tree, done \cup {p})
<1>1. PICK n \in AnyNode : r = Ok(Having(t, p, n)) /\ Alike(n, Tree1[p])
  BY DEF PutBack
<1> DEFINE T == Having(t, p, n)
<1>2. r.end = "ok" /\ r.tree = T
  BY <1>1 DEF Ok, Answer
<1>3. /\ T = [q \in DOMAIN T |-> T[q]] /\ DOMAIN T = DOMAIN t \cup {p} /\ T[p] = n
      /\ \A q \in DOMAIN t : q # p => T[q] = t[q]
  BY DEF Having
<1> HIDE DEF T
<1>4. DOMAIN T = {q \in DOMAIN Tree1 \cup DOMAIN Tree2 :
                    IF q \in done \cup {p} THEN q \in DOMAIN Tree1 ELSE q \in DOMAIN Tree2}
  BY <1>3 DEF Partway
<1>5. \A q \in DOMAIN T : IF q \in done \cup {p} THEN Alike(T[q], Tree1[q]) ELSE T[q] = Tree2[q]
  BY <1>1, <1>3 DEF Partway
<1> QED BY <1>2, <1>3, <1>4, <1>5 DEF Partway

LEMMA PartwayWithout ==
  ASSUME NEW t, NEW done \in SUBSET Changed, NEW p, p \notin DOMAIN Tree1, Partway(t, done)
  PROVE  Partway(Without(t, p), done \cup {p})
<1> DEFINE T == Without(t, p)
<1>1. /\ T = [q \in DOMAIN T |-> T[q]] /\ DOMAIN T = DOMAIN t \ {p}
      /\ \A q \in DOMAIN T : T[q] = t[q]
  BY DEF Without
<1> HIDE DEF T
<1>2. DOMAIN T = {q \in DOMAIN Tree1 \cup DOMAIN Tree2 :
                    IF q \in done \cup {p} THEN q \in DOMAIN Tree1 ELSE q \in DOMAIN Tree2}
  BY <1>1 DEF Partway
<1>3. \A q \in DOMAIN T : IF q \in done \cup {p} THEN Alike(T[q], Tree1[q]) ELSE T[q] = Tree2[q]
  BY <1>1 DEF Partway
<1> QED BY <1>1, <1>2, <1>3 DEF Partway, T

(* What the status says of a file that is in both                          *)
LEMMA StatusMeans ==
  ASSUME Snapshots, Plain, NEW p \in Changed, p \in DOMAIN Tree1, p \in DOMAIN Tree2,
         NEW status, status = Status(Tree1, Tree2, p)
  PROVE  /\ status # {} /\ status \subseteq {"TYPE", "CONTENT", "PERMISSIONS", "OWNER"}
         /\ "TYPE" \in status <=> Tree1[p].type # Tree2[p].type
         /\ "TYPE" \in status => "CONTENT" \notin status /\ Tree1[p].type # "lnk"
         /\ "CONTENT" \in status => Tree1[p].type \in {"reg", "lnk"}
         /\ "PERMISSIONS" \in status /\ Tree1[p].type = Tree2[p].type => Tree1[p].type # "lnk"
         /\ "PERMISSIONS" \notin status => Tree1[p].perm = Tree2[p].perm
         /\ "OWNER" \notin status => Tree1[p].owner = Tree2[p].owner
         /\ "TYPE" \notin status /\ "CONTENT" \notin status => Tree1[p].data = Tree2[p].data
<1>1. status = CmpFiles(Tree1[p], Tree2[p]) /\ status # {}
  BY DEF Status, Changed, Differing
<1>2. /\ Tree1[p] \in AnyNode /\ Tree2[p] \in AnyNode
      /\ Tree1[p].type = "dir" => Tree1[p].data = <<>>
      /\ Tree2[p].type = "dir" => Tree2[p].data = <<>>
      /\ Tree1[p].type = "lnk" => Tree1[p].perm = 0
      /\ Tree2[p].type = "lnk" => Tree2[p].perm = 0
  BY SnapshotTrees, NodeType
<1>3. /\ ~Special(Tree1[p])
      /\ Tree1[p].type = "lnk" => Tree2[p].type = "lnk"
      /\ Tree1[p].mtime = Tree2[p].mtime => Tree1[p].data = Tree2[p].data
  BY DEF Plain, WasLink
<1>4. Tree1[p].type \in {"dir", "reg", "lnk"}
  BY <1>2, <1>3 DEF AnyNode, Special
<1>5. /\ status \subseteq {"TYPE", "CONTENT", "PERMISSIONS", "OWNER"}
      /\ "TYPE" \in status <=> Tree1[p].type # Tree2[p].type
      /\ "CONTENT" \in status <=> Tree1[p].type = Tree2[p].type /\ ~CmpFilesContent(Tree1[p], Tree2[p])
      /\ "PERMISSIONS" \in status <=> Tree1[p].perm # Tree2[p].perm
      /\ "OWNER" \in status <=> Tree1[p].owner # Tree2[p].owner
  BY <1>1 DEF CmpFiles
<1>6. "CONTENT" \in status => Tree1[p].type \in {"reg", "lnk"}
  BY <1>5 DEF CmpFilesContent
<1>7. "TYPE" \notin status /\ "CONTENT" \notin status => Tree1[p].data = Tree2[p].data
  BY <1>2, <1>3, <1>4, <1>5 DEF CmpFilesContent
<1> QED BY <1>1, <1>2, <1>3, <1>5, <1>6, <1>7

(* The step whose turn it is can be done, and leads on.                    *)
LEMMA StepLeadsOn ==
  ASSUME Snapshots, Plain, NEW t, NEW done \in SUBSET Changed, NEW p \in Changed \ done,
         Partway(t, done), Turns(done, p), NEW file, file = Entry(Tree1, Tree2, p)
  PROVE  /\ DoUndo(t, file, "none").end = "ok"
         /\ Partway(DoUndo(t, file, "none").tree, done \cup {p})
<1>1. file.name = p /\ file.status = Status(Tree1, Tree2, p)
  BY DEF Entry
<1>2. p \in Seq(Nat) \ {<<>>}
  BY SnapshotTrees DEF Changed, Differing
<1>3. \A q \in DOMAIN Tree2 : ~Special(Tree2[q]) /\ Tree2[q].dev = "own"
  BY DEF Plain
<1>4. \A q \in DOMAIN Tree1 : ~Special(Tree1[q])
  BY DEF Plain
<1>5. CASE p \in CreatedOnly
  <2>1. p \in DOMAIN t /\ t[p] = Tree2[p] /\ InDirs(t, p) /\ Below(t, p) = {}
    BY <1>5, TurnOfCreated
  <2>2. file.status = {"CREATED"}
    BY <1>1, <1>5 DEF Status, CreatedOnly
  <2>3. ~Special(t[p]) /\ t[p].dev = "own"
    BY <1>3, <1>5, <2>1 DEF CreatedOnly
  <2>4. DoUndo(t, file, "none") = Ok(Without(t, p))
    BY <1>1, <1>2, <2>1, <2>2, <2>3, UndoneCreated
  <2>5. Partway(Without(t, p), done \cup {p})
    BY <1>5, PartwayWithout DEF CreatedOnly
  <2> QED BY <2>4, <2>5 DEF Ok, Answer
<1>6. CASE p \notin CreatedOnly
  <2>1. p \in DOMAIN Tree1 /\ InDirs(t, p)
    BY <1>6, TurnOfOthers
  <2>2. /\ p \in DOMAIN t <=> p \in DOMAIN Tree2
        /\ p \in DOMAIN t => t[p] = Tree2[p]
        /\ Below(t, p) # {} => p \in DOMAIN Tree2 /\ Tree1[p].type = "dir" /\ Tree2[p].type = "dir"
    BY <1>6, TurnOfOthers
  <2>3. Tree1[p] \in AnyNode /\ ~Special(Tree1[p])
    BY <1>4, <2>1, SnapshotTrees, NodeType
  <2>4. PutBack(t, DoUndo(t, file, "none"), p)
    <3>1. CASE p \notin DOMAIN Tree2
      <4>1. file.status = {"DELETED"} /\ p \notin DOMAIN t
        BY <1>1, <2>2, <3>1 DEF Status
      <4> QED BY <1>1, <1>2, <2>1, <2>3, <4>1, UndoneDeleted
    <3>2. CASE p \in DOMAIN Tree2
      <4>1. p \in DOMAIN t /\ t[p] = Tree2[p] /\ ~Special(t[p]) /\ t[p].dev = "own" /\ t[p] \in AnyNode
        BY <1>3, <2>2, <3>2, SnapshotTrees, NodeType
      <4> DEFINE status == file.status
      <4>2. /\ status # {} /\ status \subseteq {"TYPE", "CONTENT", "PERMISSIONS", "OWNER"}
            /\ "TYPE" \in status <=> Tree1[p].type # Tree2[p].type
            /\ "TYPE" \in status => "CONTENT" \notin status /\ Tree1[p].type # "lnk"
            /\ "CONTENT" \in status => Tree1[p].type \in {"reg", "lnk"}
            /\ "PERMISSIONS" \in status /\ Tree1[p].type = Tree2[p].type => Tree1[p].type # "lnk"
            /\ "PERMISSIONS" \notin status => Tree1[p].perm = Tree2[p].perm
            /\ "OWNER" \notin status => Tree1[p].owner = Tree2[p].owner
            /\ "TYPE" \notin status /\ "CONTENT" \notin status => Tree1[p].data = Tree2[p].data
        BY <1>1, <2>1, <3>2, StatusMeans
      <4>3. CASE "TYPE" \in status
        <5>1. Below(t, p) = {} /\ status \subseteq {"TYPE", "PERMISSIONS", "OWNER"} /\ Tree1[p].type # "lnk"
          BY <2>2, <4>2, <4>3
        <5> QED BY <1>1, <1>2, <2>1, <2>3, <4>1, <4>3, <5>1, UndoneType
      <4>4. CASE "TYPE" \notin status
        <5>1. t = Having(t, p, t[p])
          BY <4>1, HavingItself DEF Partway
        <5>2. t[p].type = Tree1[p].type
          BY <4>1, <4>2, <4>4
        <5>3. "PERMISSIONS" \in status => t[p].type # "lnk"
          BY <4>1, <4>2, <5>2
        <5>4. IF "CONTENT" \in status
              THEN t[p].type \in {"reg", "lnk"} /\ t[p].dev = "own" /\ Below(t, p) = {}
              ELSE /\ t[p].data = Tree1[p].data
                   /\ "PERMISSIONS" \in status \/ t[p].perm = Tree1[p].perm \/ Tree1[p].perm = Setuid
                   /\ "OWNER" \in status \/ t[p].owner = Tree1[p].owner
          BY <2>2, <4>1, <4>2, <4>4, <5>2
        <5> DEFINE n == t[p]
        <5>5. PutBack(t, ModifyAllTypes(t, p, status, "none"), p)
          <6>1. n \in AnyNode
            BY <4>1
          <6> QED BY <1>2, <2>1, <2>3, <5>1, <5>2, <5>3, <5>4, <6>1, ModifiedFile
        <5>6. status \cap {"CREATED", "DELETED", "TYPE"} = {} /\ status \cap {"CONTENT", "PERMISSIONS", "OWNER"} # {}
          BY <4>2, <4>4
        <5> QED BY <1>1, <1>2, <2>1, <5>5, <5>6, UndoneModified
      <4> QED BY <4>3, <4>4
    <3> QED BY <3>1, <3>2
  <2> QED BY <2>1, <2>4, PartwayPutBack
<1> QED BY <1>5, <1>6

(* The list                                                                *)
LEMMA ListIsChanges ==
  ASSUME Snapshots, Plain
  PROVE  Filtered(CmpDirs(Tree1, Tree2)) = Changes
<1>1. CmpDirs(Tree1, Tree2) = ListOf(Tree1, Tree2, {p \in Changed : Reached(Tree1, Tree2, <<>>, p)})
  BY SnapshotTrees, ComparisonIsExact DEF Changed
<1>2. \A p \in Changed : Reached(Tree1, Tree2, <<>>, p)
  BY DEF Plain, Reached, Own
<1>3. {p \in Changed : Reached(Tree1, Tree2, <<>>, p)} = Changed
  BY <1>2
<1>4. \A p \in Changed : p \notin Ignored
  BY DEF Plain, Changed, Differing
<1>5. \A e \in Changes : e.name \notin Ignored
  BY <1>4 DEF Changes, ListOf, Entry
<1> QED BY <1>1, <1>3, <1>5 DEF Filtered, Changes

LEMMA TurnedListIsChanges ==
  ASSUME Snapshots, Plain
  PROVE  Filtered(Load(Save(CmpDirs(Tree2, Tree1), FALSE), TRUE)) = Changes
<1>1. Load(Save(CmpDirs(Tree2, Tree1), FALSE), TRUE) = CmpDirs(Tree1, Tree2)
  BY SnapshotTrees, SavedListsReturn
<1> QED BY <1>1, ListIsChanges

LEMMA ChangesNames ==
  /\ Names(Changes) = Changed
  /\ \A e \in Changes : e.name \in Changed /\ e = Entry(Tree1, Tree2, e.name)
  /\ \A p \in Changed : Entry(Tree1, Tree2, p) \in Changes /\ Entry(Tree1, Tree2, p).name = p
<1>1. Changes = {Entry(Tree1, Tree2, p) : p \in Changed}
  BY DEF Changes, ListOf
<1>2. \A p \in Changed : Entry(Tree1, Tree2, p) \in Changes /\ Entry(Tree1, Tree2, p).name = p
  BY <1>1 DEF Entry
<1>3. \A e \in Changes : e.name \in Changed /\ e = Entry(Tree1, Tree2, e.name)
  BY <1>1, <1>2
<1>4. Names(Changes) = Changed
  BY <1>2, <1>3 DEF Names
<1> QED BY <1>2, <1>3, <1>4

LEMMA ChangesKnown == ASSUME Snapshots PROVE Changes # Unknown
<1>1. \A e \in Changes : e.name # <<>>
  BY SnapshotTrees, ChangesNames DEF Changed, Differing
<1>2. \E e \in Unknown : e.name = <<>>
  BY DEF Unknown
<1> QED BY <1>1, <1>2

LEMMA NewAreCreated ==
  ASSUME NEW chosen \in SUBSET Changes, Changed \subseteq Names(chosen)
  PROVE  New(chosen) = CreatedOnly
<1>1. \A p \in Changed : Status(Tree1, Tree2, p) = {"CREATED"} <=> p \in CreatedOnly
  BY DEF Changed, Differing, Status, CreatedOnly, CmpFiles
<1>2. \A p \in CreatedOnly : p \in Changed
  BY DEF Changed, Differing, Status, CreatedOnly
<1>3. \A e \in chosen : e.name \in Changed /\ e.status = Status(Tree1, Tree2, e.name)
  BY ChangesNames DEF Entry
<1>4. New(chosen) \subseteq CreatedOnly
  BY <1>1, <1>3 DEF New
<1>5. ASSUME NEW p \in CreatedOnly PROVE p \in New(chosen)
  <2>1. PICK e \in chosen : e.name = p
    BY <1>2 DEF Names
  <2> QED BY <1>1, <1>2, <1>3, <2>1 DEF New
<1> QED BY <1>4, <1>5

LEMMA ChangedFinite == ASSUME Snapshots PROVE IsFiniteSet(Changed) /\ Changed \subseteq Seq(Nat)
<1>1. Changed \in SUBSET Path
  BY DEF Snapshots, IsSnapshot, Changed, Differing
<1> QED BY <1>1, CompareConstants, PathType, FS_Subset

-----------------------------------------------------------------------------
(* The invariant                                                           *)

Same == \E pair \in Pairs : pre = pair.pre /\ post = pair.post /\ method = pair.method
Coming == {steps[i] : i \in 1..Len(steps)}
InProgress ==
  /\ \A p \in DOMAIN answers : answers[p] = "ok"
  /\ Partway(system, DOMAIN answers)
  /\ InTurn(CreatedOnly, steps)
  /\ \A p \in DOMAIN answers : \A i \in 1..Len(steps) : Precedes(CreatedOnly, p, steps[i])
OnTheWay ==
  /\ list \in {Unknown, Changes}
  /\ list = Unknown => steps = <<>>
  /\ steps \in Seq(Changed)
  /\ DOMAIN answers \subseteq Changed
  /\ steps = <<>> /\ DOMAIN answers = {} => system = Tree2
  /\ Changed \subseteq DOMAIN answers \cup Coming => InProgress
Undisturbed == edits + faults = 0 /\ Plain
Inv ==
  /\ Same
  /\ edits \in Nat /\ faults \in Nat
  /\ Undisturbed => OnTheWay

LEMMA SameSnapshots == ASSUME Same PROVE Snapshots
<1>1. PICK pair \in Pairs : pre = pair.pre /\ post = pair.post
  BY DEF Same
<1>2. IsSnapshot(TreeOf(pair.pre)) /\ IsSnapshot(TreeOf(pair.post))
  BY UndoConstants
<1>3. ASSUME NEW t PROVE TreeOf(t) = [p \in DOMAIN TreeOf(t) |-> TreeOf(t)[p]]
  <2> DEFINE way == LET path[i \in DOMAIN t \cup {0}] == IF i = 0 THEN <<>> ELSE Append(path[t[i].up], t[i].name)
                      IN  path
             Paths == {way[i] : i \in DOMAIN t}
             NodeAt(p) == t[CHOOSE i \in DOMAIN t : way[i] = p].node
  <2>1. TreeOf(t) = [p \in Paths |-> NodeAt(p)]
    BY DEF TreeOf
  <2> HIDE DEF Paths, NodeAt
  <2> QED BY <2>1
<1> QED BY <1>1, <1>2, <1>3 DEF Snapshots, Tree1, Tree2

LEMMA AtFirst ==
  ASSUME Snapshots
  PROVE  Partway(Tree2, {})
<1>1. DOMAIN Tree2 = {p \in DOMAIN Tree1 \cup DOMAIN Tree2 : p \in DOMAIN Tree2}
  OBVIOUS
<1> QED BY <1>1 DEF Partway, Snapshots

LEMMA InitInv == Init => Inv
<1> SUFFICES ASSUME Init PROVE Inv
  OBVIOUS
<1>1. Same
  BY DEF Init, Same
<1>2. Snapshots
  BY <1>1, SameSnapshots
<1>3. edits = 0 /\ faults = 0 /\ list = Unknown /\ steps = <<>> /\ system = Tree2 /\ DOMAIN answers = {}
  BY DEF Init
<1>4. InTurn(CreatedOnly, steps)
  BY <1>3 DEF InTurn
<1>5. InProgress
  BY <1>2, <1>3, <1>4, AtFirst DEF InProgress
<1>6. steps \in Seq(Changed)
  BY <1>3
<1> QED BY <1>1, <1>3, <1>5, <1>6 DEF Inv, OnTheWay

(* The snapshots are read-only.                                            *)
LEMMA SnapshotsStay ==
  ASSUME [Next]_vars
  PROVE  pre' = pre /\ post' = post /\ method' = method
<1>1. CASE Send
  <2>1. method' = method
    BY <1>1 DEF Send, undoVars
  <2>2. ASSUME NEW i \in Ino, Make(i) \/ Evict(i) \/ Place(i) \/ Link(i) \/ Delete(i) \/ Change(i)
        PROVE  pre' = pre /\ post' = post
    <3>1. CASE Make(i)
      BY <3>1 DEF Make
    <3>2. CASE Evict(i)
      BY <3>2 DEF Evict, Renamed
    <3>3. CASE Place(i)
      BY <3>3 DEF Place, Renamed
    <3>4. CASE Link(i)
      BY <3>4 DEF Link
    <3>5. CASE Delete(i)
      BY <3>5 DEF Delete
    <3>6. CASE Change(i)
      BY <3>6 DEF Change
    <3> QED BY <2>2, <3>1, <3>2, <3>3, <3>4, <3>5, <3>6
  <2> QED BY <1>1, <2>1, <2>2 DEF Send, Command
<1>2. CASE Compare
  BY <1>2 DEF Compare, streamVars
<1>3. CASE Choose
  BY <1>3 DEF Choose, streamVars
<1>4. CASE Finished
  BY <1>4 DEF Finished, vars, streamVars, undoVars
<1>5. ASSUME NEW fault \in Fault \cup {"none"}, Undo(fault)
      PROVE  pre' = pre /\ post' = post /\ method' = method
  BY <1>5 DEF Undo, streamVars
<1>6. ASSUME NEW p \in Path, Edit(p)
      PROVE  pre' = pre /\ post' = post /\ method' = method
  BY <1>6 DEF Edit, streamVars
<1>7. CASE UNCHANGED vars
  BY <1>7 DEF vars, streamVars, undoVars
<1> QED BY <1>1, <1>2, <1>3, <1>4, <1>5, <1>6, <1>7 DEF Next

LEMMA TreesStay ==
  ASSUME pre' = pre, post' = post, method' = method
  PROVE  /\ Tree1' = Tree1 /\ Tree2' = Tree2 /\ Changed' = Changed /\ Changes' = Changes
         /\ CreatedOnly' = CreatedOnly /\ Plain' = Plain /\ Same' = Same
<1>1. Tree1' = Tree1 /\ Tree2' = Tree2
  BY DEF Tree1, Tree2
<1>2. Changed' = Changed /\ CreatedOnly' = CreatedOnly
  BY <1>1 DEF Changed, CreatedOnly
<1>3. Changes' = Changes
  BY <1>1, <1>2 DEF Changes
<1>4. Same' = Same
  BY DEF Same
<1>5. Followable' = Followable
  BY DEF Followable, MovesDir, ReusesDir, SameFiles
<1>6. \A p : WasLink(p)' = WasLink(p)
  BY <1>1 DEF WasLink
<1>7. Plain' = Plain
  BY <1>1, <1>5, <1>6 DEF Plain
<1> QED BY <1>1, <1>2, <1>3, <1>4, <1>7

(* The variables OnTheWay is about                                         *)
LEMMA OnTheWayStays ==
  ASSUME OnTheWay, pre' = pre, post' = post, method' = method, UNCHANGED <<list, steps, system, answers>>
  PROVE  OnTheWay'
<1>1. /\ Tree1' = Tree1 /\ Tree2' = Tree2 /\ Changed' = Changed /\ Changes' = Changes
      /\ CreatedOnly' = CreatedOnly
  BY TreesStay
<1>2. Coming' = Coming
  BY DEF Coming
<1>3. InProgress' = InProgress
  BY <1>1 DEF InProgress, Partway
<1> QED BY <1>1, <1>2, <1>3 DEF OnTheWay

LEMMA CompareStep ==
  ASSUME OnTheWay, Snapshots, Plain, Compare, method = "btrfs" => StreamExact,
         pre' = pre, post' = post, method' = method
  PROVE  OnTheWay'
<1>1. /\ Tree1' = Tree1 /\ Tree2' = Tree2 /\ Changed' = Changed /\ Changes' = Changes
      /\ CreatedOnly' = CreatedOnly
  BY TreesStay
<1>2. steps' = steps /\ system' = system /\ answers' = answers /\ steps = <<>>
  BY DEF Compare, OnTheWay
<1>3. list' = Changes
  <2>1. CASE method = "generic" /\ list' = Filtered(CmpDirs(Tree1, Tree2))
    BY <2>1, ListIsChanges
  <2>2. CASE method = "generic" /\ list' = Filtered(Load(Save(CmpDirs(Tree2, Tree1), FALSE), TRUE))
    BY <2>2, TurnedListIsChanges
  <2>3. CASE method = "btrfs" /\ Done /\ list' = Filtered(BtrfsCmpDirs)
    <3>1. BtrfsCmpDirs = CmpDirs(Tree1, Tree2)
      BY <2>3 DEF StreamExact, Plain
    <3> QED BY <2>3, <3>1, ListIsChanges
  <2> QED BY <2>1, <2>2, <2>3 DEF Compare
<1>4. Coming' = Coming
  BY <1>2 DEF Coming
<1>5. InProgress' = InProgress
  BY <1>1, <1>2 DEF InProgress, Partway
<1> QED BY <1>1, <1>2, <1>3, <1>4, <1>5 DEF OnTheWay

LEMMA ChooseStep ==
  ASSUME OnTheWay, Snapshots, Choose, pre' = pre, post' = post, method' = method
  PROVE  OnTheWay'
<1>1. /\ Tree1' = Tree1 /\ Tree2' = Tree2 /\ Changed' = Changed /\ Changes' = Changes
      /\ CreatedOnly' = CreatedOnly
  BY TreesStay
<1>2. /\ list = Changes /\ list' = list /\ system' = system /\ answers' = answers
      /\ DOMAIN answers = {} /\ system = Tree2
  BY DEF Choose, OnTheWay
<1>3. PICK chosen \in SUBSET Changes : chosen # {} /\ steps' = UndoSteps(chosen)
  BY <1>2 DEF Choose
<1>4. Names(chosen) \in SUBSET Changed
  BY ChangesNames DEF Names
<1>5. Names(chosen) \subseteq Seq(Nat) /\ IsFiniteSet(Names(chosen))
  BY <1>4, ChangedFinite, FS_Subset
<1>6. /\ steps' \in Seq(Names(chosen))
      /\ \A p \in Names(chosen) : \E i \in 1..Len(steps') : steps'[i] = p
      /\ InTurn(New(chosen), steps')
  BY <1>3, <1>5, UndoStepsComeInTurn
<1>7. steps' \in Seq(Changed)
  BY <1>4, <1>6, SeqMonotonic
<1>8. steps' # <<>>
  <2>1. Names(chosen) # {}
    BY <1>3 DEF Names
  <2>2. PICK p \in Names(chosen) : TRUE
    BY <2>1
  <2>3. PICK i \in 1..Len(steps') : steps'[i] = p
    BY <1>6
  <2> QED BY <2>3, EmptySeq
<1>9. ASSUME Changed \subseteq Coming' PROVE InProgress'
  <2>1. Changed \subseteq Names(chosen)
    <3>1. \A i \in 1..Len(steps') : steps'[i] \in Names(chosen)
      BY <1>6, ElementOfSeq
    <3> QED BY <1>9, <3>1 DEF Coming
  <2>2. New(chosen) = CreatedOnly
    BY <2>1, NewAreCreated
  <2>3. Partway(Tree2, {})
    BY AtFirst
  <2>4. Partway(system, DOMAIN answers)
    BY <1>2, <2>3
  <2>5. Partway(system, DOMAIN answers)'
    BY <1>1, <1>2, <2>4 DEF Partway
  <2> QED BY <1>1, <1>2, <1>6, <2>2, <2>5 DEF InProgress
<1>10. list' # Unknown'
  BY <1>2, ChangesKnown DEF Unknown
<1>11. (list \in {Unknown, Changes})'
  BY <1>1, <1>2
<1>12. (Changed \subseteq DOMAIN answers \cup Coming)' => Changed \subseteq Coming'
  BY <1>1, <1>2
<1>13. (DOMAIN answers \subseteq Changed)'
  BY <1>2
<1>14. (steps \in Seq(Changed))'
  BY <1>1, <1>7
<1> QED BY <1>8, <1>9, <1>10, <1>11, <1>12, <1>13, <1>14 DEF OnTheWay

LEMMA UndoStep ==
  ASSUME OnTheWay, Snapshots, Plain, Undo("none"), pre' = pre, post' = post, method' = method
  PROVE  OnTheWay'
<1> DEFINE p == Head(steps)
           file == Entry(Tree1, Tree2, p)
           r == DoUndo(system, file, "none")
           done == DOMAIN answers
<1>1. /\ Tree1' = Tree1 /\ Tree2' = Tree2 /\ Changed' = Changed /\ Changes' = Changes
      /\ CreatedOnly' = CreatedOnly
  BY TreesStay
<1>2. list = Changes /\ list' = Changes /\ steps # <<>> /\ steps \in Seq(Changed) /\ done \subseteq Changed
  BY DEF Undo, OnTheWay
<1>3. /\ Len(steps) \in Nat \ {0} /\ p = steps[1] /\ p \in Changed
      /\ Tail(steps) \in Seq(Changed) /\ Len(Tail(steps)) = Len(steps) - 1
      /\ \A i \in 1..Len(Tail(steps)) : i + 1 \in 1..Len(steps) /\ Tail(steps)[i] = steps[i + 1]
  <2>1. Len(steps) \in Nat \ {0}
    BY <1>2, EmptySeq
  <2>2. p = steps[1] /\ p \in Changed
    BY <1>2, <2>1, ElementOfSeq, HeadTailProperties
  <2> HIDE DEF p
  <2>3. Tail(steps) \in Seq(Changed) /\ Len(Tail(steps)) = Len(steps) - 1
    BY <1>2, HeadTailProperties
  <2>4. \A i \in 1..Len(Tail(steps)) : Tail(steps)[i] = steps[i + 1]
    BY <1>2, HeadTailProperties
  <2> QED BY <2>1, <2>2, <2>3, <2>4
<1>4. (CHOOSE e \in list : e.name = Head(steps)) = file
  BY <1>2, <1>3, ChangesNames
<1> HIDE DEF file
<1>5. /\ system' = r.tree
      /\ answers' = [q \in done \cup {file.name} |-> IF q = file.name THEN r.end ELSE answers[q]]
      /\ steps' = IF r.end = "blocked" THEN <<>> ELSE Tail(steps)
  <2> DEFINE chosen == CHOOSE e \in list : e.name = Head(steps)
             q == DoUndo(system, chosen, "none")
  <2>1. q = r
    BY <1>4
  <2>2. /\ system' = q.tree
        /\ answers' = [x \in DOMAIN answers \cup {chosen.name} |-> IF x = chosen.name THEN q.end ELSE answers[x]]
        /\ steps' = IF q.end = "blocked" THEN <<>> ELSE Tail(steps)
    BY DEF Undo
  <2> HIDE DEF q, r, chosen
  <2>3. chosen = file
    BY <1>4 DEF chosen
  <2> QED BY <2>1, <2>2, <2>3
<1>6. file.name = p
  BY DEF file, Entry
<1> HIDE DEF r, p
<1>7. DOMAIN answers' = done \cup {p} /\ answers'[p] = r.end /\ \A q \in done : q # p => answers'[q] = answers[q]
  BY <1>5, <1>6
<1>8. steps' \in Seq(Changed)
  BY <1>3, <1>5, EmptySeq
<1>9. Coming' \subseteq Coming /\ p \in Coming
  <2>1. CASE steps' = <<>>
    BY <1>3, <2>1, EmptySeq DEF Coming
  <2>2. CASE steps' = Tail(steps)
    BY <1>3, <2>2 DEF Coming
  <2> QED BY <1>5, <2>1, <2>2
<1>10. ASSUME Changed \subseteq DOMAIN answers' \cup Coming'
       PROVE  InProgress'
  <2>1. Changed \subseteq done \cup Coming
    BY <1>7, <1>9, <1>10
  <2>2. InProgress
    BY <2>1 DEF OnTheWay
  <2>3. \A q \in done : Precedes(CreatedOnly, q, p)
    BY <1>3, <2>2 DEF InProgress
  <2>4. p \notin done
    <3>1. ~Before(p, p)
      BY <1>3, ChangedFinite, BeforeOrders
    <3> QED BY <2>3, <3>1 DEF Precedes
  <2>5. \A i \in 1..Len(steps) : i > 1 => Precedes(CreatedOnly, p, steps[i])
    BY <1>3, <2>2 DEF InProgress, InTurn
  <2>6. Turns(done, p)
    <3>1. ASSUME NEW q \in Changed \ done, q # p
          PROVE  Precedes(CreatedOnly, p, q)
      <4>1. PICK i \in 1..Len(steps) : steps[i] = q
        BY <2>1 DEF Coming
      <4>2. i # 1
        BY <1>3, <3>1, <4>1
      <4> QED BY <2>5, <4>1, <4>2
    <3> QED BY <2>3, <3>1 DEF Turns
  <2>7. Partway(system, done)
    BY <2>2 DEF InProgress
  <2>8. r.end = "ok" /\ Partway(r.tree, done \cup {p})
    <3>1. done \in SUBSET Changed /\ p \in Changed \ done
      BY <1>2, <1>3, <2>4
    <3> HIDE DEF done
    <3> QED BY <2>6, <2>7, <3>1, StepLeadsOn DEF file, r
  <2>9. steps' = Tail(steps)
    BY <1>5, <2>8
  <2>10. Partway(system, DOMAIN answers)'
    BY <1>1, <1>5, <1>7, <2>8 DEF Partway
  <2>11. \A q \in DOMAIN answers' : answers'[q] = "ok"
    BY <1>7, <2>2, <2>8 DEF InProgress
  <2>12. InTurn(CreatedOnly, Tail(steps))
    <3> SUFFICES ASSUME NEW i \in 1..Len(Tail(steps)), NEW j \in 1..Len(Tail(steps)), i < j
                 PROVE  Precedes(CreatedOnly, Tail(steps)[i], Tail(steps)[j])
      BY DEF InTurn
    <3>1. i + 1 \in 1..Len(steps) /\ j + 1 \in 1..Len(steps) /\ i + 1 < j + 1
      BY <1>3
    <3>2. Precedes(CreatedOnly, steps[i + 1], steps[j + 1])
      BY <2>2, <3>1 DEF InProgress, InTurn
    <3> QED BY <1>3, <3>2
  <2>13. \A q \in done \cup {p} : \A i \in 1..Len(Tail(steps)) : Precedes(CreatedOnly, q, Tail(steps)[i])
    <3> TAKE q \in done \cup {p}
    <3> TAKE i \in 1..Len(Tail(steps))
    <3>1. i + 1 \in 1..Len(steps) /\ i + 1 > 1 /\ Tail(steps)[i] = steps[i + 1]
      BY <1>3
    <3>2. Precedes(CreatedOnly, q, steps[i + 1])
      BY <2>2, <2>5, <3>1 DEF InProgress
    <3> QED BY <3>1, <3>2
  <2> QED BY <1>1, <1>7, <2>9, <2>10, <2>11, <2>12, <2>13 DEF InProgress
<1>11. Changes # Unknown
  BY ChangesKnown
<1>12. (list \in {Unknown, Changes})' /\ list' # Unknown'
  BY <1>1, <1>2, <1>11 DEF Unknown
<1>13. (DOMAIN answers \subseteq Changed)' /\ DOMAIN answers' # {}
  BY <1>1, <1>2, <1>3, <1>7
<1>14. (steps \in Seq(Changed))'
  BY <1>1, <1>8
<1>15. (Changed \subseteq DOMAIN answers \cup Coming)' => InProgress'
  BY <1>1, <1>10
<1> QED BY <1>12, <1>13, <1>14, <1>15 DEF OnTheWay

LEMMA InvStep ==
  ASSUME Inv, [Next]_vars, method = "btrfs" => StreamExact
  PROVE  Inv'
<1>1. pre' = pre /\ post' = post /\ method' = method
  BY SnapshotsStay
<1>2. Same' /\ Plain' = Plain
  BY <1>1, TreesStay DEF Inv
<1>3. Snapshots
  BY SameSnapshots DEF Inv
<1> USE DEF Inv
<1>4. CASE Send
  <2>1. UNCHANGED <<list, steps, system, answers, edits, faults>>
    BY <1>4 DEF Send, undoVars
  <2>2. OnTheWay => OnTheWay'
    BY <1>1, <2>1, OnTheWayStays
  <2> QED BY <1>2, <2>1, <2>2 DEF Undisturbed
<1>5. CASE Compare
  <2>1. edits' = edits /\ faults' = faults
    BY <1>5 DEF Compare
  <2>2. OnTheWay /\ Plain => OnTheWay'
    BY <1>1, <1>3, <1>5, CompareStep
  <2> QED BY <1>2, <2>1, <2>2 DEF Undisturbed
<1>6. CASE Choose
  <2>1. edits' = edits /\ faults' = faults
    BY <1>6 DEF Choose
  <2>2. OnTheWay => OnTheWay'
    BY <1>1, <1>3, <1>6, ChooseStep
  <2> QED BY <1>2, <2>1, <2>2 DEF Undisturbed
<1>7. ASSUME NEW fault \in Fault \cup {"none"}, Undo(fault)
      PROVE  Inv'
  <2>1. edits' = edits /\ faults' = IF fault = "none" THEN faults ELSE faults + 1
    BY <1>7 DEF Undo
  <2>2. CASE fault = "none"
    <3>1. OnTheWay /\ Plain => OnTheWay'
      BY <1>1, <1>3, <1>7, <2>2, UndoStep
    <3> QED BY <1>2, <2>1, <2>2, <3>1 DEF Undisturbed
  <2>3. CASE fault # "none"
    BY <1>2, <2>1, <2>3 DEF Undisturbed
  <2> QED BY <2>2, <2>3
<1>8. ASSUME NEW p \in Path, Edit(p)
      PROVE  Inv'
  <2>1. edits' = edits + 1 /\ faults' = faults
    BY <1>8 DEF Edit
  <2> QED BY <1>2, <2>1 DEF Undisturbed
<1>9. CASE Finished \/ UNCHANGED vars
  <2>1. UNCHANGED <<list, steps, system, answers, edits, faults>>
    BY <1>9 DEF Finished, vars, undoVars
  <2>2. OnTheWay => OnTheWay'
    BY <1>1, <2>1, OnTheWayStays
  <2> QED BY <1>2, <2>1, <2>2 DEF Undisturbed
<1> QED BY <1>4, <1>5, <1>6, <1>7, <1>8, <1>9 DEF Next

(* A file that is not in the list is the same in both.                     *)
LEMMA OthersAreAlike ==
  ASSUME Snapshots, Plain, NEW p \in DOMAIN Tree1 \cup DOMAIN Tree2, p \notin Changed
  PROVE  p \in DOMAIN Tree1 /\ p \in DOMAIN Tree2 /\ Alike(Tree2[p], Tree1[p])
<1>1. p \in DOMAIN Tree1 /\ p \in DOMAIN Tree2 /\ CmpFiles(Tree1[p], Tree2[p]) = {}
  BY DEF Changed, Differing, Status
<1>2. /\ Tree1[p].type = Tree2[p].type /\ CmpFilesContent(Tree1[p], Tree2[p])
      /\ Tree1[p].perm = Tree2[p].perm /\ Tree1[p].owner = Tree2[p].owner
  BY <1>1 DEF CmpFiles
<1>3. /\ Tree1[p] \in AnyNode
      /\ Tree1[p].type = "dir" => Tree1[p].data = <<>>
      /\ Tree2[p].type = "dir" => Tree2[p].data = <<>>
  BY <1>1, SnapshotTrees, NodeType
<1>4. ~Special(Tree1[p]) /\ (Tree1[p].mtime = Tree2[p].mtime => Tree1[p].data = Tree2[p].data)
  BY <1>1 DEF Plain
<1>5. Tree1[p].type \in {"dir", "reg", "lnk"}
  BY <1>3, <1>4 DEF AnyNode, Special
<1>6. Tree1[p].data = Tree2[p].data
  BY <1>2, <1>3, <1>4, <1>5 DEF CmpFilesContent
<1> QED BY <1>1, <1>2, <1>6 DEF Alike

LEMMA InvMeans == Inv => UndoRestores
<1> SUFFICES ASSUME Inv, list # Unknown, DOMAIN answers = {e.name : e \in list}, steps = <<>>,
                    edits + faults = 0, Plain
             PROVE  /\ \A p \in DOMAIN answers : answers[p] = "ok"
                    /\ DOMAIN system = DOMAIN Tree1 /\ \A p \in DOMAIN system : Alike(system[p], Tree1[p])
  BY DEF UndoRestores
<1>1. Snapshots
  BY SameSnapshots DEF Inv
<1>2. list = Changes /\ DOMAIN answers = Changed
  BY ChangesNames DEF Inv, Undisturbed, OnTheWay, Names
<1>3. InProgress
  BY <1>2 DEF Inv, Undisturbed, OnTheWay
<1>4. Partway(system, Changed)
  BY <1>2, <1>3 DEF InProgress
<1>5. \A p \in DOMAIN Tree1 \cup DOMAIN Tree2 :
        p \notin Changed => p \in DOMAIN Tree1 /\ p \in DOMAIN Tree2 /\ Alike(Tree2[p], Tree1[p])
  BY <1>1, OthersAreAlike
<1>6. DOMAIN system = DOMAIN Tree1
  BY <1>4, <1>5 DEF Partway
<1>7. \A p \in DOMAIN system : Alike(system[p], Tree1[p])
  BY <1>4, <1>5, <1>6 DEF Partway
<1> QED BY <1>3, <1>6, <1>7 DEF InProgress

-----------------------------------------------------------------------------
(* The way to a file: where its path and the paths above lead              *)

Somewhere == Seq(Nat) \ {<<>>}
Leads(t, p, n, w) == w = [i \in 1..n |-> IF i = 1 THEN <<p[1]>> ELSE Append(Follow(t, w[i - 1]), p[i])]
Via(t, p, i) == Real(t, SubSeq(p, 1, i))

LEMMA WaysMeet ==
  ASSUME NEW t, NEW s, NEW p, NEW q, NEW n \in Nat, NEW m \in Nat, n <= m,
         \A i \in 1..n : p[i] = q[i],
         NEW v, Leads(t, p, n, v), NEW w, Leads(s, q, m, w),
         \A i \in 1..n-1 : Follow(s, v[i]) = Follow(t, v[i])
  PROVE  \A i \in 1..n : v[i] = w[i]
<1> DEFINE Bad == {i \in 1..n : v[i] # w[i]}
<1>1. \A i \in 1..n : v[i] = IF i = 1 THEN <<p[1]>> ELSE Append(Follow(t, v[i - 1]), p[i])
  BY DEF Leads
<1>2. \A i \in 1..n : w[i] = IF i = 1 THEN <<q[1]>> ELSE Append(Follow(s, w[i - 1]), q[i])
  <2>1. \A i \in 1..m : w[i] = IF i = 1 THEN <<q[1]>> ELSE Append(Follow(s, w[i - 1]), q[i])
    BY DEF Leads
  <2> QED BY <2>1
<1> SUFFICES ASSUME Bad # {} PROVE FALSE
  OBVIOUS
<1>3. Bad \in SUBSET Nat
  OBVIOUS
<1>4. PICK i \in Bad : \A j \in Bad : i <= j
  <2> HIDE DEF Bad
  <2> QED BY <1>3, LeastNumber
<1>5. i \in 1..n /\ v[i] # w[i]
  BY <1>4
<1>6. CASE i = 1
  <2>1. v[1] = <<p[1]>> /\ w[1] = <<q[1]>> /\ p[1] = q[1]
    BY <1>1, <1>2, <1>5, <1>6
  <2> QED BY <1>5, <1>6, <2>1
<1>7. CASE i # 1
  <2>1. i - 1 \in 1..n-1 /\ i - 1 \in 1..n /\ i - 1 \notin Bad
    BY <1>4, <1>5, <1>7
  <2>2. v[i - 1] = w[i - 1]
    BY <2>1
  <2>3. v[i] = Append(Follow(t, v[i - 1]), p[i]) /\ w[i] = Append(Follow(s, w[i - 1]), q[i])
    BY <1>1, <1>2, <1>5, <1>7
  <2>4. Follow(s, v[i - 1]) = Follow(t, v[i - 1]) /\ p[i] = q[i]
    BY <1>5, <2>1
  <2> QED BY <1>5, <2>2, <2>3, <2>4
<1> QED BY <1>6, <1>7

LEMMA WayIsOne ==
  ASSUME NEW t, NEW p, NEW n \in Nat, NEW v, Leads(t, p, n, v), NEW w, Leads(t, p, n, w)
  PROVE  v = w
<1>1. \A i \in 1..n : v[i] = w[i]
  BY WaysMeet
<1>2. v = [i \in 1..n |-> v[i]] /\ w = [i \in 1..n |-> w[i]]
  BY DEF Leads
<1> QED BY <1>1, <1>2

LEMMA WayIsThere ==
  ASSUME NEW t, NEW p, NEW n \in Nat
  PROVE  \E w : Leads(t, p, n, w)
<1> DEFINE Bad == {k \in Nat : ~\E w : Leads(t, p, k, w)}
<1> SUFFICES ASSUME Bad # {} PROVE FALSE
  OBVIOUS
<1>1. PICK k \in Bad : \A j \in Bad : k <= j
  <2>1. Bad \in SUBSET Nat
    OBVIOUS
  <2> HIDE DEF Bad
  <2> QED BY <2>1, LeastNumber
<1>2. k \in Nat /\ ~\E w : Leads(t, p, k, w)
  BY <1>1
<1>3. CASE k = 0
  <2>1. Leads(t, p, 0, [i \in 1..0 |-> 0])
    BY DEF Leads
  <2> QED BY <1>2, <1>3, <2>1
<1>4. CASE k # 0
  <2>1. k - 1 \in Nat /\ k - 1 \notin Bad
    BY <1>1, <1>2, <1>4
  <2>2. PICK v : Leads(t, p, k - 1, v)
    BY <2>1
  <2> DEFINE last == IF k = 1 THEN <<p[1]>> ELSE Append(Follow(t, v[k - 1]), p[k])
             w == [i \in 1..k |-> IF i = k THEN last ELSE v[i]]
  <2>3. \A i \in 1..k-1 : v[i] = IF i = 1 THEN <<p[1]>> ELSE Append(Follow(t, v[i - 1]), p[i])
    BY <2>2 DEF Leads
  <2>4. \A i \in 1..k : w[i] = IF i = 1 THEN <<p[1]>> ELSE Append(Follow(t, w[i - 1]), p[i])
    <3> TAKE i \in 1..k
    <3>1. CASE i = k
      <4>1. CASE k = 1
        BY <3>1, <4>1
      <4>2. CASE k # 1
        <5>1. k - 1 \in 1..k /\ k - 1 # k
          BY <1>2, <1>4, <4>2
        <5> QED BY <3>1, <4>2, <5>1
      <4> QED BY <4>1, <4>2
    <3>2. CASE i # k
      <4>1. i \in 1..k-1 /\ (i # 1 => i - 1 \in 1..k /\ i - 1 # k)
        BY <1>2, <3>2
      <4>2. w[i] = v[i] /\ (i # 1 => w[i - 1] = v[i - 1])
        BY <3>2, <4>1
      <4> HIDE DEF w
      <4> QED BY <2>3, <4>1, <4>2
    <3> QED BY <3>1, <3>2
  <2>5. w = [i \in 1..k |-> w[i]]
    OBVIOUS
  <2> HIDE DEF w
  <2>6. w = [i \in 1..k |-> IF i = 1 THEN <<p[1]>> ELSE Append(Follow(t, w[i - 1]), p[i])]
    BY <2>4, <2>5
  <2> QED BY <1>2, <2>6 DEF Leads
<1> QED BY <1>3, <1>4

LEMMA RealIsLast ==
  ASSUME NEW t, NEW p \in Somewhere, NEW w, Leads(t, p, Len(p), w)
  PROVE  Real(t, p) = w[Len(p)]
<1>1. Len(p) \in Nat
  BY LenProperties DEF Somewhere
<1>2. Real(t, p) = (CHOOSE v : Leads(t, p, Len(p), v))[Len(p)]
  BY DEF Real, Leads
<1>3. (CHOOSE v : Leads(t, p, Len(p), v)) = w
  BY <1>1, WayIsOne
<1> QED BY <1>2, <1>3

LEMMA PathUpTo ==
  ASSUME NEW p \in Somewhere, NEW i \in 1..Len(p)
  PROVE  /\ Len(p) \in Nat \ {0} /\ p \in Seq(Nat) /\ p[i] \in Nat
         /\ SubSeq(p, 1, i) \in Somewhere /\ Len(SubSeq(p, 1, i)) = i /\ IsPrefix(SubSeq(p, 1, i), p)
         /\ \A j \in 1..i : SubSeq(p, 1, i)[j] = p[j]
<1>1. p \in Seq(Nat) /\ Len(p) \in Nat /\ i \in 0..Len(p) /\ i > 0 /\ p[i] \in Nat
  BY LenProperties, ElementOfSeq DEF Somewhere
<1>2. SubSeq(p, 1, i) \in Seq(Nat) /\ Len(SubSeq(p, 1, i)) = i /\ IsPrefix(SubSeq(p, 1, i), p)
      /\ \A j \in 1..i : SubSeq(p, 1, i)[j] = p[j]
  BY <1>1, UpTo, PrefixIsSubSeq
<1>3. SubSeq(p, 1, i) # <<>>
  BY <1>1, <1>2, EmptyPrefix
<1> QED BY <1>1, <1>2, <1>3 DEF Somewhere

(* Where the paths above a path lead, one after the other                  *)
LEMMA WayGoesOn ==
  ASSUME NEW t, NEW p \in Somewhere
  PROVE  /\ Leads(t, p, Len(p), [i \in 1..Len(p) |-> Via(t, p, i)])
         /\ Via(t, p, Len(p)) = Real(t, p)
         /\ Via(t, p, 1) = <<p[1]>>
         /\ \A i \in 2..Len(p) : Via(t, p, i) = Append(Follow(t, Via(t, p, i - 1)), p[i])
<1>1. Len(p) \in Nat \ {0} /\ p \in Seq(Nat) /\ SubSeq(p, 1, Len(p)) = p
  BY LenProperties, EmptyPrefix, SubSeqFull DEF Somewhere
<1>2. PICK w : Leads(t, p, Len(p), w)
  BY <1>1, WayIsThere
<1>3. ASSUME NEW i \in 1..Len(p)
      PROVE  Via(t, p, i) = w[i]
  <2> DEFINE u == SubSeq(p, 1, i)
  <2>1. u \in Somewhere /\ Len(u) = i /\ \A j \in 1..i : u[j] = p[j]
    BY PathUpTo
  <2> HIDE DEF u
  <2>2. i \in Nat /\ i <= Len(p) /\ i \in 1..i
    BY <1>1
  <2>3. PICK v : Leads(t, u, i, v)
    BY <2>2, WayIsThere
  <2>4. \A j \in 1..i : v[j] = w[j]
    <3> DEFINE m == Len(p)
    <3>1. m \in Nat /\ i <= m /\ Leads(t, p, m, w)
      BY <1>1, <1>2, <2>2
    <3> HIDE DEF m
    <3> QED BY <2>1, <2>2, <2>3, <3>1, WaysMeet
  <2>5. Real(t, u) = v[i]
    BY <2>1, <2>3, RealIsLast
  <2> QED BY <2>2, <2>4, <2>5 DEF Via, u
<1>4. w = [i \in 1..Len(p) |-> w[i]]
  BY <1>2 DEF Leads
<1>5. w = [i \in 1..Len(p) |-> Via(t, p, i)]
  BY <1>3, <1>4
<1>6. \A i \in 1..Len(p) : w[i] = IF i = 1 THEN <<p[1]>> ELSE Append(Follow(t, w[i - 1]), p[i])
  BY <1>2 DEF Leads
<1>7. Via(t, p, 1) = <<p[1]>>
  <2>1. 1 \in 1..Len(p)
    BY <1>1
  <2>2. w[1] = <<p[1]>>
    BY <1>6, <2>1
  <2> QED BY <1>3, <2>1, <2>2
<1>8. ASSUME NEW i \in 2..Len(p)
      PROVE  Via(t, p, i) = Append(Follow(t, Via(t, p, i - 1)), p[i])
  <2>1. i \in 1..Len(p) /\ i - 1 \in 1..Len(p) /\ i # 1
    BY <1>1
  <2>2. w[i] = Append(Follow(t, w[i - 1]), p[i])
    BY <1>6, <2>1
  <2> QED BY <1>3, <2>1, <2>2
<1> QED BY <1>1, <1>2, <1>5, <1>7, <1>8 DEF Via

(* As long as every file on it leads where it did, the way stays.          *)
LEMMA WayStays ==
  ASSUME NEW t, NEW s, NEW p \in Somewhere,
         \A i \in 1..Len(p)-1 : Follow(s, Via(t, p, i)) = Follow(t, Via(t, p, i))
  PROVE  /\ \A i \in 1..Len(p) : Via(s, p, i) = Via(t, p, i)
         /\ Real(s, p) = Real(t, p)
<1> DEFINE v == [i \in 1..Len(p) |-> Via(t, p, i)]
           w == [i \in 1..Len(p) |-> Via(s, p, i)]
<1>1. Len(p) \in Nat \ {0}
  BY LenProperties, EmptyPrefix DEF Somewhere
<1>2. Leads(t, p, Len(p), v) /\ Leads(s, p, Len(p), w)
  BY WayGoesOn
<1>3. \A i \in 1..Len(p)-1 : Follow(s, v[i]) = Follow(t, v[i])
  BY <1>1
<1>4. \A i \in 1..Len(p) : v[i] = w[i]
  <2> DEFINE n == Len(p)
  <2>1. n \in Nat /\ n <= n /\ Leads(t, p, n, v) /\ Leads(s, p, n, w) /\ \A i \in 1..n-1 : Follow(s, v[i]) = Follow(t, v[i])
    BY <1>1, <1>2, <1>3
  <2> HIDE DEF v, w, n
  <2>2. \A i \in 1..n : v[i] = w[i]
    BY <2>1, WaysMeet
  <2> QED BY <2>2 DEF n
<1>5. \A i \in 1..Len(p) : Via(s, p, i) = Via(t, p, i)
  BY <1>4
<1>6. Len(p) \in 1..Len(p)
  BY <1>1
<1> QED BY <1>5, <1>6, WayGoesOn

-----------------------------------------------------------------------------
(* The system: a tree, in which a link leads below the root                *)

SysNode ==
  {n \in AnyNode : (n.type = "dir" => n.data = <<>>) /\ (n.type = "lnk" => n.data # <<>>)}
SystemOK(t) ==
  /\ t = [q \in DOMAIN t |-> t[q]] /\ DOMAIN t \subseteq Somewhere
  /\ \A q \in DOMAIN t : t[q] \in SysNode /\ IsDir(t, Front(q))

LEMMA SysNodeType ==
  \A n \in SysNode : /\ n.type \in {"dir", "reg", "lnk", "fifo", "socket", "device"} /\ n.data \in Seq(Nat)
                     /\ n.type = "dir" => n.data = <<>>
                     /\ n.type = "lnk" => n.data \in Somewhere
BY DEF SysNode, AnyNode, Somewhere

LEMMA NodeIsSysNode == \A n \in Node : n \in SysNode
BY DEF SysNode, AnyNode, Node

LEMMA FollowedIsPath ==
  ASSUME NEW t, SystemOK(t), NEW q \in Somewhere
  PROVE  Follow(t, q) \in Somewhere
BY SysNodeType DEF SystemOK, Follow

LEMMA AppendPath ==
  ASSUME NEW u \in Seq(Nat), NEW x \in Nat
  PROVE  /\ Append(u, x) \in Somewhere /\ Front(Append(u, x)) = u
         /\ IsPrefix(u, Append(u, x)) /\ Len(Append(u, x)) = Len(u) + 1
<1> DEFINE a == Append(u, x)
<1>1. Len(u) \in Nat
  BY LenProperties
<1>2. a \in Seq(Nat) /\ Len(a) = Len(u) + 1 /\ \A i \in 1..Len(u) : a[i] = u[i]
  BY AppendProperties
<1> HIDE DEF a
<1>3. IsPrefix(u, a)
  BY <1>1, <1>2, PrefixMeans
<1>4. a # <<>>
  BY <1>1, <1>2, EmptyPrefix
<1>5. Front(a) \in Seq(Nat) /\ Len(Front(a)) = Len(u) /\ IsPrefix(Front(a), a)
  BY <1>1, <1>2, <1>4, FrontProperties
<1>6. IsPrefix(Front(a), u) /\ IsPrefix(u, Front(a))
  BY <1>1, <1>2, <1>3, <1>5, PrefixOrder
<1>7. Front(a) = u
  BY <1>1, <1>5, <1>6, PrefixOrder
<1> QED BY <1>2, <1>3, <1>4, <1>7 DEF a, Somewhere

LEMMA ViaIsPath ==
  ASSUME NEW t, SystemOK(t), NEW p \in Somewhere
  PROVE  /\ \A i \in 1..Len(p) : Via(t, p, i) \in Somewhere
         /\ Real(t, p) \in Somewhere /\ Target(t, p) \in Somewhere
<1> DEFINE Bad == {i \in 1..Len(p) : Via(t, p, i) \notin Somewhere}
<1>1. Len(p) \in Nat \ {0} /\ \A i \in 1..Len(p) : p[i] \in Nat
  BY LenProperties, EmptyPrefix, ElementOfSeq DEF Somewhere
<1>2. Bad = {}
  <2> SUFFICES ASSUME Bad # {} PROVE FALSE
    OBVIOUS
  <2>1. PICK i \in Bad : \A j \in Bad : i <= j
    <3>1. Bad \in SUBSET Nat
      OBVIOUS
    <3> HIDE DEF Bad
    <3> QED BY <3>1, LeastNumber
  <2>2. i \in 1..Len(p) /\ Via(t, p, i) \notin Somewhere
    BY <2>1
  <2>3. CASE i = 1
    <3>1. Via(t, p, 1) = <<p[1]>> /\ p[1] \in Nat
      BY <1>1, <2>2, <2>3, WayGoesOn
    <3>2. <<p[1]>> \in Seq(Nat) /\ <<p[1]>> # <<>>
      BY <3>1
    <3> QED BY <2>2, <2>3, <3>1, <3>2 DEF Somewhere
  <2>4. CASE i # 1
    <3>1. i \in 2..Len(p) /\ i - 1 \in 1..Len(p) /\ i - 1 \notin Bad
      BY <1>1, <2>1, <2>2, <2>4
    <3>2. Via(t, p, i - 1) \in Somewhere
      BY <3>1
    <3>3. Follow(t, Via(t, p, i - 1)) \in Seq(Nat)
      BY <3>2, FollowedIsPath DEF Somewhere
    <3>4. Via(t, p, i) = Append(Follow(t, Via(t, p, i - 1)), p[i])
      BY <3>1, WayGoesOn
    <3> QED BY <1>1, <2>2, <3>3, <3>4, AppendPath
  <2> QED BY <2>3, <2>4
<1>3. \A i \in 1..Len(p) : Via(t, p, i) \in Somewhere
  BY <1>2
<1>4. Len(p) \in 1..Len(p)
  BY <1>1
<1>5. Real(t, p) \in Somewhere
  BY <1>3, <1>4, WayGoesOn
<1> QED BY <1>3, <1>5, FollowedIsPath DEF Target

(* A file on the way is in the directory the way has come to.              *)
LEMMA NextVia ==
  ASSUME NEW t, SystemOK(t), NEW p \in Somewhere, NEW i \in 2..Len(p)
  PROVE  /\ Front(Via(t, p, i)) = Follow(t, Via(t, p, i - 1))
         /\ IsPrefix(Follow(t, Via(t, p, i - 1)), Via(t, p, i))
         /\ Len(Via(t, p, i)) = Len(Follow(t, Via(t, p, i - 1))) + 1
         /\ Follow(t, Via(t, p, i - 1)) \in Somewhere
         /\ Via(t, p, i) \in DOMAIN t => IsDir(t, Follow(t, Via(t, p, i - 1)))
<1>1. i - 1 \in 1..Len(p) /\ i \in 1..Len(p)
  BY LenProperties DEF Somewhere
<1>2. Follow(t, Via(t, p, i - 1)) \in Somewhere /\ p[i] \in Nat
  BY <1>1, ViaIsPath, FollowedIsPath, PathUpTo
<1>3. Via(t, p, i) = Append(Follow(t, Via(t, p, i - 1)), p[i])
  BY WayGoesOn
<1>4. Front(Via(t, p, i)) = Follow(t, Via(t, p, i - 1))
      /\ IsPrefix(Follow(t, Via(t, p, i - 1)), Via(t, p, i))
      /\ Len(Via(t, p, i)) = Len(Follow(t, Via(t, p, i - 1))) + 1
  BY <1>2, <1>3, AppendPath DEF Somewhere
<1> QED BY <1>2, <1>4 DEF SystemOK

(* Behind a file that is not there nothing is, and no link.                *)
LEMMA WayEnds ==
  ASSUME NEW t, SystemOK(t), NEW p \in Somewhere, NEW i \in 1..Len(p), Via(t, p, i) \notin DOMAIN t
  PROVE  \A j \in i..Len(p) : /\ Via(t, p, j) \notin DOMAIN t
                              /\ IsPrefix(Via(t, p, i), Via(t, p, j))
                              /\ j # i => Len(Via(t, p, i)) < Len(Via(t, p, j))
<1> DEFINE On(j) == /\ Via(t, p, j) \notin DOMAIN t
                    /\ IsPrefix(Via(t, p, i), Via(t, p, j))
                    /\ j # i => Len(Via(t, p, i)) < Len(Via(t, p, j))
           Bad == {j \in i..Len(p) : ~On(j)}
<1>1. Len(p) \in Nat /\ i \in Nat \ {0}
  BY LenProperties DEF Somewhere
<1> SUFFICES ASSUME Bad # {} PROVE FALSE
  OBVIOUS
<1>2. PICK j \in Bad : \A k \in Bad : j <= k
  <2>1. Bad \in SUBSET Nat
    BY <1>1
  <2> HIDE DEF Bad
  <2> QED BY <2>1, LeastNumber
<1>3. j \in i..Len(p) /\ ~On(j)
  BY <1>2
<1>4. \A k \in 1..Len(p) : Via(t, p, k) \in Seq(Nat) /\ Len(Via(t, p, k)) \in Nat
  BY ViaIsPath, LenProperties DEF Somewhere
<1>5. CASE j = i
  BY <1>3, <1>4, <1>5, PrefixOrder
<1>6. CASE j # i
  <2>1. j - 1 \in i..Len(p) /\ j - 1 \notin Bad /\ j \in 2..Len(p) /\ j - 1 \in 1..Len(p) /\ j \in 1..Len(p)
    BY <1>1, <1>2, <1>3, <1>6
  <2>2. On(j - 1)
    BY <2>1
  <2>3. Follow(t, Via(t, p, j - 1)) = Via(t, p, j - 1)
    BY <2>2 DEF Follow
  <2>4. /\ IsPrefix(Via(t, p, j - 1), Via(t, p, j)) /\ Len(Via(t, p, j)) = Len(Via(t, p, j - 1)) + 1
        /\ Via(t, p, j) \in DOMAIN t => IsDir(t, Via(t, p, j - 1))
    BY <2>1, <2>3, NextVia
  <2>5. Via(t, p, j - 1) # <<>>
    BY <2>1, ViaIsPath DEF Somewhere
  <2>6. Via(t, p, j) \notin DOMAIN t
    BY <2>2, <2>4, <2>5 DEF IsDir
  <2> DEFINE a == Via(t, p, i)
             b == Via(t, p, j - 1)
             c == Via(t, p, j)
  <2>7. a \in Seq(Nat) /\ b \in Seq(Nat) /\ c \in Seq(Nat)
    BY <1>4, <2>1
  <2>8. IsPrefix(a, b) /\ IsPrefix(b, c) /\ Len(c) = Len(b) + 1
    BY <2>2, <2>4
  <2> HIDE DEF a, b, c
  <2>9. IsPrefix(a, c) /\ Len(a) <= Len(b) /\ Len(a) \in Nat /\ Len(b) \in Nat
    BY <2>7, <2>8, PrefixOrder, LenProperties
  <2>10. Len(a) < Len(c)
    BY <2>8, <2>9
  <2> QED BY <1>3, <2>6, <2>9, <2>10 DEF a, c
<1> QED BY <1>5, <1>6

(* The directories above what is in a directory                            *)
LEMMA InDirsOf ==
  ASSUME NEW t, SystemOK(t), NEW q \in Somewhere, IsDir(t, Front(q))
  PROVE  InDirs(t, q)
<1> DEFINE n == Len(q) - 1
           Bad == {k \in 1..n : ~(SubSeq(q, 1, k) \in DOMAIN t /\ t[SubSeq(q, 1, k)].type = "dir")}
           Far == {n - k : k \in Bad}
<1>1. q \in Seq(Nat) /\ q # <<>> /\ n \in Nat /\ Front(q) = SubSeq(q, 1, n)
  BY LenProperties, EmptyPrefix DEF Somewhere, Front
<1>2. \A k \in 0..n : /\ SubSeq(q, 1, k) \in Seq(Nat) /\ Len(SubSeq(q, 1, k)) = k /\ (k > 0 => SubSeq(q, 1, k) # <<>>)
                      /\ IsPrefix(SubSeq(q, 1, k), q)
  <2> TAKE k \in 0..n
  <2>1. k \in 0..Len(q)
    BY <1>1
  <2>2. SubSeq(q, 1, k) \in Seq(Nat) /\ Len(SubSeq(q, 1, k)) = k /\ IsPrefix(SubSeq(q, 1, k), q)
    BY <1>1, <2>1, UpTo, PrefixIsSubSeq
  <2> QED BY <2>2, EmptyPrefix
<1>3. Bad = {}
  <2> SUFFICES ASSUME Bad # {} PROVE FALSE
    OBVIOUS
  <2>1. PICK d \in Far : \A e \in Far : d <= e
    <3>1. Far \in SUBSET Nat /\ Far # {}
      BY <1>1
    <3> HIDE DEF Far
    <3> QED BY <3>1, LeastNumber
  <2>2. PICK k \in Bad : d = n - k
    BY <2>1
  <2>3. \A j \in Bad : j \in 1..n /\ j <= k
    <3> TAKE j \in Bad
    <3>1. n - j \in Far /\ j \in 1..n /\ k \in 1..n
      OBVIOUS
    <3>2. n - k <= n - j
      BY <2>1, <2>2, <3>1
    <3> HIDE DEF n, Bad, Far
    <3> QED BY <1>1, <3>1, <3>2
  <2>4. CASE k = n
    <3>1. n > 0 /\ n \in 0..n
      BY <1>1, <2>2, <2>4
    <3>2. Front(q) # <<>>
      BY <1>1, <1>2, <3>1
    <3> QED BY <1>1, <2>2, <2>4, <3>2 DEF IsDir
  <2>5. CASE k # n
    <3> DEFINE u == SubSeq(q, 1, k)
               v == SubSeq(q, 1, k + 1)
    <3>1. k + 1 \in 1..n /\ k + 1 \notin Bad /\ k \in 0..n /\ k + 1 \in 0..n /\ k > 0
      <4>1. k \in 1..n /\ ~(k + 1 <= k)
        BY <1>1, <2>2
      <4>2. k + 1 \notin Bad
        BY <2>3, <4>1
      <4> HIDE DEF n, Bad
      <4> QED BY <1>1, <2>5, <4>1, <4>2
    <3>2. v \in DOMAIN t /\ u \in Seq(Nat) /\ v \in Seq(Nat) /\ Len(u) = k /\ Len(v) = k + 1 /\ u # <<>> /\ v # <<>>
      <4>1. v \in DOMAIN t
        BY <3>1
      <4>2. u \in Seq(Nat) /\ Len(u) = k /\ u # <<>>
        BY <1>2, <3>1
      <4>3. k + 1 \in 0..n /\ k + 1 > 0
        BY <3>1
      <4>4. v \in Seq(Nat) /\ Len(v) = k + 1 /\ v # <<>>
        BY <1>2, <4>3
      <4> QED BY <4>1, <4>2, <4>4
    <3>3. IsPrefix(u, q) /\ IsPrefix(v, q) /\ k <= k + 1 /\ ~(u \in DOMAIN t /\ t[u].type = "dir")
      BY <1>2, <2>2, <3>1
    <3> HIDE DEF u, v
    <3>4. IsPrefix(u, v)
      BY <1>1, <3>1, <3>2, <3>3, PrefixOrder
    <3>5. Front(v) \in Seq(Nat) /\ Len(Front(v)) = k /\ IsPrefix(Front(v), v)
      BY <3>1, <3>2, FrontProperties
    <3>6. Front(v) = u
      BY <3>1, <3>2, <3>4, <3>5, PrefixOrder
    <3> QED BY <3>2, <3>3, <3>6 DEF SystemOK, IsDir
  <2> QED BY <2>4, <2>5
<1>4. ASSUME NEW c \in Seq(Nat) \ {<<>>}, IsStrictPrefix(c, q)
      PROVE  c \in DOMAIN t /\ t[c].type = "dir"
  <2>1. IsPrefix(c, q) /\ Len(c) < Len(q) /\ Len(c) \in Nat /\ Len(c) > 0
    BY <1>1, <1>4, PrefixOrder, LenProperties, EmptyPrefix
  <2>2. Len(c) \in 1..n /\ Len(c) \in 0..Len(q)
    BY <1>1, <2>1
  <2>3. c = SubSeq(q, 1, Len(c))
    BY <1>1, <2>1, <2>2, PrefixIsSubSeq
  <2> QED BY <1>3, <2>2, <2>3
<1> QED BY <1>4 DEF InDirs

LEMMA InDirsOfFile ==
  ASSUME NEW t, SystemOK(t), NEW q \in DOMAIN t
  PROVE  q \in Somewhere /\ InDirs(t, q) /\ Real(t, q) = q
BY InDirsOf, RealIsPath DEF SystemOK, Somewhere

LEMMA FrontAbove ==
  ASSUME NEW q \in Somewhere
  PROVE  Front(q) \in Seq(Nat) /\ IsStrictPrefix(Front(q), q) /\ Front(q) # q
<1>1. Front(q) \in Seq(Nat) /\ Len(Front(q)) = Len(q) - 1 /\ IsPrefix(Front(q), q) /\ Len(q) \in Nat
  BY FrontProperties, LenProperties DEF Somewhere
<1> QED BY <1>1, PrefixOrder DEF Somewhere

(* What is put where it can be, and taken away with nothing below it       *)
LEMMA PutInDir ==
  ASSUME NEW t, SystemOK(t), NEW q \in Somewhere, IsDir(t, Front(q)), NEW n
  PROVE  PutFlags(t, q, n) = Having(t, q, n)
BY InDirsOf, OnTheSpot DEF Somewhere

LEMMA SystemHaving ==
  ASSUME NEW t, SystemOK(t), NEW q \in Somewhere, IsDir(t, Front(q)), NEW n \in SysNode,
         q \in DOMAIN t /\ t[q].type = "dir" => n.type = "dir"
  PROVE  SystemOK(Having(t, q, n))
<1> DEFINE s == Having(t, q, n)
<1>1. DOMAIN s = DOMAIN t \cup {q} /\ s[q] = n /\ \A r \in DOMAIN t : r # q => s[r] = t[r]
  BY DEF Having
<1>2. s = [r \in DOMAIN s |-> s[r]]
  BY DEF Having
<1> HIDE DEF s
<1>3. \A d : IsDir(t, d) => IsDir(s, d)
  BY <1>1 DEF IsDir
<1>4. DOMAIN s \subseteq Somewhere
  BY <1>1 DEF SystemOK
<1>5. ASSUME NEW r \in DOMAIN s
      PROVE  s[r] \in SysNode /\ IsDir(s, Front(r))
  <2>1. CASE r = q
    BY <1>1, <1>3, <2>1
  <2>2. CASE r # q
    BY <1>1, <1>3, <2>2 DEF SystemOK
  <2> QED BY <2>1, <2>2
<1> QED BY <1>2, <1>4, <1>5 DEF SystemOK, s

LEMMA SystemWithout ==
  ASSUME NEW t, SystemOK(t), NEW q \in DOMAIN t, Below(t, q) = {}
  PROVE  SystemOK(Without(t, q))
<1> DEFINE s == Without(t, q)
<1>1. DOMAIN s = DOMAIN t \ {q} /\ \A r \in DOMAIN s : s[r] = t[r]
  BY DEF Without
<1>2. s = [r \in DOMAIN s |-> s[r]]
  BY DEF Without
<1> HIDE DEF s
<1>3. ASSUME NEW r \in DOMAIN s
      PROVE  s[r] \in SysNode /\ IsDir(s, Front(r))
  <2>1. r \in DOMAIN t /\ r \in Somewhere
    BY <1>1 DEF SystemOK
  <2>2. Front(r) # q
    BY <2>1, FrontAbove DEF Below
  <2>3. t[r] \in SysNode /\ IsDir(t, Front(r))
    BY <2>1 DEF SystemOK
  <2> QED BY <1>1, <2>2, <2>3 DEF IsDir
<1> QED BY <1>1, <1>2, <1>3 DEF SystemOK, s

-----------------------------------------------------------------------------
(* What a step keeps of a system                                           *)

WayKept(t, s, p) == \A i \in 1..Len(p)-1 : Follow(s, Via(t, p, i)) = Follow(t, Via(t, p, i))
OldLink(t, p, n) == Real(t, p) \in DOMAIN t /\ t[Real(t, p)].type = "lnk" /\ n.data = t[Real(t, p)].data
WasLinkFirst(p) == p \in DOMAIN Tree1 /\ Tree1[p].type = "lnk"
LinkAllowed(t, p, n) == n.type = "lnk" => OldLink(t, p, n) \/ WasLinkFirst(p)
KeptBut(t, s, p, X) ==
  /\ SystemOK(s) /\ WayKept(t, s, p)
  /\ \A q \in DOMAIN t \ X : q \in DOMAIN s /\ s[q] = t[q]
  /\ \A q \in DOMAIN s \ DOMAIN t : IsPrefix(q, Real(t, p)) \/ q \in X
  /\ Real(t, p) \in DOMAIN s => LinkAllowed(t, p, s[Real(t, p)])

LEMMA KeptWay ==
  ASSUME NEW t, NEW s, NEW p \in Somewhere, WayKept(t, s, p)
  PROVE  Real(s, p) = Real(t, p) /\ \A i \in 1..Len(p) : Via(s, p, i) = Via(t, p, i)
BY WayStays DEF WayKept

LEMMA KeptItself ==
  ASSUME NEW t, SystemOK(t), NEW p, NEW X
  PROVE  KeptBut(t, t, p, X)
BY DEF KeptBut, WayKept, LinkAllowed, OldLink

LEMMA KeptMore ==
  ASSUME NEW t, NEW s, NEW p, NEW X, KeptBut(t, s, p, X), NEW Y, X \subseteq Y
  PROVE  KeptBut(t, s, p, Y)
BY DEF KeptBut

LEMMA KeptPut ==
  ASSUME NEW t, NEW s, NEW p, NEW X, KeptBut(t, s, p, X),
         NEW q \in Somewhere, q \in X, IsDir(s, Front(q)), NEW n \in SysNode,
         q \in DOMAIN s /\ s[q].type = "dir" => n.type = "dir",
         (\E i \in 1..Len(p)-1 : Via(t, p, i) = q) => Follow(t, q) = Follow(Having(s, q, n), q),
         q = Real(t, p) => LinkAllowed(t, p, n)
  PROVE  KeptBut(t, Having(s, q, n), p, X)
<1> DEFINE r == Having(s, q, n)
<1>1. DOMAIN r = DOMAIN s \cup {q} /\ r[q] = n /\ \A x \in DOMAIN s : x # q => r[x] = s[x]
  BY DEF Having
<1>2. SystemOK(r)
  BY SystemHaving DEF KeptBut
<1> HIDE DEF r
<1>3. WayKept(t, r, p)
  <2> SUFFICES ASSUME NEW i \in 1..Len(p)-1
               PROVE  Follow(r, Via(t, p, i)) = Follow(t, Via(t, p, i))
    BY DEF WayKept
  <2>1. CASE Via(t, p, i) = q
    BY <2>1 DEF r
  <2>2. CASE Via(t, p, i) # q
    <3>1. Follow(r, Via(t, p, i)) = Follow(s, Via(t, p, i))
      BY <1>1, <2>2 DEF Follow
    <3> QED BY <3>1 DEF KeptBut, WayKept
  <2> QED BY <2>1, <2>2
<1>4. \A x \in DOMAIN t \ X : x \in DOMAIN r /\ r[x] = t[x]
  BY <1>1 DEF KeptBut
<1>5. \A x \in DOMAIN r \ DOMAIN t : IsPrefix(x, Real(t, p)) \/ x \in X
  BY <1>1 DEF KeptBut
<1>6. Real(t, p) \in DOMAIN r => LinkAllowed(t, p, r[Real(t, p)])
  BY <1>1 DEF KeptBut
<1> QED BY <1>2, <1>3, <1>4, <1>5, <1>6 DEF KeptBut, r

(* The same with other permissions or another owner                        *)
Retouched(n, m) == n.type = m.type /\ n.data = m.data

LEMMA RetouchedLeads ==
  ASSUME NEW s, NEW q \in DOMAIN s, NEW n, Retouched(n, s[q])
  PROVE  \A x : Follow(Having(s, q, n), x) = Follow(s, x)
BY DEF Retouched, Follow, Having

LEMMA KeptRetouched ==
  ASSUME NEW t, NEW s, NEW p \in Somewhere, NEW X, KeptBut(t, s, p, X),
         NEW q \in DOMAIN s, q \in X, NEW n \in SysNode, Retouched(n, s[q])
  PROVE  /\ KeptBut(t, Having(s, q, n), p, X)
         /\ Target(Having(s, q, n), p) = Target(s, p)
<1> DEFINE r == Having(s, q, n)
<1>1. SystemOK(s) /\ WayKept(t, s, p)
  BY DEF KeptBut
<1>2. q \in Somewhere /\ IsDir(s, Front(q)) /\ n.type = s[q].type
  BY <1>1 DEF SystemOK, Retouched
<1>3. \A x : Follow(r, x) = Follow(s, x)
  BY RetouchedLeads
<1>4. (\E i \in 1..Len(p)-1 : Via(t, p, i) = q) => Follow(t, q) = Follow(r, q)
  BY <1>1, <1>3 DEF WayKept
<1>5. q = Real(t, p) => LinkAllowed(t, p, n)
  <2> HAVE q = Real(t, p)
  <2>1. LinkAllowed(t, p, s[q])
    BY DEF KeptBut
  <2> QED BY <2>1 DEF LinkAllowed, OldLink, Retouched
<1>6. KeptBut(t, r, p, X)
  BY <1>2, <1>4, <1>5, KeptPut
<1> HIDE DEF r
<1>7. Real(r, p) = Real(t, p) /\ Real(s, p) = Real(t, p)
  BY <1>1, <1>6, KeptWay DEF KeptBut
<1> QED BY <1>3, <1>6, <1>7 DEF Target, r

(* Deleting: the file goes, or nothing happens.                            *)
LEMMA KeptDelete ==
  ASSUME NEW t, SystemOK(t), NEW s, NEW p \in Somewhere, NEW X, KeptBut(t, s, p, X),
         Unbent(t, p), Real(t, p) \in X, NEW fault
  PROVE  LET r == DeleteAllTypes(s, p, fault)
             q == Real(t, p)
         IN  /\ r.end \in {"ok", "failed"}
             /\ KeptBut(t, r.tree, p, X)
             /\ r.end = "ok" => q \notin DOMAIN r.tree \/ Special(r.tree[q])
             /\ r.tree = s \/ q \notin DOMAIN r.tree
<1> DEFINE r == DeleteAllTypes(s, p, fault)
           q == Real(t, p)
           w == Without(s, q)
<1>1. SystemOK(s) /\ WayKept(t, s, p)
  BY DEF KeptBut
<1>2. Real(s, p) = q
  BY <1>1, KeptWay
<1>3. Restrict(s, DOMAIN s \ {q}) = w
  BY DEF Restrict, Without
<1>4. \/ r = Ok(s) /\ (q \notin DOMAIN s \/ Special(s[q]))
      \/ r = Failed(s)
      \/ r = Ok(w) /\ q \in DOMAIN s /\ Below(s, q) = {}
  <2> HIDE DEF q, w
  <2>1. CASE q \notin DOMAIN s
    BY <1>2, <2>1 DEF DeleteAllTypes
  <2>2. CASE q \in DOMAIN s /\ Special(s[q])
    BY <1>2, <2>2 DEF DeleteAllTypes
  <2>3. CASE q \in DOMAIN s /\ ~Special(s[q])
    <3>1. CASE fault = "unlink" \/ (IsDir(s, q) /\ (Below(s, q) # {} \/ s[q].dev # "own"))
      BY <1>2, <2>3, <3>1 DEF DeleteAllTypes
    <3>2. CASE ~(fault = "unlink" \/ (IsDir(s, q) /\ (Below(s, q) # {} \/ s[q].dev # "own")))
      <4>1. r = Ok(w)
        BY <1>2, <1>3, <2>3, <3>2 DEF DeleteAllTypes
      <4>2. Below(s, q) = {}
        <5> SUFFICES ASSUME NEW x \in Below(s, q) PROVE FALSE
          OBVIOUS
        <5>1. q \in Somewhere
          BY <1>1, <2>3 DEF SystemOK
        <5>2. x \in DOMAIN s /\ IsStrictPrefix(q, x)
          BY DEF Below
        <5>3. s[q].type = "dir"
          BY <1>1, <5>1, <5>2, InDirsOfFile DEF InDirs, Somewhere
        <5> QED BY <2>3, <3>2, <5>1, <5>3 DEF IsDir, Somewhere
      <4> QED BY <2>3, <4>1, <4>2
    <3> QED BY <3>1, <3>2
  <2> QED BY <2>1, <2>2, <2>3
<1>5. ASSUME q \in DOMAIN s, Below(s, q) = {}
      PROVE  KeptBut(t, w, p, X)
  <2>1. DOMAIN w = DOMAIN s \ {q} /\ \A x \in DOMAIN w : w[x] = s[x]
    BY DEF Without
  <2>2. SystemOK(w)
    BY <1>1, <1>5, SystemWithout
  <2> HIDE DEF w
  <2>3. WayKept(t, w, p)
    <3> SUFFICES ASSUME NEW i \in 1..Len(p)-1
                 PROVE  Follow(w, Via(t, p, i)) = Follow(t, Via(t, p, i))
      BY DEF WayKept
    <3>1. Via(t, p, i) # q
      BY DEF Unbent, Via
    <3>2. Follow(w, Via(t, p, i)) = Follow(s, Via(t, p, i))
      BY <2>1, <3>1 DEF Follow
    <3> QED BY <1>1, <3>2 DEF WayKept
  <2> QED BY <2>1, <2>2, <2>3 DEF KeptBut
<1>6. q \notin DOMAIN w
  BY DEF Without
<1>7. /\ r.end \in {"ok", "failed"}
      /\ KeptBut(t, r.tree, p, X)
      /\ r.end = "ok" => q \notin DOMAIN r.tree \/ Special(r.tree[q])
      /\ r.tree = s \/ q \notin DOMAIN r.tree
  <2> HIDE DEF r, w, q
  <2>1. CASE r = Ok(s) /\ (q \notin DOMAIN s \/ Special(s[q]))
    BY <2>1 DEF Ok, Answer
  <2>2. CASE r = Failed(s)
    BY <2>2 DEF Failed, Answer
  <2>3. CASE r = Ok(w) /\ q \in DOMAIN s /\ Below(s, q) = {}
    BY <1>5, <1>6, <2>3 DEF Ok, Answer
  <2> QED BY <1>4, <2>1, <2>2, <2>3
<1> QED BY <1>7 DEF r, q

-----------------------------------------------------------------------------
(* The directories above are made where the way leads.                     *)

MakesOn(t, p, fault, prev, i) ==
  LET q == SubSeq(p, 1, i)
      s == prev.tree
  IN  IF Target(t, q) \in DOMAIN t
      THEN IF IsDir(t, Target(t, q)) THEN Ok(t) ELSE Failed(t)
      ELSE IF prev.end # "ok" THEN prev
      ELSE IF fault = "mkdir" \/ Real(s, q) \in DOMAIN s THEN Failed(s)
      ELSE Ok(PutFlags(s, Real(s, q), NewDir))
MakesUpTo(t, p, fault, n, make) == make = [i \in 0..n |-> MakesAt(t, p, fault, make, i)]

LEMMA MakesAtMeans ==
  ASSUME NEW t, NEW p, NEW fault, NEW make
  PROVE  /\ MakesAt(t, p, fault, make, 0) = Ok(t)
         /\ \A i : i # 0 => MakesAt(t, p, fault, make, i) = MakesOn(t, p, fault, make[i - 1], i)
BY DEF MakesAt, MakesOn, Then

LEMMA MakingIsThere ==
  ASSUME NEW t, NEW p, NEW fault, NEW n \in Nat
  PROVE  \E make : MakesUpTo(t, p, fault, n, make)
<1> DEFINE Bad == {k \in Nat : ~\E w : MakesUpTo(t, p, fault, k, w)}
<1> SUFFICES ASSUME Bad # {} PROVE FALSE
  OBVIOUS
<1>1. PICK k \in Bad : \A j \in Bad : k <= j
  <2>1. Bad \in SUBSET Nat
    OBVIOUS
  <2> HIDE DEF Bad
  <2> QED BY <2>1, LeastNumber
<1>2. k \in Nat /\ ~\E w : MakesUpTo(t, p, fault, k, w)
  BY <1>1
<1>3. CASE k = 0
  <2> DEFINE w == [i \in 0..0 |-> Ok(t)]
  <2>1. \A i \in 0..0 : MakesAt(t, p, fault, w, i) = Ok(t)
    <3> HIDE DEF w
    <3> QED BY MakesAtMeans
  <2>2. w = [i \in 0..0 |-> MakesAt(t, p, fault, w, i)]
    BY <2>1
  <2> HIDE DEF w
  <2> QED BY <1>2, <1>3, <2>2 DEF MakesUpTo
<1>4. CASE k # 0
  <2>1. k - 1 \in Nat /\ k - 1 \notin Bad
    BY <1>1, <1>2, <1>4
  <2>2. PICK v : MakesUpTo(t, p, fault, k - 1, v)
    BY <2>1
  <2> DEFINE last == MakesOn(t, p, fault, v[k - 1], k)
             w == [i \in 0..k |-> IF i = k THEN last ELSE v[i]]
  <2>3. \A i \in 0..k-1 : v[i] = MakesAt(t, p, fault, v, i)
    BY <2>2 DEF MakesUpTo
  <2>4. \A i \in 0..k : w[i] = MakesAt(t, p, fault, w, i)
    <3> TAKE i \in 0..k
    <3>1. CASE i = k
      <4> HIDE DEF last
      <4>1. k - 1 \in 0..k /\ k \in 0..k /\ k - 1 # k
        BY <1>2, <1>4
      <4>2. w[k - 1] = v[k - 1] /\ w[k] = last
        BY <4>1
      <4> HIDE DEF w
      <4>3. MakesAt(t, p, fault, w, k) = MakesOn(t, p, fault, w[k - 1], k)
        BY <1>4, MakesAtMeans
      <4> QED BY <3>1, <4>2, <4>3 DEF last
    <3>2. CASE i # k /\ i = 0
      <4>1. 0 \in 0..k-1
        BY <1>2, <1>4
      <4>2. w[0] = v[0]
        BY <1>2, <3>2
      <4> HIDE DEF w
      <4> QED BY <2>3, <3>2, <4>1, <4>2, MakesAtMeans
    <3>3. CASE i # k /\ i # 0
      <4>1. i \in 0..k-1 /\ i - 1 \in 0..k-1 /\ i - 1 \in 0..k /\ i - 1 # k
        BY <1>2, <3>3
      <4> HIDE DEF last
      <4>2. w[i] = v[i] /\ w[i - 1] = v[i - 1]
        BY <3>3, <4>1
      <4> HIDE DEF w
      <4>3. MakesAt(t, p, fault, w, i) = MakesOn(t, p, fault, w[i - 1], i)
            /\ MakesAt(t, p, fault, v, i) = MakesOn(t, p, fault, v[i - 1], i)
        BY <3>3, MakesAtMeans
      <4> QED BY <2>3, <4>1, <4>2, <4>3
    <3> QED BY <3>1, <3>2, <3>3
  <2>5. w = [i \in 0..k |-> w[i]]
    OBVIOUS
  <2> HIDE DEF w
  <2>6. w = [i \in 0..k |-> MakesAt(t, p, fault, w, i)]
    BY <2>4, <2>5
  <2> QED BY <1>2, <2>6 DEF MakesUpTo
<1> QED BY <1>3, <1>4

(* With the directories on the first i stretches of the way                *)
Grown(t, s, p, i) ==
  /\ SystemOK(s)
  /\ \A q \in DOMAIN t : q \in DOMAIN s /\ s[q] = t[q]
  /\ \A q \in DOMAIN s \ DOMAIN t : s[q] = NewDir /\ \E j \in 1..i : q = Via(t, p, j)
GrownBy(t, r, p, i) ==
  /\ r.end \in {"ok", "failed"} /\ Grown(t, r.tree, p, i)
  /\ r.end = "ok" /\ i > 0 => IsDir(r.tree, Follow(t, Via(t, p, i)))

LEMMA GrownWay ==
  ASSUME NEW t, NEW s, NEW p, NEW i, Grown(t, s, p, i)
  PROVE  WayKept(t, s, p)
<1>1. NewDir.type = "dir"
  BY DEF NewDir
<1>2. \A q : Follow(s, q) = Follow(t, q)
  BY <1>1 DEF Grown, Follow
<1> QED BY <1>2 DEF WayKept

LEMMA NewDirIsNode == NewDir \in SysNode /\ NewDir.type = "dir"
BY EmptySeq DEF NewDir, SysNode, AnyNode

LEMMA GrowsOn ==
  ASSUME NEW t, SystemOK(t), NEW p \in Somewhere, NEW fault, NEW prev,
         NEW i \in 1..Len(p)-1, GrownBy(t, prev, p, i - 1)
  PROVE  GrownBy(t, MakesOn(t, p, fault, prev, i), p, i)
<1> DEFINE q == SubSeq(p, 1, i)
           g == Target(t, q)
           s == prev.tree
           v == Via(t, p, i)
           r == MakesOn(t, p, fault, prev, i)
<1>1. Len(p) \in Nat /\ i \in Nat \ {0} /\ i \in 1..Len(p)
  BY LenProperties DEF Somewhere
<1>2. g = Follow(t, v)
  BY DEF Target, Via
<1>3. Grown(t, t, p, i)
  BY DEF Grown
<1>4. Grown(t, s, p, i - 1) /\ Grown(t, s, p, i)
  <2>1. Grown(t, s, p, i - 1)
    BY DEF GrownBy
  <2>2. \A j \in 1..i-1 : j \in 1..i
    BY <1>1
  <2> QED BY <2>1, <2>2 DEF Grown
<1>5. v \in Somewhere
  BY <1>1, ViaIsPath
<1>6. Real(s, q) = v
  <2>1. WayKept(t, s, p)
    BY <1>4, GrownWay
  <2>2. Via(s, p, i) = Via(t, p, i)
    BY <1>1, <2>1, KeptWay
  <2> QED BY <2>2 DEF Via
<1> HIDE DEF q, g, s, v, r
<1>7. CASE g \in DOMAIN t
  <2>1. (r = Ok(t) /\ IsDir(t, g)) \/ r = Failed(t)
    BY <1>7 DEF MakesOn, r, q, g
  <2> QED BY <1>2, <1>3, <2>1 DEF GrownBy, Ok, Failed, Answer, r, v
<1>8. CASE g \notin DOMAIN t /\ prev.end # "ok"
  <2>1. r = prev
    BY <1>8 DEF MakesOn, r, q, g
  <2> QED BY <1>4, <1>8, <2>1 DEF GrownBy, r, s
<1>9. CASE g \notin DOMAIN t /\ prev.end = "ok"
  <2>1. CASE fault = "mkdir" \/ v \in DOMAIN s
    <3>1. r = Failed(s)
      BY <1>6, <1>9, <2>1 DEF MakesOn, r, q, g, s
    <3> QED BY <1>4, <3>1 DEF GrownBy, Failed, Answer, r
  <2>2. CASE ~(fault = "mkdir" \/ v \in DOMAIN s)
    <3> DEFINE w == Having(s, v, NewDir)
    <3>1. r = Ok(PutFlags(s, v, NewDir))
      BY <1>6, <1>9, <2>2 DEF MakesOn, r, q, g, s
    <3>2. IsDir(s, Front(v))
      <4>1. CASE i = 1
        <5>1. v = <<p[1]>> /\ p[1] \in Nat
          BY <1>1, <4>1, WayGoesOn, PathUpTo DEF v
        <5>2. v \in Seq(Nat) /\ v # <<>> /\ Len(v) = 1
          <6>1. Len(<<p[1]>>) = 1
            BY <5>1
          <6>2. Len(v) = 1
            BY <5>1, <6>1
          <6>3. v \in Seq(Nat) /\ v # <<>>
            BY <1>5 DEF Somewhere
          <6> QED BY <6>2, <6>3
        <5>3. Front(v) \in Seq(Nat) /\ Len(Front(v)) = 0
          <6>1. Front(v) \in Seq(Nat) /\ Len(Front(v)) = Len(v) - 1
            BY <5>2, FrontProperties
          <6> QED BY <5>2, <6>1
        <5>4. Front(v) = <<>>
          BY <5>3, EmptySeq
        <5> QED BY <5>4 DEF IsDir
      <4>2. CASE i # 1
        <5>1. i \in 2..Len(p) /\ i - 1 > 0
          BY <1>1, <4>2
        <5>2. Front(v) = Follow(t, Via(t, p, i - 1))
          BY <5>1, NextVia DEF v
        <5> QED BY <1>9, <5>1, <5>2 DEF GrownBy, s
      <4> QED BY <4>1, <4>2
    <3>3. SystemOK(s)
      BY <1>4 DEF Grown
    <3>4. PutFlags(s, v, NewDir) = w
      BY <1>5, <3>2, <3>3, PutInDir
    <3>5. SystemOK(w)
      BY <1>5, <2>2, <3>2, <3>3, NewDirIsNode, SystemHaving
    <3>6. DOMAIN w = DOMAIN s \cup {v} /\ w[v] = NewDir /\ \A x \in DOMAIN s : w[x] = s[x]
      BY <2>2 DEF Having
    <3> HIDE DEF w
    <3>7. v \notin DOMAIN t
      BY <1>4, <2>2 DEF Grown
    <3>8. Grown(t, w, p, i)
      <4>1. \A x \in DOMAIN t : x \in DOMAIN w /\ w[x] = t[x]
        BY <1>4, <3>6 DEF Grown
      <4>2. i \in 1..i
        BY <1>1
      <4>3. \A x \in DOMAIN w \ DOMAIN t : w[x] = NewDir /\ \E j \in 1..i : x = Via(t, p, j)
        BY <1>4, <3>6, <4>2 DEF Grown, v
      <4> QED BY <3>5, <4>1, <4>3 DEF Grown
    <3>9. IsDir(w, Follow(t, v))
      <4>1. Follow(t, v) = v
        BY <3>7 DEF Follow
      <4> QED BY <3>6, <4>1, NewDirIsNode DEF IsDir
    <3> QED BY <3>1, <3>4, <3>8, <3>9 DEF GrownBy, Ok, Answer, r, v
  <2> QED BY <2>1, <2>2
<1> QED BY <1>7, <1>8, <1>9

LEMMA ParentsGrow ==
  ASSUME NEW t, SystemOK(t), NEW p \in Somewhere, NEW fault
  PROVE  GrownBy(t, CreateParentDirectories(t, p, fault), p, Len(p) - 1)
<1> DEFINE n == Len(p) - 1
<1>1. n \in Nat /\ n + 1 = Len(p)
  BY LenProperties, EmptyPrefix DEF Somewhere
<1>2. CreateParentDirectories(t, p, fault) = (CHOOSE v : MakesUpTo(t, p, fault, n, v))[n]
  BY DEF CreateParentDirectories, MakesUpTo, MakesAt
<1>3. PICK w : MakesUpTo(t, p, fault, n, w) /\ w = CHOOSE v : MakesUpTo(t, p, fault, n, v)
  <2> HIDE DEF n
  <2> QED BY <1>1, MakingIsThere
<1>4. \A i \in 0..n : w[i] = MakesAt(t, p, fault, w, i)
  BY <1>3 DEF MakesUpTo
<1> DEFINE Bad == {i \in 0..n : ~GrownBy(t, w[i], p, i)}
<1>5. Bad = {}
  <2> SUFFICES ASSUME Bad # {} PROVE FALSE
    OBVIOUS
  <2>1. PICK i \in Bad : \A j \in Bad : i <= j
    <3>1. Bad \in SUBSET Nat
      OBVIOUS
    <3> HIDE DEF Bad
    <3> QED BY <3>1, LeastNumber
  <2>2. i \in 0..n /\ ~GrownBy(t, w[i], p, i)
    BY <2>1
  <2>3. CASE i = 0
    <3>1. w[0] = Ok(t)
      BY <1>4, <2>2, <2>3, MakesAtMeans
    <3>2. Grown(t, t, p, 0)
      BY DEF Grown
    <3> QED BY <2>2, <2>3, <3>1, <3>2 DEF GrownBy, Ok, Answer
  <2>4. CASE i # 0
    <3>1. i - 1 \in 0..n /\ i - 1 \notin Bad /\ i \in 1..Len(p)-1
      <4>1. i \in 1..Len(p)-1 /\ i - 1 \in 0..n
        BY <1>1, <2>2, <2>4
      <4>2. ~(i <= i - 1)
        BY <4>1
      <4> QED BY <2>1, <4>1, <4>2
    <3>2. GrownBy(t, w[i - 1], p, i - 1)
      BY <3>1
    <3>3. w[i] = MakesOn(t, p, fault, w[i - 1], i)
      BY <1>4, <2>2, <2>4, MakesAtMeans
    <3> HIDE DEF n, Bad
    <3> QED BY <2>2, <3>1, <3>2, <3>3, GrowsOn
  <2> QED BY <2>3, <2>4
<1>6. n \in 0..n
  BY <1>1
<1> QED BY <1>2, <1>3, <1>5, <1>6

LEMMA ParentsMade ==
  ASSUME NEW t, SystemOK(t), NEW p \in Somewhere, NEW fault
  PROVE  LET r == CreateParentDirectories(t, p, fault)
             f == Real(t, p)
         IN  /\ r.end \in {"ok", "failed"} /\ SystemOK(r.tree) /\ WayKept(t, r.tree, p)
             /\ \A q \in DOMAIN t : q \in DOMAIN r.tree /\ r.tree[q] = t[q]
             /\ \A q \in DOMAIN r.tree \ DOMAIN t : IsPrefix(q, f) /\ q # f
             /\ f \in DOMAIN t => r.tree = t
             /\ r.end = "ok" => IsDir(r.tree, Front(f))
<1> DEFINE r == CreateParentDirectories(t, p, fault)
           f == Real(t, p)
           n == Len(p) - 1
           s == r.tree
<1>1. n \in Nat /\ n + 1 = Len(p) /\ Len(p) \in 1..Len(p) /\ f = Via(t, p, Len(p))
  <2>1. Len(p) \in Nat /\ Len(p) > 0
    BY LenProperties, EmptyPrefix DEF Somewhere
  <2>2. f = Via(t, p, Len(p))
    BY WayGoesOn
  <2> HIDE DEF f
  <2> QED BY <2>1, <2>2
<1>2. GrownBy(t, r, p, n)
  BY ParentsGrow
<1> HIDE DEF r, f
<1>3. r.end \in {"ok", "failed"} /\ Grown(t, s, p, n)
  BY <1>2 DEF GrownBy
<1>4. WayKept(t, s, p)
  BY <1>3, GrownWay
<1> HIDE DEF s, n
<1>5. ASSUME NEW q \in DOMAIN s \ DOMAIN t
      PROVE  IsPrefix(q, f) /\ q # f /\ f \notin DOMAIN t
  <2>1. PICK j \in 1..n : q = Via(t, p, j)
    BY <1>3 DEF Grown
  <2>2. j \in 1..Len(p) /\ Len(p) \in j..Len(p) /\ j # Len(p)
    BY <1>1, <2>1
  <2>3. f \notin DOMAIN t /\ IsPrefix(q, f) /\ Len(q) < Len(f)
    BY <1>1, <2>1, <2>2, WayEnds
  <2>4. f \in Somewhere
    BY <1>1, ViaIsPath
  <2> QED BY <2>3, <2>4, LenProperties DEF Somewhere
<1>6. ASSUME f \in DOMAIN t
      PROVE  s = t
  <2>1. DOMAIN s = DOMAIN t
    BY <1>3, <1>5, <1>6 DEF Grown
  <2>2. s = [q \in DOMAIN s |-> s[q]] /\ t = [q \in DOMAIN t |-> t[q]]
    BY <1>3 DEF Grown, SystemOK
  <2> QED BY <1>3, <2>1, <2>2 DEF Grown
<1>7. ASSUME r.end = "ok"
      PROVE  IsDir(s, Front(f))
  <2>1. CASE n = 0
    <3>1. f = <<p[1]>> /\ Len(f) = 1 /\ f \in Seq(Nat) /\ f # <<>>
      <4>1. Len(p) = 1 /\ f \in Somewhere
        BY <1>1, <2>1, ViaIsPath
      <4>2. f = <<p[1]>>
        BY <1>1, <4>1, WayGoesOn
      <4>3. Len(<<p[1]>>) = 1
        OBVIOUS
      <4>4. f \in Seq(Nat) /\ f # <<>>
        BY <4>1 DEF Somewhere
      <4> QED BY <4>2, <4>3, <4>4
    <3>2. Front(f) \in Seq(Nat) /\ Len(Front(f)) = Len(f) - 1
      BY <3>1, FrontProperties
    <3>3. Len(Front(f)) = 0
      BY <3>1, <3>2
    <3>4. Front(f) = <<>>
      BY <3>2, <3>3, EmptySeq
    <3> QED BY <3>4 DEF IsDir
  <2>2. CASE n # 0
    <3>1. Len(p) \in 2..Len(p) /\ n > 0 /\ Len(p) - 1 = n
      BY <1>1, <2>2
    <3>2. Front(f) = Follow(t, Via(t, p, n))
      BY <1>1, <3>1, NextVia
    <3> QED BY <1>2, <1>7, <3>1, <3>2 DEF GrownBy, s
  <2> QED BY <2>1, <2>2
<1>8. SystemOK(s) /\ \A q \in DOMAIN t : q \in DOMAIN s /\ s[q] = t[q]
  BY <1>3 DEF Grown
<1> QED BY <1>3, <1>4, <1>5, <1>6, <1>7, <1>8 DEF r, f, s

LEMMA KeptParents ==
  ASSUME NEW t, NEW s, NEW p \in Somewhere, NEW X, KeptBut(t, s, p, X), NEW fault
  PROVE  LET r == CreateParentDirectories(s, p, fault)
             f == Real(t, p)
         IN  /\ r.end \in {"ok", "failed"}
             /\ KeptBut(t, r.tree, p, X)
             /\ f \in DOMAIN s => r.tree = s
             /\ f \notin DOMAIN s => f \notin DOMAIN r.tree
             /\ Target(r.tree, p) = Target(s, p)
             /\ r.end = "ok" => IsDir(r.tree, Front(f))
<1> DEFINE r == CreateParentDirectories(s, p, fault)
           f == Real(t, p)
           w == r.tree
<1>1. SystemOK(s) /\ WayKept(t, s, p)
  BY DEF KeptBut
<1>2. Real(s, p) = f /\ \A i \in 1..Len(p) : Via(s, p, i) = Via(t, p, i)
  BY <1>1, KeptWay
<1>3. /\ r.end \in {"ok", "failed"} /\ SystemOK(w) /\ WayKept(s, w, p)
      /\ \A q \in DOMAIN s : q \in DOMAIN w /\ w[q] = s[q]
      /\ \A q \in DOMAIN w \ DOMAIN s : IsPrefix(q, f) /\ q # f
      /\ f \in DOMAIN s => w = s
      /\ r.end = "ok" => IsDir(w, Front(f))
  BY <1>1, <1>2, ParentsMade
<1> HIDE DEF r, f, w
<1>4. WayKept(t, w, p)
  <2> SUFFICES ASSUME NEW i \in 1..Len(p)-1
               PROVE  Follow(w, Via(t, p, i)) = Follow(t, Via(t, p, i))
    BY DEF WayKept
  <2>1. i \in 1..Len(p)
    BY LenProperties DEF Somewhere
  <2>2. Follow(w, Via(s, p, i)) = Follow(s, Via(s, p, i))
    BY <1>3 DEF WayKept
  <2>3. Follow(s, Via(t, p, i)) = Follow(t, Via(t, p, i))
    BY <1>1 DEF WayKept
  <2> QED BY <1>2, <2>1, <2>2, <2>3
<1>5. \A q \in DOMAIN t \ X : q \in DOMAIN w /\ w[q] = t[q]
  BY <1>3 DEF KeptBut
<1>6. \A q \in DOMAIN w \ DOMAIN t : IsPrefix(q, f) \/ q \in X
  BY <1>3 DEF KeptBut, f
<1>7. f \in DOMAIN w => LinkAllowed(t, p, w[f])
  BY <1>3 DEF KeptBut, f
<1>8. KeptBut(t, w, p, X)
  BY <1>3, <1>4, <1>5, <1>6, <1>7 DEF KeptBut, f
<1>9. f \notin DOMAIN s => f \notin DOMAIN w
  BY <1>3
<1>10. Target(w, p) = Target(s, p)
  <2>1. Real(w, p) = f
    BY <1>4, KeptWay DEF f
  <2>2. Follow(w, f) = Follow(s, f)
    BY <1>3, <1>9 DEF Follow
  <2> QED BY <1>2, <2>1, <2>2 DEF Target
<1> QED BY <1>3, <1>8, <1>9, <1>10 DEF r, f, w

-----------------------------------------------------------------------------
(* Permissions and owners                                                  *)

LEMMA SysNodeRetouched ==
  ASSUME NEW n \in SysNode, NEW x \in Nat
  PROVE  /\ WithPerm(n, x) \in SysNode /\ Retouched(WithPerm(n, x), n)
         /\ WithPerm(n, x).perm = x /\ WithPerm(n, x).owner = n.owner
         /\ WithOwner(n, x) \in SysNode /\ Retouched(WithOwner(n, x), n)
         /\ Chowned(n, x) \in SysNode /\ Retouched(Chowned(n, x), n)
         /\ Chowned(n, x).owner = x /\ (Chowned(n, x).perm = n.perm \/ n.perm = Setuid)
<1>1. n \in AnyNode
  BY DEF SysNode
<1>2. WithPerm(n, x) \in SysNode /\ Retouched(WithPerm(n, x), n)
      /\ WithPerm(n, x).perm = x /\ WithPerm(n, x).owner = n.owner
  BY <1>1, NodeWithPerm DEF SysNode, Retouched
<1>3. WithOwner(n, x) \in SysNode /\ Retouched(WithOwner(n, x), n)
  BY <1>1, NodeWithOwner DEF SysNode, Retouched
<1>4. Chowned(n, x) \in SysNode /\ Retouched(Chowned(n, x), n)
      /\ Chowned(n, x).owner = x /\ (Chowned(n, x).perm = n.perm \/ n.perm = Setuid)
  BY <1>1, NodeChowned DEF SysNode, Retouched
<1> QED BY <1>2, <1>3, <1>4

LEMMA ChmodMeans ==
  ASSUME NEW t, NEW p, NEW x, NEW fault
  PROVE  \/ Chmod(t, p, x, fault) = Failed(t)
         \/ /\ Target(t, p) \in DOMAIN t
            /\ Chmod(t, p, x, fault) = Ok(Having(t, Target(t, p), WithPerm(t[Target(t, p)], x)))
<1> DEFINE q == Target(t, p)
           w == [t EXCEPT ![q].perm = x]
<1>1. q \in DOMAIN t => w = Having(t, q, WithPerm(t[q], x))
  BY DEF Having, WithPerm
<1>2. Chmod(t, p, x, fault) = IF q \notin DOMAIN t \/ fault = "chmod" THEN Failed(t) ELSE Ok(w)
  BY DEF Chmod
<1> HIDE DEF q, w
<1> QED BY <1>1, <1>2 DEF q

LEMMA LchownMeans ==
  ASSUME NEW t, NEW p, NEW x, NEW fault
  PROVE  \/ Lchown(t, p, x, fault) = Failed(t)
         \/ /\ Real(t, p) \in DOMAIN t
            /\ Lchown(t, p, x, fault) = Ok(Having(t, Real(t, p), Chowned(t[Real(t, p)], x)))
<1> DEFINE q == Real(t, p)
           w == [t EXCEPT ![q] = Chowned(@, x)]
<1>1. q \in DOMAIN t => w = Having(t, q, Chowned(t[q], x))
  BY DEF Having
<1>2. Lchown(t, p, x, fault) = IF q \notin DOMAIN t \/ fault = "chown" THEN Failed(t) ELSE Ok(w)
  BY DEF Lchown
<1> HIDE DEF q, w
<1> QED BY <1>1, <1>2 DEF q

-----------------------------------------------------------------------------
(* Creating: the file is put where the way leads, or where the link leads  *)
(* that is there.                                                          *)

OwnFiles(t, s, p) == {Real(t, p)} \cup ({Target(t, p)} \cap {Target(s, p)})
NoLinkAt(s, f) == f \in DOMAIN s => s[f].type # "lnk"
(* As it was, or a device that a regular file was written to.              *)
Stands(n, first) ==
  /\ n.owner = first.owner /\ (n.perm = first.perm \/ first.perm = Setuid)
  /\ (n.type = first.type /\ n.data = first.data) \/ (n.type = "device" /\ first.type = "reg")
Back(s, f, p) == f \in DOMAIN s /\ Stands(s[f], Tree1[p])
Creating(t, s, p) ==
  /\ SystemOK(t) /\ Unbent(t, p) /\ KeptBut(t, s, p, {Real(t, p)}) /\ IsDir(s, Front(Real(t, p)))
  /\ p \in DOMAIN Tree1 /\ Tree1[p] \in SysNode
CreatedBy(t, s, r, p) ==
  /\ r.end \in {"ok", "failed", "blocked"}
  /\ KeptBut(t, r.tree, p, OwnFiles(t, r.tree, p))
  /\ r.end = "ok" /\ Target(s, p) = Real(t, p) => Back(r.tree, Real(t, p), p)

LEMMA WhereItLeads ==
  ASSUME NEW t, NEW s, NEW p \in Somewhere, NEW X, KeptBut(t, s, p, X)
  PROVE  /\ Real(s, p) = Real(t, p)
         /\ NoLinkAt(s, Real(t, p)) => Target(s, p) = Real(t, p)
         /\ ~WasLinkFirst(p) => Target(s, p) \in OwnFiles(t, s, p)
<1> DEFINE f == Real(t, p)
<1>1. Real(s, p) = f
  BY KeptWay DEF KeptBut
<1>2. Target(s, p) = Follow(s, f)
  BY <1>1 DEF Target
<1> HIDE DEF f
<1>3. NoLinkAt(s, f) => Target(s, p) = f
  BY <1>2 DEF NoLinkAt, Follow
<1>4. ~WasLinkFirst(p) => Target(s, p) \in OwnFiles(t, s, p)
  <2>1. CASE NoLinkAt(s, f)
    BY <1>3, <2>1 DEF OwnFiles, f
  <2>2. CASE ~NoLinkAt(s, f) /\ ~WasLinkFirst(p)
    <3>1. f \in DOMAIN s /\ s[f].type = "lnk" /\ LinkAllowed(t, p, s[f])
      BY <2>2 DEF NoLinkAt, KeptBut, f
    <3>2. f \in DOMAIN t /\ t[f].type = "lnk" /\ s[f].data = t[f].data
      BY <2>2, <3>1 DEF LinkAllowed, OldLink, f
    <3>3. Target(t, p) = Target(s, p)
      BY <1>2, <3>1, <3>2 DEF Target, Follow, f
    <3> QED BY <3>3 DEF OwnFiles
  <2> QED BY <2>1, <2>2
<1> QED BY <1>1, <1>3, <1>4 DEF f

LEMMA KeptOwn ==
  ASSUME NEW t, NEW s, NEW p, KeptBut(t, s, p, {Real(t, p)})
  PROVE  KeptBut(t, s, p, OwnFiles(t, s, p))
BY KeptMore DEF OwnFiles

(* mkdir, or the directory that is there; then chmod and chown             *)
DirTouched(s, p, node, fault) ==
  LET c == Chmod(s, p, node.perm, fault)
  IN  IF c.end = "ok" THEN Lchown(c.tree, Target(c.tree, p), node.owner, fault) ELSE c

LEMMA KeptDirTouched ==
  ASSUME NEW t, NEW s, NEW p \in Somewhere, KeptBut(t, s, p, {Real(t, p)}),
         p \in DOMAIN Tree1, Tree1[p] \in SysNode, Tree1[p].type = "dir", NEW fault,
         Target(s, p) \in DOMAIN s => s[Target(s, p)].type = "dir"
  PROVE  CreatedBy(t, s, DirTouched(s, p, Tree1[p], fault), p)
<1> DEFINE node == Tree1[p]
           g == Target(s, p)
           c == Chmod(s, p, node.perm, fault)
           r == DirTouched(s, p, node, fault)
           f == Real(t, p)
           n1 == WithPerm(s[g], node.perm)
           s1 == Having(s, g, n1)
           n2 == Chowned(n1, node.owner)
           s2 == Having(s1, g, n2)
<1>1. node.perm \in Nat /\ node.owner \in Nat /\ node.data = <<>> /\ ~WasLinkFirst(p)
  BY DEF SysNode, AnyNode, WasLinkFirst
<1>2. g \in OwnFiles(t, s, p) /\ (NoLinkAt(s, f) => g = f)
  BY <1>1, WhereItLeads
<1>3. KeptBut(t, s, p, OwnFiles(t, s, p))
  BY KeptOwn
<1>4. c = Failed(s) \/ (g \in DOMAIN s /\ c = Ok(s1))
  BY ChmodMeans
<1>5. CASE c = Failed(s)
  <2>1. r = Failed(s)
    BY <1>5 DEF DirTouched, Failed, Answer
  <2> QED BY <1>3, <2>1 DEF CreatedBy, Failed, Answer
<1>6. CASE g \in DOMAIN s /\ c = Ok(s1)
  <2> HIDE DEF node, g, c, r, f
  <2>1. s[g] \in SysNode /\ g \in Somewhere /\ s[g].type = "dir"
    BY <1>6 DEF KeptBut, SystemOK, g
  <2>2. n1 \in SysNode /\ Retouched(n1, s[g]) /\ n1.perm = node.perm
    BY <1>1, <2>1, SysNodeRetouched
  <2>3. s1[g] = n1 /\ g \in DOMAIN s1
    BY DEF Having
  <2> HIDE DEF n1
  <2>4. KeptBut(t, s1, p, OwnFiles(t, s, p)) /\ Target(s1, p) = g
    BY <1>2, <1>3, <1>6, <2>2, KeptRetouched DEF g
  <2> HIDE DEF s1
  <2>5. n2 \in SysNode /\ Retouched(n2, n1) /\ n2.owner = node.owner /\ (n2.perm = n1.perm \/ n1.perm = Setuid)
    BY <1>1, <2>2, SysNodeRetouched
  <2>6. s2[g] = n2 /\ g \in DOMAIN s2
    BY DEF Having
  <2> HIDE DEF n2
  <2>7. KeptBut(t, s2, p, OwnFiles(t, s, p)) /\ Target(s2, p) = g
    BY <1>2, <2>3, <2>4, <2>5, KeptRetouched
  <2> HIDE DEF s2
  <2>8. Real(s1, g) = g
    BY <2>3, <2>4, InDirsOfFile DEF KeptBut
  <2>9. r = Lchown(s1, g, node.owner, fault)
    BY <1>6, <2>4 DEF DirTouched, Ok, Answer, r, c
  <2>10. r = Failed(s1) \/ r = Ok(s2)
    BY <2>3, <2>8, <2>9, LchownMeans DEF s2, n2
  <2>11. OwnFiles(t, s1, p) = OwnFiles(t, s, p) /\ OwnFiles(t, s2, p) = OwnFiles(t, s, p)
    BY <2>4, <2>7 DEF OwnFiles, g
  <2>12. g = f => Back(s2, f, p)
    <3> HAVE g = f
    <3>1. g = f
      OBVIOUS
    <3>2. n2.type = "dir" /\ n2.data = <<>>
      BY <2>1, <2>2, <2>5, SysNodeType DEF Retouched
    <3>3. Alike(n2, node)
      BY <1>1, <2>2, <2>5, <3>2 DEF Alike, node
    <3> QED BY <2>6, <3>1, <3>3 DEF Back, Stands, Alike, node
  <2> QED BY <2>4, <2>7, <2>10, <2>11, <2>12 DEF CreatedBy, Ok, Failed, Answer, r, f, g, node
<1> QED BY <1>4, <1>5, <1>6

LEMMA KeptCreateDirectory ==
  ASSUME NEW t, NEW s, NEW p \in Somewhere, Creating(t, s, p), Tree1[p].type = "dir", NEW fault
  PROVE  CreatedBy(t, s, CreateDirectory(s, p, Tree1[p], fault), p)
<1> DEFINE node == Tree1[p]
           f == Real(t, p)
           bare == WithOwner(WithPerm(node, 0), 1)
           m == Having(s, f, bare)
           r == CreateDirectory(s, p, node, fault)
<1>1. KeptBut(t, s, p, {f}) /\ SystemOK(s) /\ SystemOK(t) /\ Unbent(t, p) /\ IsDir(s, Front(f))
      /\ p \in DOMAIN Tree1 /\ node \in SysNode
  BY DEF Creating, KeptBut
<1>2. f \in Somewhere
  BY <1>1, ViaIsPath
<1>3. Real(s, p) = f
  BY <1>1, WhereItLeads
<1>4. bare \in SysNode /\ bare.type = "dir"
  <2> DEFINE b == WithPerm(node, 0)
  <2>1. b \in SysNode /\ b.type = "dir"
    BY <1>1, SysNodeRetouched DEF Retouched
  <2> HIDE DEF b
  <2>2. WithOwner(b, 1) \in SysNode /\ Retouched(WithOwner(b, 1), b)
    BY <2>1, SysNodeRetouched
  <2>3. WithOwner(b, 1).type = "dir"
    BY <2>1, <2>2 DEF Retouched
  <2> QED BY <2>2, <2>3 DEF b
<1>5. bare = [node EXCEPT !.perm = 0, !.owner = 1]
  BY DEF WithPerm, WithOwner
<1>6. PutFlags(s, f, bare) = m
  BY <1>1, <1>2, PutInDir
<1> HIDE DEF bare
<1>7. r = IF f \in DOMAIN s /\ ~IsDir(s, Target(s, p)) THEN Failed(s)
          ELSE IF f \in DOMAIN s THEN DirTouched(s, p, node, fault)
          ELSE DirTouched(IF fault = "mkdir" THEN s ELSE m, p, node, fault)
  BY <1>3, <1>5, <1>6 DEF CreateDirectory, DirTouched, Then
<1> HIDE DEF r, f, node
<1>8. CASE f \in DOMAIN s /\ ~IsDir(s, Target(s, p))
  <2>1. r = Failed(s)
    BY <1>7, <1>8
  <2>2. KeptBut(t, s, p, OwnFiles(t, s, p))
    BY <1>1, KeptOwn DEF f
  <2> QED BY <2>1, <2>2 DEF CreatedBy, Failed, Answer, r, node
<1>9. CASE (f \in DOMAIN s /\ IsDir(s, Target(s, p))) \/ (f \notin DOMAIN s /\ fault = "mkdir")
  <2>1. r = DirTouched(s, p, node, fault)
    BY <1>7, <1>9
  <2>2. Target(s, p) \in Somewhere
    BY <1>1, ViaIsPath
  <2>3. Target(s, p) \in DOMAIN s => s[Target(s, p)].type = "dir"
    <3>1. CASE f \in DOMAIN s /\ IsDir(s, Target(s, p))
      BY <2>2, <3>1 DEF IsDir, Somewhere
    <3>2. CASE f \notin DOMAIN s
      <4>1. Target(s, p) = f
        BY <1>1, <3>2, WhereItLeads DEF NoLinkAt, f
      <4> QED BY <3>2, <4>1
    <3> QED BY <1>9, <3>1, <3>2
  <2>4. CreatedBy(t, s, DirTouched(s, p, node, fault), p)
    BY <1>1, <2>3, KeptDirTouched DEF node, f
  <2> QED BY <2>1, <2>4 DEF r, node
<1>10. CASE f \notin DOMAIN s /\ fault # "mkdir"
  <2>1. r = DirTouched(m, p, node, fault)
    BY <1>7, <1>10
  <2>2. m[f] = bare /\ f \in DOMAIN m
    BY DEF Having
  <2>3. KeptBut(t, m, p, {f})
    <3>1. \A i \in 1..Len(p)-1 : Via(t, p, i) # f
      BY <1>1 DEF Unbent, Via, f
    <3>2. LinkAllowed(t, p, bare)
      BY <1>4 DEF LinkAllowed
    <3>3. f \in {f} /\ ~(f \in DOMAIN s /\ s[f].type = "dir")
      BY <1>10
    <3> QED BY <1>1, <1>2, <1>4, <3>1, <3>2, <3>3, KeptPut
  <2> HIDE DEF m
  <2>4. NoLinkAt(m, f) /\ NoLinkAt(s, f)
    BY <1>4, <1>10, <2>2 DEF NoLinkAt
  <2>5. Target(m, p) = f
    BY <2>3, <2>4, WhereItLeads DEF f
  <2>6. CreatedBy(t, m, DirTouched(m, p, node, fault), p)
    BY <1>1, <1>4, <2>2, <2>3, <2>5, KeptDirTouched DEF node, f
  <2> QED BY <2>1, <2>5, <2>6 DEF CreatedBy, r, node, f
<1> QED BY <1>8, <1>9, <1>10 DEF r, node

(* What open, fchmod and fchown make of a file                             *)
LEMMA MadeNode ==
  ASSUME NEW n \in SysNode, NEW perm \in Nat, NEW owner \in Nat
  PROVE  LET made == MadeBy(n, perm, owner)
         IN  /\ made \in SysNode /\ made.type = n.type /\ made.data = n.data
             /\ made.owner = owner /\ (made.perm = perm \/ perm = Setuid)
<1> DEFINE b == WithPerm(n, perm)
<1>1. MadeBy(n, perm, owner) = Chowned(b, owner)
  BY DEF MadeBy, WithPerm
<1>2. b \in SysNode /\ b.type = n.type /\ b.data = n.data /\ b.perm = perm
  BY SysNodeRetouched DEF Retouched
<1> HIDE DEF b
<1> DEFINE c == Chowned(b, owner)
<1>3. c \in SysNode /\ Retouched(c, b) /\ c.owner = owner /\ (c.perm = b.perm \/ b.perm = Setuid)
  BY <1>2, SysNodeRetouched
<1> HIDE DEF c
<1> QED BY <1>1, <1>2, <1>3 DEF Retouched, c

LEMMA KeptCreateFile ==
  ASSUME NEW t, NEW s, NEW p \in Somewhere, Creating(t, s, p), Tree1[p].type = "reg", NEW fault
  PROVE  CreatedBy(t, s, CreateFile(s, p, Tree1[p], fault), p)
<1> DEFINE node == Tree1[p]
           f == Real(t, p)
           g == Target(s, p)
           dev == g \in DOMAIN s /\ s[g].type = "device"
           made == MadeBy(IF dev THEN s[g] ELSE node, node.perm, node.owner)
           empty == MadeBy(IF dev THEN s[g] ELSE [node EXCEPT !.data = <<>>], node.perm, node.owner)
           r == CreateFile(s, p, node, fault)
<1>1. KeptBut(t, s, p, {f}) /\ SystemOK(s) /\ SystemOK(t) /\ Unbent(t, p)
      /\ node \in SysNode /\ node.perm \in Nat /\ node.owner \in Nat /\ ~WasLinkFirst(p)
  BY DEF Creating, KeptBut, SysNode, AnyNode, WasLinkFirst
<1>2. g \in OwnFiles(t, s, p) /\ (NoLinkAt(s, f) => g = f) /\ g \in Somewhere
  BY <1>1, WhereItLeads, ViaIsPath
<1>3. made \in SysNode /\ made.type # "lnk" /\ Stands(made, node)
  <2>1. CASE dev
    <3>1. s[g] \in SysNode /\ s[g].type = "device"
      BY <1>1, <2>1 DEF SystemOK
    <3>2. made = MadeBy(s[g], node.perm, node.owner) /\ node.type = "reg"
      BY <2>1
    <3> HIDE DEF made, g, node
    <3>3. made \in SysNode /\ made.type = "device" /\ made.owner = node.owner
          /\ (made.perm = node.perm \/ node.perm = Setuid)
      BY <1>1, <3>1, <3>2, MadeNode
    <3> QED BY <3>2, <3>3 DEF Stands
  <2>2. CASE ~dev
    <3>1. made = MadeBy(node, node.perm, node.owner)
      BY <2>2
    <3> HIDE DEF made, g
    <3> QED BY <1>1, <3>1, MadeNode DEF Stands
  <2> QED BY <2>1, <2>2
<1>4. empty \in SysNode /\ empty.type # "lnk"
  <2>1. CASE dev
    <3>1. s[g] \in SysNode /\ s[g].type = "device"
      BY <1>1, <2>1 DEF SystemOK
    <3>2. empty = MadeBy(s[g], node.perm, node.owner)
      BY <2>1
    <3> HIDE DEF empty, g
    <3> QED BY <1>1, <3>1, <3>2, MadeNode
  <2>2. CASE ~dev
    <3> DEFINE e == [node EXCEPT !.data = <<>>]
    <3>1. empty = MadeBy(e, node.perm, node.owner)
      BY <2>2
    <3>2. e \in SysNode /\ e.type = "reg"
      BY <1>1, EmptySeq DEF SysNode, AnyNode
    <3> HIDE DEF empty, g, e
    <3> QED BY <1>1, <3>1, <3>2, MadeNode
  <2> QED BY <2>1, <2>2
<1>6. \/ r = Failed(s)
      \/ r = Answer("blocked", s)
      \/ /\ IsDir(s, Front(g)) /\ ~IsDir(s, g)
         /\ \/ r = Failed(PutFlags(s, g, empty))
            \/ r = Ok(PutFlags(s, g, made))
  BY DEF CreateFile
<1> HIDE DEF made, empty, dev
<1>7. ASSUME NEW n \in {made, empty}, IsDir(s, Front(g)), ~IsDir(s, g)
      PROVE  /\ KeptBut(t, Having(s, g, n), p, OwnFiles(t, Having(s, g, n), p))
             /\ PutFlags(s, g, n) = Having(s, g, n)
  <2> DEFINE w == Having(s, g, n)
  <2>1. n \in SysNode /\ n.type # "lnk"
    BY <1>3, <1>4
  <2>2. PutFlags(s, g, n) = w
    BY <1>1, <1>2, <1>7, PutInDir
  <2>3. w[g] = n /\ g \in DOMAIN w /\ DOMAIN w = DOMAIN s \cup {g} /\ \A x \in DOMAIN s : x # g => w[x] = s[x]
    BY DEF Having
  <2>4. ~(g \in DOMAIN s /\ s[g].type = "dir")
    BY <1>2, <1>7 DEF IsDir, Somewhere
  <2>5. (\E i \in 1..Len(p)-1 : Via(t, p, i) = g) => Follow(t, g) = Follow(w, g)
    <3> SUFFICES ASSUME NEW i \in 1..Len(p)-1, Via(t, p, i) = g
                 PROVE  Follow(t, g) = Follow(w, g)
      OBVIOUS
    <3>0. Via(t, p, i) = g
      OBVIOUS
    <3>1. g # f /\ (Follow(t, g) = g \/ g # Target(t, p))
      <4> HIDE DEF g
      <4> QED BY <1>1, <3>0 DEF Unbent, Via
    <3>2. g = Target(t, p)
      BY <1>2, <3>1 DEF OwnFiles
    <3>3. Follow(w, g) = g
      BY <2>1, <2>3 DEF Follow
    <3> QED BY <3>1, <3>2, <3>3
  <2>6. LinkAllowed(t, p, n)
    BY <2>1 DEF LinkAllowed
  <2>7. KeptBut(t, s, p, OwnFiles(t, s, p))
    BY <1>1, KeptOwn
  <2>8. KeptBut(t, w, p, OwnFiles(t, s, p))
    BY <1>2, <1>7, <2>1, <2>4, <2>5, <2>6, <2>7, KeptPut
  <2> HIDE DEF w
  <2>9. OwnFiles(t, s, p) = OwnFiles(t, w, p)
    <3>1. CASE g = f
      <4>1. NoLinkAt(w, f)
        BY <2>1, <2>3, <3>1 DEF NoLinkAt
      <4>2. Target(w, p) = f
        BY <2>8, <4>1, WhereItLeads
      <4> QED BY <3>1, <4>2 DEF OwnFiles
    <3>2. CASE g # f
      <4>1. f \in DOMAIN s /\ s[f].type = "lnk" /\ w[f] = s[f] /\ f \in DOMAIN w
        BY <1>2, <2>3, <3>2 DEF NoLinkAt
      <4>2. Real(s, p) = f /\ Real(w, p) = f
        BY <1>1, <2>8, WhereItLeads
      <4>3. Target(w, p) = g
        BY <4>1, <4>2 DEF Target, Follow
      <4> QED BY <4>3 DEF OwnFiles
    <3> QED BY <3>1, <3>2
  <2> QED BY <2>2, <2>8, <2>9 DEF w
<1> HIDE DEF g, f, r, node
<1>8. CASE r = Failed(s) \/ r = Answer("blocked", s)
  <2>1. KeptBut(t, s, p, OwnFiles(t, s, p))
    BY <1>1, KeptOwn DEF f
  <2>2. r.tree = s /\ r.end \in {"failed", "blocked"}
    BY <1>8 DEF Failed, Answer
  <2> QED BY <2>1, <2>2 DEF CreatedBy, r, node
<1>9. CASE IsDir(s, Front(g)) /\ ~IsDir(s, g) /\ r = Failed(PutFlags(s, g, empty))
  <2>1. r.tree = Having(s, g, empty) /\ r.end = "failed"
    BY <1>7, <1>9 DEF Failed, Answer
  <2> QED BY <1>7, <1>9, <2>1 DEF CreatedBy, r, node
<1>10. CASE IsDir(s, Front(g)) /\ ~IsDir(s, g) /\ r = Ok(PutFlags(s, g, made))
  <2>1. r.tree = Having(s, g, made) /\ r.end = "ok"
    BY <1>7, <1>10 DEF Ok, Answer
  <2>2. r.tree[g] = made /\ g \in DOMAIN r.tree
    BY <2>1 DEF Having
  <2>3. g = f => Back(r.tree, f, p)
    BY <1>3, <2>2 DEF Back, node
  <2> QED BY <1>7, <1>10, <2>1, <2>3 DEF CreatedBy, r, node, f, g
<1> QED BY <1>6, <1>8, <1>9, <1>10

LEMMA KeptCreateLink ==
  ASSUME NEW t, NEW s, NEW p \in Somewhere, Creating(t, s, p), Tree1[p].type = "lnk", NEW fault
  PROVE  CreatedBy(t, s, CreateLink(s, p, Tree1[p], fault), p)
<1> DEFINE node == Tree1[p]
           f == Real(t, p)
           bare == WithOwner(node, 1)
           done == Chowned(bare, node.owner)
           m == Having(s, f, bare)
           w == Having(m, f, done)
           r == CreateLink(s, p, node, fault)
<1>1. KeptBut(t, s, p, {f}) /\ SystemOK(s) /\ SystemOK(t) /\ Unbent(t, p) /\ IsDir(s, Front(f))
      /\ node \in SysNode /\ node.owner \in Nat /\ WasLinkFirst(p)
  BY DEF Creating, KeptBut, SysNode, AnyNode, WasLinkFirst
<1>2. f \in Somewhere /\ Real(s, p) = f
  BY <1>1, ViaIsPath, WhereItLeads
<1>3. bare \in SysNode /\ bare.type = "lnk" /\ bare.data = node.data /\ bare.perm = node.perm
  BY <1>1, SysNodeRetouched DEF Retouched, WithOwner
<1>4. bare = [node EXCEPT !.owner = 1]
  BY DEF WithOwner
<1>5. PutFlags(s, f, bare) = m
  BY <1>1, <1>2, PutInDir
<1> HIDE DEF bare
<1>6. done \in SysNode /\ Retouched(done, bare) /\ Alike(done, node)
  BY <1>1, <1>3, SysNodeRetouched DEF Retouched, Alike
<1> HIDE DEF done
<1>7. r = Failed(s) \/ (f \notin DOMAIN s /\ r = Lchown(m, f, node.owner, fault))
  BY <1>2, <1>4, <1>5 DEF CreateLink
<1>8. m[f] = bare /\ f \in DOMAIN m /\ w[f] = done /\ f \in DOMAIN w
  BY DEF Having
<1>9. CASE r = Failed(s)
  <2>1. KeptBut(t, s, p, OwnFiles(t, s, p))
    BY <1>1, KeptOwn
  <2> HIDE DEF r
  <2> QED BY <1>9, <2>1 DEF CreatedBy, Failed, Answer, r
<1>10. CASE f \notin DOMAIN s /\ r = Lchown(m, f, node.owner, fault)
  <2>1. KeptBut(t, m, p, {f})
    <3>1. \A i \in 1..Len(p)-1 : Via(t, p, i) # f
      BY <1>1 DEF Unbent, Via
    <3>2. LinkAllowed(t, p, bare)
      BY <1>1 DEF LinkAllowed
    <3>3. f \in {f} /\ ~(f \in DOMAIN s /\ s[f].type = "dir")
      BY <1>10
    <3> HIDE DEF f
    <3> QED BY <1>1, <1>2, <1>3, <3>1, <3>2, <3>3, KeptPut
  <2>2. KeptBut(t, w, p, {f})
    <3> HIDE DEF m, f
    <3>1. f \in {f} /\ f \in DOMAIN m /\ m[f] = bare
      BY <1>8
    <3> QED BY <1>6, <2>1, <3>1, KeptRetouched
  <2>3. Real(m, f) = f
    BY <1>8, <2>1, InDirsOfFile DEF KeptBut
  <2> HIDE DEF m, w, r, f, node
  <2>4. r = Failed(m) \/ r = Ok(w)
    BY <1>8, <1>10, <2>3, LchownMeans DEF w, done
  <2>5. KeptBut(t, m, p, OwnFiles(t, m, p)) /\ KeptBut(t, w, p, OwnFiles(t, w, p))
    BY <2>1, <2>2, KeptOwn DEF f
  <2>6. Back(w, f, p)
    BY <1>6, <1>8 DEF Back, Stands, Alike, node
  <2> QED BY <2>4, <2>5, <2>6 DEF CreatedBy, Ok, Failed, Answer, r, f, node
<1> QED BY <1>7, <1>9, <1>10

LEMMA KeptCreate ==
  ASSUME NEW t, NEW s, NEW p \in Somewhere, Creating(t, s, p), NEW fault
  PROVE  LET r == CreateByType(s, p, fault)
         IN  /\ r.end \in {"ok", "failed", "blocked"}
             /\ KeptBut(t, r.tree, p, OwnFiles(t, r.tree, p))
             /\ r.end = "ok" /\ Target(s, p) = Real(t, p) /\ ~Special(Tree1[p]) => Back(r.tree, Real(t, p), p)
<1> DEFINE r == CreateByType(s, p, fault)
<1>1. CASE Tree1[p].type \in {"dir", "reg", "lnk"}
  <2>1. CreatedBy(t, s, r, p)
    <3>1. CASE Tree1[p].type = "dir"
      BY <3>1, KeptCreateDirectory DEF CreateByType
    <3>2. CASE Tree1[p].type = "reg"
      BY <3>2, KeptCreateFile DEF CreateByType
    <3>3. CASE Tree1[p].type = "lnk"
      BY <3>3, KeptCreateLink DEF CreateByType
    <3> QED BY <1>1, <3>1, <3>2, <3>3
  <2> QED BY <2>1 DEF CreatedBy
<1>2. CASE Special(Tree1[p])
  <2>1. r = Ok(s)
    BY <1>2 DEF CreateByType, Special
  <2>2. KeptBut(t, s, p, OwnFiles(t, s, p))
    BY KeptOwn DEF Creating
  <2> HIDE DEF r
  <2> QED BY <1>2, <2>1, <2>2 DEF Ok, Answer, r
<1> QED BY <1>1, <1>2, SysNodeType DEF Creating, Special


(* File::createAllTypes                                                    *)
LEMMA KeptCreateAll ==
  ASSUME NEW t, SystemOK(t), NEW s, NEW p \in Somewhere, Unbent(t, p), KeptBut(t, s, p, {Real(t, p)}),
         p \in DOMAIN Tree1 => Tree1[p] \in SysNode, NEW fault
  PROVE  LET r == CreateAllTypes(s, p, fault)
         IN  /\ r.end \in {"ok", "failed", "blocked"}
             /\ KeptBut(t, r.tree, p, OwnFiles(t, r.tree, p))
             /\ r.end = "ok" =>
                  /\ p \in DOMAIN Tree1
                  /\ Target(s, p) = Real(t, p) /\ ~Special(Tree1[p]) => Back(r.tree, Real(t, p), p)
<1> DEFINE r == CreateAllTypes(s, p, fault)
           c == CreateParentDirectories(s, p, fault)
           f == Real(t, p)
<1>1. CASE p \notin DOMAIN Tree1
  <2>1. r = Failed(s)
    BY <1>1 DEF CreateAllTypes
  <2>2. KeptBut(t, s, p, OwnFiles(t, s, p))
    BY KeptOwn
  <2> HIDE DEF r
  <2> QED BY <2>1, <2>2 DEF Failed, Answer, r
<1>2. CASE p \in DOMAIN Tree1
  <2>1. /\ c.end \in {"ok", "failed"} /\ KeptBut(t, c.tree, p, {f}) /\ Target(c.tree, p) = Target(s, p)
        /\ c.end = "ok" => IsDir(c.tree, Front(f))
    <3> HIDE DEF f
    <3> QED BY KeptParents DEF f
  <2>2. r = IF c.end = "ok" THEN CreateByType(c.tree, p, fault) ELSE c
    BY <1>2 DEF CreateAllTypes, Then
  <2> HIDE DEF c, r
  <2>3. CASE c.end # "ok"
    <3>1. r = c /\ KeptBut(t, c.tree, p, OwnFiles(t, c.tree, p))
      BY <2>1, <2>2, <2>3, KeptOwn
    <3> QED BY <2>1, <2>3, <3>1 DEF r
  <2>4. CASE c.end = "ok"
    <3>1. Creating(t, c.tree, p)
      BY <1>2, <2>1, <2>4 DEF Creating
    <3>2. r = CreateByType(c.tree, p, fault)
      BY <2>2, <2>4
    <3> HIDE DEF f
    <3>3. /\ r.end \in {"ok", "failed", "blocked"}
          /\ KeptBut(t, r.tree, p, OwnFiles(t, r.tree, p))
          /\ r.end = "ok" /\ Target(c.tree, p) = f /\ ~Special(Tree1[p]) => Back(r.tree, f, p)
      BY <3>1, <3>2, KeptCreate DEF f
    <3> QED BY <1>2, <2>1, <3>3 DEF f, r
  <2> QED BY <2>3, <2>4
<1> QED BY <1>1, <1>2

-----------------------------------------------------------------------------
(* Modifying: a link that is put back is followed when the permissions are *)
(* set.                                                                    *)

StepFiles(t, s, p) == {Real(t, p)} \cup {q \in {Target(s, p)} : WasLink(p) \/ Target(t, p) = q}
OnlyOnce(p) == WasLinkFirst(p) => WasLink(p)

LEMMA OwnAreStepFiles ==
  ASSUME NEW t, NEW s, NEW p, KeptBut(t, s, p, OwnFiles(t, s, p))
  PROVE  KeptBut(t, s, p, StepFiles(t, s, p))
<1>1. OwnFiles(t, s, p) \subseteq StepFiles(t, s, p)
  BY DEF OwnFiles, StepFiles
<1> DEFINE X == OwnFiles(t, s, p)
           Y == StepFiles(t, s, p)
<1>2. KeptBut(t, s, p, X) /\ X \subseteq Y
  BY <1>1
<1> HIDE DEF X, Y
<1>3. KeptBut(t, s, p, Y)
  BY <1>2, KeptMore
<1> QED BY <1>3 DEF Y

LEMMA KeptChmod ==
  ASSUME NEW t, NEW s, NEW p \in Somewhere, KeptBut(t, s, p, StepFiles(t, s, p)),
         p \in DOMAIN Tree1, Tree1[p] \in SysNode, OnlyOnce(p), NEW fault
  PROVE  LET c == Chmod(s, p, Tree1[p].perm, fault)
             f == Real(t, p)
         IN  /\ c.end \in {"ok", "failed"}
             /\ KeptBut(t, c.tree, p, StepFiles(t, c.tree, p))
             /\ Back(s, f, p) => Back(c.tree, f, p)
             /\ c.end = "ok" /\ Target(s, p) = f => f \in DOMAIN c.tree /\ c.tree[f].perm = Tree1[p].perm
<1> DEFINE f == Real(t, p)
           g == Target(s, p)
           x == Tree1[p].perm
           c == Chmod(s, p, x, fault)
           n == WithPerm(s[g], x)
           w == Having(s, g, n)
<1>1. x \in Nat
  BY DEF SysNode, AnyNode
<1>2. g \in StepFiles(t, s, p)
  <2>1. CASE WasLinkFirst(p)
    BY <2>1 DEF OnlyOnce, StepFiles
  <2>2. CASE ~WasLinkFirst(p)
    <3>1. g \in OwnFiles(t, s, p)
      BY <2>2, WhereItLeads
    <3> QED BY <3>1 DEF OwnFiles, StepFiles
  <2> QED BY <2>1, <2>2
<1>3. c = Failed(s) \/ (g \in DOMAIN s /\ c = Ok(w))
  BY ChmodMeans
<1> HIDE DEF c
<1>4. CASE c = Failed(s)
  BY <1>4 DEF Failed, Answer, c
<1>5. CASE g \in DOMAIN s /\ c = Ok(w)
  <2> HIDE DEF f, g, x
  <2>1. s[g] \in SysNode
    BY <1>5 DEF KeptBut, SystemOK
  <2>2. n \in SysNode /\ Retouched(n, s[g]) /\ n.perm = x /\ n.owner = s[g].owner
    BY <1>1, <2>1, SysNodeRetouched
  <2>3. w[g] = n /\ DOMAIN w = DOMAIN s /\ \A q \in DOMAIN s : q # g => w[q] = s[q]
    BY <1>5 DEF Having
  <2> HIDE DEF n
  <2>4. KeptBut(t, w, p, StepFiles(t, s, p)) /\ Target(w, p) = g
    <3> DEFINE X == StepFiles(t, s, p)
    <3> HIDE DEF X
    <3>1. KeptBut(t, s, p, X) /\ g \in X
      BY <1>2 DEF X
    <3>2. KeptBut(t, w, p, X) /\ Target(w, p) = Target(s, p)
      BY <1>5, <2>2, <3>1, KeptRetouched
    <3> QED BY <3>2 DEF X, g
  <2>5. StepFiles(t, w, p) = StepFiles(t, s, p)
    BY <2>4 DEF StepFiles, g
  <2>6. c.end = "ok" /\ c.tree = w
    BY <1>5 DEF Ok, Answer
  <2> HIDE DEF w
  <2>7. Back(s, f, p) => Back(w, f, p)
    BY <2>2, <2>3 DEF Back, Stands, Alike, Retouched, x
  <2>8. g = f => f \in DOMAIN w /\ w[f].perm = x
    BY <1>5, <2>2, <2>3
  <2> QED BY <2>4, <2>5, <2>6, <2>7, <2>8 DEF c, f, g, x
<1> QED BY <1>3, <1>4, <1>5

LEMMA KeptLchown ==
  ASSUME NEW t, NEW s, NEW p \in Somewhere, KeptBut(t, s, p, StepFiles(t, s, p)),
         p \in DOMAIN Tree1, Tree1[p] \in SysNode, NEW fault
  PROVE  LET c == Lchown(s, p, Tree1[p].owner, fault)
             f == Real(t, p)
         IN  /\ c.end \in {"ok", "failed"}
             /\ KeptBut(t, c.tree, p, StepFiles(t, c.tree, p))
             /\ Back(s, f, p) => Back(c.tree, f, p)
             /\ c.end = "ok" => f \in DOMAIN c.tree /\ c.tree[f].owner = Tree1[p].owner
             /\ f \in DOMAIN s /\ s[f].perm = Tree1[p].perm =>
                  f \in DOMAIN c.tree /\ Tree1[p].perm \in {c.tree[f].perm, Setuid}
<1> DEFINE f == Real(t, p)
           x == Tree1[p].owner
           c == Lchown(s, p, x, fault)
           n == Chowned(s[f], x)
           w == Having(s, f, n)
<1>1. x \in Nat
  BY DEF SysNode, AnyNode
<1>2. Real(s, p) = f /\ f \in StepFiles(t, s, p)
  BY WhereItLeads DEF StepFiles
<1>3. c = Failed(s) \/ (f \in DOMAIN s /\ c = Ok(w))
  BY <1>2, LchownMeans
<1> HIDE DEF c
<1>4. CASE c = Failed(s)
  BY <1>4 DEF Failed, Answer, c
<1>5. CASE f \in DOMAIN s /\ c = Ok(w)
  <2> HIDE DEF f, x
  <2>1. s[f] \in SysNode
    BY <1>5 DEF KeptBut, SystemOK
  <2>2. n \in SysNode /\ Retouched(n, s[f]) /\ n.owner = x /\ (n.perm = s[f].perm \/ s[f].perm = Setuid)
    BY <1>1, <2>1, SysNodeRetouched
  <2>3. w[f] = n /\ DOMAIN w = DOMAIN s
    BY <1>5 DEF Having
  <2> HIDE DEF n
  <2>4. KeptBut(t, w, p, StepFiles(t, s, p)) /\ Target(w, p) = Target(s, p)
    <3> DEFINE X == StepFiles(t, s, p)
    <3> HIDE DEF X
    <3>1. KeptBut(t, s, p, X) /\ f \in X
      BY <1>2 DEF X
    <3>2. KeptBut(t, w, p, X) /\ Target(w, p) = Target(s, p)
      BY <1>5, <2>2, <3>1, KeptRetouched
    <3> QED BY <3>2 DEF X
  <2>5. StepFiles(t, w, p) = StepFiles(t, s, p)
    BY <2>4 DEF StepFiles
  <2>6. c.end = "ok" /\ c.tree = w
    BY <1>5 DEF Ok, Answer
  <2> HIDE DEF w
  <2>7. Back(s, f, p) => Back(w, f, p)
    BY <2>2, <2>3 DEF Back, Stands, Alike, Retouched, x
  <2>8. f \in DOMAIN w /\ w[f].owner = x /\ (s[f].perm = Tree1[p].perm => Tree1[p].perm \in {w[f].perm, Setuid})
    BY <1>5, <2>2, <2>3
  <2> QED BY <2>4, <2>5, <2>6, <2>7, <2>8 DEF c, f, x
<1> QED BY <1>3, <1>4, <1>5

LEMMA KeptContent ==
  ASSUME NEW t, SystemOK(t), NEW s, NEW p \in Somewhere, Unbent(t, p), KeptBut(t, s, p, {Real(t, p)}),
         p \in DOMAIN Tree1, Tree1[p] \in SysNode, Tree1[p].type \in {"reg", "lnk"}, NEW fault,
         IsDir(s, Front(Real(t, p))), Real(t, p) \in DOMAIN s => s = t
  PROVE  LET r == ModifyContent(s, p, fault)
         IN  /\ r.end \in {"ok", "failed", "blocked"}
             /\ KeptBut(t, r.tree, p, OwnFiles(t, r.tree, p))
             /\ r.end = "ok" => Back(r.tree, Real(t, p), p)
<1> DEFINE f == Real(t, p)
           d == DeleteAllTypes(s, p, fault)
           r == ModifyContent(s, p, fault)
<1>1. f \in Somewhere /\ Real(s, p) = f /\ Front(f) # f
  BY ViaIsPath, WhereItLeads, FrontAbove
<1>2. /\ d.end \in {"ok", "failed"} /\ KeptBut(t, d.tree, p, {f})
      /\ d.end = "ok" => NoLinkAt(d.tree, f)
  <2> DEFINE X == {f}
  <2>1. KeptBut(t, s, p, X) /\ f \in X
    OBVIOUS
  <2> HIDE DEF X, f
  <2>2. /\ d.end \in {"ok", "failed"} /\ KeptBut(t, d.tree, p, X)
        /\ d.end = "ok" => f \notin DOMAIN d.tree \/ Special(d.tree[f])
    BY <2>1, KeptDelete DEF f
  <2> QED BY <2>2 DEF NoLinkAt, X, Special
<1>3. IsDir(d.tree, Front(f))
  <2>1. CASE f \in DOMAIN s
    <3>1. s = t /\ IsDir(t, Front(f))
      BY <2>1
    <3>2. \A q \in DOMAIN t : q # f => q \in DOMAIN d.tree /\ d.tree[q] = t[q]
      BY <1>2 DEF KeptBut
    <3> HIDE DEF d, f
    <3> QED BY <1>1, <3>1, <3>2 DEF IsDir
  <2>2. CASE f \notin DOMAIN s
    <3>1. d = Failed(s) \/ d = Ok(s)
      BY <1>1, <2>2 DEF DeleteAllTypes
    <3> HIDE DEF d
    <3> QED BY <3>1 DEF Ok, Failed, Answer
  <2> QED BY <2>1, <2>2
<1>4. r = IF d.end = "ok" THEN CreateByType(d.tree, p, fault) ELSE d
  BY DEF ModifyContent, Then
<1> HIDE DEF d, r
<1>5. CASE d.end # "ok"
  <2>1. r = d /\ KeptBut(t, d.tree, p, OwnFiles(t, d.tree, p))
    BY <1>2, <1>4, <1>5, KeptOwn
  <2> QED BY <1>2, <1>5, <2>1 DEF r
<1>6. CASE d.end = "ok"
  <2>1. Creating(t, d.tree, p)
    BY <1>2, <1>3 DEF Creating
  <2>2. Target(d.tree, p) = f
    BY <1>2, <1>6, WhereItLeads
  <2>3. r = CreateByType(d.tree, p, fault)
    BY <1>4, <1>6
  <2> HIDE DEF f
  <2>4. /\ r.end \in {"ok", "failed", "blocked"}
        /\ KeptBut(t, r.tree, p, OwnFiles(t, r.tree, p))
        /\ r.end = "ok" /\ Target(d.tree, p) = f /\ ~Special(Tree1[p]) => Back(r.tree, f, p)
    BY <2>1, <2>3, KeptCreate DEF f
  <2> QED BY <2>2, <2>4 DEF f, r, Special
<1> QED BY <1>5, <1>6

(* File::modifyAllTypes, of a file that was just made again with its type, *)
(* or of one that nothing was done to                                      *)
ModifiedAs(t, s, r, p, status) ==
  LET f == Real(t, p)
  IN  /\ p \in DOMAIN Tree1
      /\ "CONTENT" \in status \/ Back(s, f, p) => Back(r.tree, f, p)
      /\ "OWNER" \in status => f \in DOMAIN r.tree /\ r.tree[f].owner = Tree1[p].owner
      /\ "PERMISSIONS" \in status /\ "CONTENT" \notin status /\ Target(s, p) = f =>
           f \in DOMAIN r.tree /\ Tree1[p].perm \in {r.tree[f].perm, Setuid}

LEMMA KeptModify ==
  ASSUME NEW t, SystemOK(t), NEW s, NEW p \in Somewhere, Unbent(t, p), KeptBut(t, s, p, OwnFiles(t, s, p)),
         p \in DOMAIN Tree1 => Tree1[p] \in SysNode, NEW status, NEW fault,
         "PERMISSIONS" \in status => OnlyOnce(p),
         "CONTENT" \in status => s = t /\ Tree1[p].type \in {"reg", "lnk"}
  PROVE  LET r == ModifyAllTypes(s, p, status, fault)
         IN  /\ r.end \in {"ok", "failed", "blocked"}
             /\ KeptBut(t, r.tree, p, StepFiles(t, r.tree, p))
             /\ r.end = "ok" => ModifiedAs(t, s, r, p, status)
<1> DEFINE f == Real(t, p)
           node == Tree1[p]
           r0 == CreateParentDirectories(s, p, fault)
           r1 == IF "CONTENT" \in status /\ r0.end = "ok" THEN ModifyContent(r0.tree, p, fault) ELSE r0
           r2 == IF "PERMISSIONS" \in status /\ r1.end = "ok" THEN Chmod(r1.tree, p, node.perm, fault) ELSE r1
           r3 == IF "OWNER" \in status /\ r2.end = "ok" THEN Lchown(r2.tree, p, node.owner, fault) ELSE r2
           r == ModifyAllTypes(s, p, status, fault)
           Ends == {"ok", "failed", "blocked"}
<1>1. CASE p \notin DOMAIN Tree1
  <2>1. r = Failed(s)
    BY <1>1 DEF ModifyAllTypes
  <2>2. KeptBut(t, s, p, StepFiles(t, s, p))
    BY OwnAreStepFiles
  <2> HIDE DEF r
  <2> QED BY <2>1, <2>2 DEF Failed, Answer, r
<1>2. CASE p \in DOMAIN Tree1
  <2>1. r = r3
    BY <1>2 DEF ModifyAllTypes, Then
  <2> HIDE DEF r
  <2>2. node \in SysNode
    BY <1>2
  <2>3. /\ r0.end \in {"ok", "failed"}
        /\ KeptBut(t, r0.tree, p, OwnFiles(t, s, p))
        /\ f \in DOMAIN s => r0.tree = s
        /\ f \notin DOMAIN s => f \notin DOMAIN r0.tree
        /\ Target(r0.tree, p) = Target(s, p)
        /\ r0.end = "ok" => IsDir(r0.tree, Front(f))
    <3> DEFINE X == OwnFiles(t, s, p)
    <3>1. KeptBut(t, s, p, X)
      OBVIOUS
    <3> HIDE DEF X, f
    <3>2. /\ r0.end \in {"ok", "failed"}
          /\ KeptBut(t, r0.tree, p, X)
          /\ f \in DOMAIN s => r0.tree = s
          /\ f \notin DOMAIN s => f \notin DOMAIN r0.tree
          /\ Target(r0.tree, p) = Target(s, p)
          /\ r0.end = "ok" => IsDir(r0.tree, Front(f))
      BY <3>1, KeptParents DEF f
    <3> QED BY <3>2 DEF X
  <2>4. ASSUME "CONTENT" \in status
        PROVE  KeptBut(t, r0.tree, p, {f})
    <3> DEFINE X == {f}
    <3>1. s = t
      BY <2>4
    <3>2. KeptBut(t, s, p, X)
      BY <3>1, KeptItself
    <3> HIDE DEF X, f
    <3>3. KeptBut(t, r0.tree, p, X)
      BY <3>2, KeptParents
    <3> QED BY <3>3 DEF X, f
  <2> HIDE DEF r0
  <2>5. KeptBut(t, r0.tree, p, OwnFiles(t, r0.tree, p))
    BY <2>3 DEF OwnFiles
  <2>6. /\ r1.end \in Ends
        /\ KeptBut(t, r1.tree, p, OwnFiles(t, r1.tree, p))
        /\ r1.end = "ok" /\ "CONTENT" \in status => Back(r1.tree, f, p)
        /\ "CONTENT" \notin status => r1 = r0
    <3>1. CASE "CONTENT" \in status /\ r0.end = "ok"
      <4>1. r1 = ModifyContent(r0.tree, p, fault)
        BY <3>1
      <4>2. IsDir(r0.tree, Front(f)) /\ (f \in DOMAIN r0.tree => r0.tree = t) /\ node.type \in {"reg", "lnk"}
            /\ KeptBut(t, r0.tree, p, {f})
        BY <2>3, <2>4, <3>1
      <4> HIDE DEF r1
      <4>3. /\ r1.end \in Ends
            /\ KeptBut(t, r1.tree, p, OwnFiles(t, r1.tree, p))
            /\ r1.end = "ok" => Back(r1.tree, f, p)
        BY <1>2, <2>2, <4>1, <4>2, KeptContent
      <4> QED BY <3>1, <4>3 DEF r1
    <3>2. CASE ~("CONTENT" \in status /\ r0.end = "ok")
      <4>1. r1 = r0
        BY <3>2
      <4> HIDE DEF r1
      <4> QED BY <2>3, <2>5, <3>2, <4>1 DEF r1
    <3> QED BY <3>1, <3>2
  <2>7. r1.end = "ok" => r0.end = "ok"
    OBVIOUS
  <2> HIDE DEF r1
  <2>8. KeptBut(t, r1.tree, p, StepFiles(t, r1.tree, p))
    BY <2>6, OwnAreStepFiles
  <2>9. /\ r2.end \in Ends
        /\ KeptBut(t, r2.tree, p, StepFiles(t, r2.tree, p))
        /\ r2.end = "ok" => r1.end = "ok"
        /\ Back(r1.tree, f, p) => Back(r2.tree, f, p)
        /\ r2.end = "ok" /\ "PERMISSIONS" \in status /\ Target(r1.tree, p) = f =>
             f \in DOMAIN r2.tree /\ r2.tree[f].perm = node.perm
    <3>1. CASE "PERMISSIONS" \in status /\ r1.end = "ok"
      <4>1. r2 = Chmod(r1.tree, p, node.perm, fault) /\ OnlyOnce(p)
        BY <3>1
      <4> HIDE DEF r2, f
      <4>2. /\ r2.end \in {"ok", "failed"}
            /\ KeptBut(t, r2.tree, p, StepFiles(t, r2.tree, p))
            /\ Back(r1.tree, f, p) => Back(r2.tree, f, p)
            /\ r2.end = "ok" /\ Target(r1.tree, p) = f => f \in DOMAIN r2.tree /\ r2.tree[f].perm = node.perm
        BY <1>2, <2>2, <2>8, <4>1, KeptChmod DEF f
      <4> QED BY <3>1, <4>2 DEF r2, f
    <3>2. CASE ~("PERMISSIONS" \in status /\ r1.end = "ok")
      <4>1. r2 = r1
        BY <3>2
      <4> HIDE DEF r2
      <4> QED BY <2>6, <2>8, <3>2, <4>1 DEF r2
    <3> QED BY <3>1, <3>2
  <2> HIDE DEF r2
  <2>10. /\ r3.end \in Ends
         /\ KeptBut(t, r3.tree, p, StepFiles(t, r3.tree, p))
         /\ r3.end = "ok" => r2.end = "ok"
         /\ Back(r2.tree, f, p) => Back(r3.tree, f, p)
         /\ r3.end = "ok" /\ "OWNER" \in status => f \in DOMAIN r3.tree /\ r3.tree[f].owner = node.owner
         /\ f \in DOMAIN r2.tree /\ r2.tree[f].perm = node.perm =>
              f \in DOMAIN r3.tree /\ node.perm \in {r3.tree[f].perm, Setuid}
    <3>1. CASE "OWNER" \in status /\ r2.end = "ok"
      <4>1. r3 = Lchown(r2.tree, p, node.owner, fault)
        BY <3>1
      <4> HIDE DEF r3, f
      <4>2. /\ r3.end \in {"ok", "failed"}
            /\ KeptBut(t, r3.tree, p, StepFiles(t, r3.tree, p))
            /\ Back(r2.tree, f, p) => Back(r3.tree, f, p)
            /\ r3.end = "ok" => f \in DOMAIN r3.tree /\ r3.tree[f].owner = node.owner
            /\ f \in DOMAIN r2.tree /\ r2.tree[f].perm = node.perm =>
                 f \in DOMAIN r3.tree /\ node.perm \in {r3.tree[f].perm, Setuid}
        BY <1>2, <2>2, <2>9, <4>1, KeptLchown DEF f
      <4> QED BY <3>1, <4>2 DEF r3, f
    <3>2. CASE ~("OWNER" \in status /\ r2.end = "ok")
      <4>1. r3 = r2
        BY <3>2
      <4> HIDE DEF r3
      <4> QED BY <2>9, <3>2, <4>1 DEF r3
    <3> QED BY <3>1, <3>2
  <2> HIDE DEF r3
  <2>11. ASSUME r3.end = "ok"
         PROVE  ModifiedAs(t, s, r3, p, status)
    <3>1. r2.end = "ok" /\ r1.end = "ok" /\ r0.end = "ok"
      BY <2>7, <2>9, <2>10, <2>11
    <3>2. "CONTENT" \in status \/ Back(s, f, p) => Back(r1.tree, f, p)
      <4>1. CASE "CONTENT" \in status
        BY <2>6, <3>1, <4>1
      <4>2. CASE "CONTENT" \notin status
        <5>1. Back(s, f, p) => r0.tree = s
          BY <2>3 DEF Back
        <5> QED BY <2>6, <4>2, <5>1
      <4> QED BY <4>1, <4>2
    <3>3. "CONTENT" \notin status => Target(r1.tree, p) = Target(s, p)
      BY <2>3, <2>6
    <3> HIDE DEF f, node
    <3> QED BY <1>2, <2>9, <2>10, <2>11, <3>1, <3>2, <3>3 DEF ModifiedAs, f, node
  <2> QED BY <2>1, <2>10, <2>11 DEF r
<1> QED BY <1>1, <1>2

-----------------------------------------------------------------------------
(* File::doUndo of a file of a list, whatever has become of the system     *)

(* What a list may say of a file                                           *)
Says(p, status) ==
  /\ p \in Somewhere
  /\ p \in DOMAIN Tree1 => Tree1[p] \in SysNode
  /\ status \subseteq {"CREATED", "DELETED", "TYPE", "CONTENT", "PERMISSIONS", "OWNER"} /\ status # {}
  /\ status \subseteq {"CREATED", "DELETED"} \/ status \subseteq {"TYPE", "CONTENT", "PERMISSIONS", "OWNER"}
  /\ "TYPE" \in status => "CONTENT" \notin status
  /\ "CONTENT" \in status => Tree1[p].type \in {"reg", "lnk"}
  /\ "PERMISSIONS" \in status => OnlyOnce(p)

LEMMA StatusSays ==
  ASSUME Snapshots, NEW p \in DOMAIN Tree1 \cup DOMAIN Tree2, NEW status, status = Status(Tree1, Tree2, p),
         status # {}
  PROVE  Says(p, status)
<1> USE DEF Says
<1>1. p \in Somewhere
  BY SnapshotTrees DEF Somewhere
<1>2. p \in DOMAIN Tree1 => Tree1[p] \in SysNode
  BY SnapshotTrees, NodeIsSysNode
<1>3. CASE p \notin DOMAIN Tree1 \/ p \notin DOMAIN Tree2
  <2>1. status = {"DELETED"} \/ status = {"CREATED"}
    BY <1>3 DEF Status
  <2> QED BY <1>1, <1>2, <2>1
<1>4. CASE p \in DOMAIN Tree1 /\ p \in DOMAIN Tree2
  <2> DEFINE a == Tree1[p]
             b == Tree2[p]
  <2>1. status = CmpFiles(a, b)
    BY <1>4 DEF Status
  <2>2. /\ status \subseteq {"TYPE", "CONTENT", "PERMISSIONS", "OWNER"}
        /\ "TYPE" \in status <=> a.type # b.type
        /\ "CONTENT" \in status <=> a.type = b.type /\ ~CmpFilesContent(a, b)
        /\ "PERMISSIONS" \in status <=> a.perm # b.perm
    <3> HIDE DEF a, b
    <3> QED BY <2>1 DEF CmpFiles
  <2>3. (a.type = "lnk" => a.perm = 0) /\ (b.type = "lnk" => b.perm = 0)
    BY <1>4, SnapshotTrees, NodeType
  <2>4. "CONTENT" \in status => a.type \in {"reg", "lnk"}
    BY <2>2 DEF CmpFilesContent
  <2>5. "PERMISSIONS" \in status => OnlyOnce(p)
    BY <1>4, <2>2, <2>3 DEF OnlyOnce, WasLinkFirst, WasLink
  <2> QED BY <1>1, <1>2, <2>2, <2>4, <2>5
<1> QED BY <1>3, <1>4

LEMMA DoUndoInStages ==
  ASSUME NEW t, NEW file, NEW fault,
         NEW d, d = Onward(Ok(t), file, {"CREATED", "TYPE"}, DeleteAllTypes(t, file.name, fault)),
         NEW m, m = Onward(d, file, {"DELETED", "TYPE"}, CreateAllTypes(d.tree, file.name, fault))
  PROVE  DoUndo(t, file, fault)
           = Onward(m, file, {"CONTENT", "PERMISSIONS", "OWNER"},
                    ModifyAllTypes(m.tree, file.name, file.status, fault))
<1>1. Ok(t).tree = t
  BY DEF Ok, Answer
<1>2. d = Onward(Ok(t), file, {"CREATED", "TYPE"}, DeleteAllTypes(Ok(t).tree, file.name, fault))
  BY <1>1
<1> DEFINE d1 == Onward(Ok(t), file, {"CREATED", "TYPE"}, DeleteAllTypes(Ok(t).tree, file.name, fault))
           m1 == Onward(d1, file, {"DELETED", "TYPE"}, CreateAllTypes(d1.tree, file.name, fault))
<1>3. DoUndo(t, file, fault)
        = Onward(m1, file, {"CONTENT", "PERMISSIONS", "OWNER"},
                 ModifyAllTypes(m1.tree, file.name, file.status, fault))
  BY DEF DoUndo, Onward
<1>4. d1 = d
  BY <1>2
<1> HIDE DEF d1
<1>5. m1 = m
  BY <1>4
<1> HIDE DEF m1
<1> QED BY <1>3, <1>5

(* What a stage of doUndo gives                                            *)
LEMMA OnwardMeans ==
  ASSUME NEW r, NEW file, NEW flags, NEW n, r.end \in {"ok", "failed", "blocked"}, n.end \in {"ok", "failed", "blocked"}
  PROVE  LET o == Onward(r, file, flags, n)
         IN  /\ o.end \in {"ok", "failed", "blocked"}
             /\ o.tree \in {r.tree, n.tree}
             /\ o.end = "ok" => r.end = "ok"
             /\ r.end = "blocked" \/ file.status \cap flags = {} => o = r
             /\ r.end # "blocked" /\ file.status \cap flags # {} => o.tree = n.tree
             /\ o.end = "ok" /\ file.status \cap flags # {} => n.end = "ok"
             /\ o.end = "blocked" => r.end = "blocked" \/ n.end = "blocked"
<1> DEFINE o == Onward(r, file, flags, n)
<1>1. \/ (r.end = "blocked" \/ file.status \cap flags = {}) /\ o = r
      \/ ~(r.end = "blocked" \/ file.status \cap flags = {}) /\ r.end = "failed" /\ n.end = "ok" /\ o = Failed(n.tree)
      \/ ~(r.end = "blocked" \/ file.status \cap flags = {}) /\ ~(r.end = "failed" /\ n.end = "ok") /\ o = n
  BY DEF Onward
<1> HIDE DEF o
<1>2. Failed(n.tree).end = "failed" /\ Failed(n.tree).tree = n.tree
  BY DEF Failed, Answer
<1> QED BY <1>1, <1>2 DEF o

(* The file is as it was in the first snapshot, as far as the list says    *)
(* that it has changed.                                                    *)
AsAtFirst(s, f, p, status) ==
  IF status = {"CREATED"} THEN f \notin DOMAIN s \/ Special(s[f])
  ELSE ~Special(Tree1[p]) =>
         /\ f \in DOMAIN s
         /\ status \cap {"DELETED", "TYPE", "CONTENT"} # {} =>
              Alike(s[f], Tree1[p]) \/ (s[f].type = "device" /\ Tree1[p].type = "reg")
         /\ "PERMISSIONS" \in status => Tree1[p].perm \in {s[f].perm, Setuid}
         /\ "OWNER" \in status => Tree1[p].owner = s[f].owner

LEMMA BackIsAsAtFirst ==
  ASSUME NEW s, NEW f, NEW p, NEW status, Back(s, f, p), status # {"CREATED"}
  PROVE  AsAtFirst(s, f, p, status)
BY DEF Back, Stands, AsAtFirst, Alike

LEMMA StepKeeps ==
  ASSUME NEW p, NEW file, file.name = p, Says(p, file.status), NEW t, SystemOK(t), Unbent(t, p), NEW fault
  PROVE  LET r == DoUndo(t, file, fault)
         IN  /\ r.end \in {"ok", "failed", "blocked"}
             /\ KeptBut(t, r.tree, p, StepFiles(t, r.tree, p))
             /\ r.end = "ok" /\ (Target(t, p) = Real(t, p) \/ file.status \cap {"CREATED", "TYPE", "CONTENT"} # {}) =>
                  AsAtFirst(r.tree, Real(t, p), p, file.status)
<1> DEFINE f == Real(t, p)
           Ends == {"ok", "failed", "blocked"}
           status == file.status
           d0 == DeleteAllTypes(t, p, fault)
           d == Onward(Ok(t), file, {"CREATED", "TYPE"}, d0)
           m0 == CreateAllTypes(d.tree, p, fault)
           m == Onward(d, file, {"DELETED", "TYPE"}, m0)
           u0 == ModifyAllTypes(m.tree, p, status, fault)
           r == Onward(m, file, {"CONTENT", "PERMISSIONS", "OWNER"}, u0)
<1>1. file.name = p /\ status # {}
  BY DEF Says
<1>2. DoUndo(t, file, fault) = r
  BY <1>1, DoUndoInStages
<1>3. /\ p \in Somewhere
      /\ p \in DOMAIN Tree1 => Tree1[p] \in SysNode
      /\ status \subseteq {"CREATED", "DELETED", "TYPE", "CONTENT", "PERMISSIONS", "OWNER"}
      /\ status \subseteq {"CREATED", "DELETED"} \/ status \subseteq {"TYPE", "CONTENT", "PERMISSIONS", "OWNER"}
      /\ "TYPE" \in status => "CONTENT" \notin status
      /\ "CONTENT" \in status => Tree1[p].type \in {"reg", "lnk"}
      /\ "PERMISSIONS" \in status => OnlyOnce(p)
  BY DEF Says
<1> HIDE DEF status
<1>4. /\ d0.end \in {"ok", "failed"} /\ KeptBut(t, d0.tree, p, {f})
      /\ d0.end = "ok" => f \notin DOMAIN d0.tree \/ Special(d0.tree[f])
  <2> DEFINE X == {f}
  <2>1. KeptBut(t, t, p, X) /\ f \in X
    BY KeptItself
  <2> HIDE DEF X, f
  <2>2. /\ d0.end \in {"ok", "failed"} /\ KeptBut(t, d0.tree, p, X)
        /\ d0.end = "ok" => f \notin DOMAIN d0.tree \/ Special(d0.tree[f])
    BY <1>3, <2>1, KeptDelete DEF f
  <2> QED BY <2>2 DEF X
<1> HIDE DEF d0
<1>5. /\ d.end \in {"ok", "failed"} /\ KeptBut(t, d.tree, p, {f})
      /\ status \cap {"CREATED", "TYPE"} = {} => d.tree = t
      /\ d.end = "ok" /\ status \cap {"CREATED", "TYPE"} # {} => f \notin DOMAIN d.tree \/ Special(d.tree[f])
  <2>1. Ok(t).end = "ok" /\ Ok(t).tree = t
    BY DEF Ok, Answer
  <2>2. KeptBut(t, t, p, {f})
    BY KeptItself
  <2>3. /\ d.end \in Ends /\ d.tree \in {t, d0.tree}
        /\ status \cap {"CREATED", "TYPE"} = {} => d = Ok(t)
        /\ status \cap {"CREATED", "TYPE"} # {} => d.tree = d0.tree
        /\ d.end = "ok" /\ status \cap {"CREATED", "TYPE"} # {} => d0.end = "ok"
        /\ d.end = "blocked" => Ok(t).end = "blocked" \/ d0.end = "blocked"
    BY <1>4, <2>1, OnwardMeans DEF status
  <2> HIDE DEF d, f
  <2> QED BY <1>4, <2>1, <2>2, <2>3
<1> HIDE DEF d
<1>6. /\ m0.end \in Ends
      /\ KeptBut(t, m0.tree, p, OwnFiles(t, m0.tree, p))
      /\ m0.end = "ok" =>
           /\ p \in DOMAIN Tree1
           /\ Target(d.tree, p) = f /\ ~Special(Tree1[p]) => Back(m0.tree, f, p)
  BY <1>3, <1>5, KeptCreateAll
<1> HIDE DEF m0
<1>7. /\ m.end \in Ends
      /\ KeptBut(t, m.tree, p, OwnFiles(t, m.tree, p))
      /\ m.end = "ok" => d.end = "ok"
      /\ status \cap {"DELETED", "TYPE"} = {} => m = d
      /\ m.end = "ok" /\ status \cap {"DELETED", "TYPE"} # {} =>
           /\ p \in DOMAIN Tree1
           /\ Target(d.tree, p) = f /\ ~Special(Tree1[p]) => Back(m.tree, f, p)
  <2>1. KeptBut(t, d.tree, p, OwnFiles(t, d.tree, p))
    BY <1>5, KeptOwn
  <2>2. /\ m.end \in Ends /\ m.tree \in {d.tree, m0.tree}
        /\ m.end = "ok" => d.end = "ok"
        /\ status \cap {"DELETED", "TYPE"} = {} => m = d
        /\ d.end # "blocked" /\ status \cap {"DELETED", "TYPE"} # {} => m.tree = m0.tree
        /\ m.end = "ok" /\ status \cap {"DELETED", "TYPE"} # {} => m0.end = "ok"
    BY <1>5, <1>6, OnwardMeans DEF status
  <2> HIDE DEF m, f
  <2> QED BY <1>5, <1>6, <2>1, <2>2
<1> HIDE DEF m
<1>8. "CONTENT" \in status => m.tree = t /\ Tree1[p].type \in {"reg", "lnk"}
  BY <1>3, <1>5, <1>7
<1>9. /\ u0.end \in Ends
      /\ KeptBut(t, u0.tree, p, StepFiles(t, u0.tree, p))
      /\ u0.end = "ok" => ModifiedAs(t, m.tree, u0, p, status)
  BY <1>3, <1>7, <1>8, KeptModify
<1> HIDE DEF u0
<1>10. /\ r.end \in Ends
       /\ KeptBut(t, r.tree, p, StepFiles(t, r.tree, p))
       /\ r.end = "ok" => m.end = "ok"
       /\ status \cap {"CONTENT", "PERMISSIONS", "OWNER"} = {} => r = m
       /\ r.end = "ok" /\ status \cap {"CONTENT", "PERMISSIONS", "OWNER"} # {} => ModifiedAs(t, m.tree, r, p, status)
  <2>1. KeptBut(t, m.tree, p, StepFiles(t, m.tree, p))
    BY <1>7, OwnAreStepFiles
  <2>2. /\ r.end \in Ends /\ r.tree \in {m.tree, u0.tree}
        /\ r.end = "ok" => m.end = "ok"
        /\ status \cap {"CONTENT", "PERMISSIONS", "OWNER"} = {} => r = m
        /\ m.end # "blocked" /\ status \cap {"CONTENT", "PERMISSIONS", "OWNER"} # {} => r.tree = u0.tree
        /\ r.end = "ok" /\ status \cap {"CONTENT", "PERMISSIONS", "OWNER"} # {} => u0.end = "ok"
    BY <1>7, <1>9, OnwardMeans DEF status
  <2> HIDE DEF r
  <2> QED BY <1>9, <2>1, <2>2 DEF ModifiedAs
<1> HIDE DEF r
<1>11. ASSUME r.end = "ok", Target(t, p) = f \/ status \cap {"CREATED", "TYPE", "CONTENT"} # {}
       PROVE  AsAtFirst(r.tree, f, p, status)
  <2>1. m.end = "ok" /\ d.end = "ok"
    BY <1>7, <1>10, <1>11
  <2>2. CASE status = {"CREATED"}
    <3>1. r = m /\ m = d /\ (f \notin DOMAIN d.tree \/ Special(d.tree[f]))
      BY <1>5, <1>7, <1>10, <2>1, <2>2
    <3> QED BY <2>2, <3>1 DEF AsAtFirst
  <2>3. CASE status \cap {"DELETED", "TYPE"} # {} /\ status # {"CREATED"}
    <3> SUFFICES ASSUME ~Special(Tree1[p]) PROVE AsAtFirst(r.tree, f, p, status)
      BY <2>3 DEF AsAtFirst
    <3>1. Target(d.tree, p) = f
      <4>1. CASE status \cap {"CREATED", "TYPE"} # {}
        <5>1. NoLinkAt(d.tree, f)
          BY <1>5, <2>1, <4>1 DEF NoLinkAt, Special
        <5> QED BY <1>3, <1>5, <5>1, WhereItLeads
      <4>2. CASE status \cap {"CREATED", "TYPE"} = {}
        <5>1. d.tree = t /\ Target(t, p) = f
          BY <1>3, <1>5, <1>11, <2>3, <4>2
        <5> QED BY <5>1
      <4> QED BY <4>1, <4>2
    <3>2. Back(m.tree, f, p)
      BY <1>7, <2>1, <2>3, <3>1
    <3>3. Back(r.tree, f, p)
      BY <1>10, <1>11, <3>2 DEF ModifiedAs
    <3> QED BY <2>3, <3>3, BackIsAsAtFirst
  <2>4. CASE status \cap {"CREATED", "DELETED", "TYPE"} = {}
    <3>1. m = d /\ d.tree = t
      BY <1>5, <1>7, <2>4
    <3>2. ModifiedAs(t, t, r, p, status)
      BY <1>1, <1>3, <1>10, <1>11, <2>4, <3>1
    <3>3. CASE "CONTENT" \in status
      <4>1. Back(r.tree, f, p) /\ status # {"CREATED"}
        BY <2>4, <3>2, <3>3 DEF ModifiedAs
      <4> QED BY <4>1, BackIsAsAtFirst
    <3>4. CASE "CONTENT" \notin status
      <4>1. Target(t, p) = f /\ status \subseteq {"PERMISSIONS", "OWNER"}
        BY <1>3, <1>11, <2>4, <3>4
      <4>2. /\ "PERMISSIONS" \in status => f \in DOMAIN r.tree /\ Tree1[p].perm \in {r.tree[f].perm, Setuid}
            /\ "OWNER" \in status => f \in DOMAIN r.tree /\ r.tree[f].owner = Tree1[p].owner
        BY <3>2, <3>4, <4>1 DEF ModifiedAs
      <4> HIDE DEF f
      <4> QED BY <1>1, <4>1, <4>2 DEF AsAtFirst
    <3> QED BY <3>3, <3>4
  <2> QED BY <1>3, <2>2, <2>3, <2>4
<1> QED BY <1>2, <1>10, <1>11 DEF status

-----------------------------------------------------------------------------
(* A tree stays a tree, wherever the links lead.                           *)

LEMMA SystemRetouched ==
  ASSUME NEW t, SystemOK(t), NEW q \in DOMAIN t, NEW n \in SysNode, Retouched(n, t[q])
  PROVE  SystemOK(Having(t, q, n))
<1>1. q \in Somewhere /\ IsDir(t, Front(q))
  BY DEF SystemOK
<1> QED BY <1>1, SystemHaving DEF Retouched

LEMMA SystemChmod ==
  ASSUME NEW t, SystemOK(t), NEW p, NEW x \in Nat, NEW fault
  PROVE  SystemOK(Chmod(t, p, x, fault).tree)
<1> DEFINE q == Target(t, p)
           c == Chmod(t, p, x, fault)
           n == WithPerm(t[q], x)
<1>1. c = Failed(t) \/ (q \in DOMAIN t /\ c = Ok(Having(t, q, n)))
  BY ChmodMeans
<1> HIDE DEF c, q
<1>2. ASSUME q \in DOMAIN t PROVE SystemOK(Having(t, q, n))
  <2>1. t[q] \in SysNode
    BY <1>2 DEF SystemOK
  <2>2. n \in SysNode /\ Retouched(n, t[q])
    BY <2>1, SysNodeRetouched
  <2> HIDE DEF n
  <2> QED BY <1>2, <2>2, SystemRetouched
<1> HIDE DEF n
<1> QED BY <1>1, <1>2 DEF Failed, Ok, Answer, c

LEMMA SystemLchown ==
  ASSUME NEW t, SystemOK(t), NEW p, NEW x \in Nat, NEW fault
  PROVE  SystemOK(Lchown(t, p, x, fault).tree)
<1> DEFINE q == Real(t, p)
           c == Lchown(t, p, x, fault)
           n == Chowned(t[q], x)
<1>1. c = Failed(t) \/ (q \in DOMAIN t /\ c = Ok(Having(t, q, n)))
  BY LchownMeans
<1> HIDE DEF c, q
<1>2. ASSUME q \in DOMAIN t PROVE SystemOK(Having(t, q, n))
  <2>1. t[q] \in SysNode
    BY <1>2 DEF SystemOK
  <2>2. n \in SysNode /\ Retouched(n, t[q])
    BY <2>1, SysNodeRetouched
  <2> HIDE DEF n
  <2> QED BY <1>2, <2>2, SystemRetouched
<1> HIDE DEF n
<1> QED BY <1>1, <1>2 DEF Failed, Ok, Answer, c

LEMMA SystemDeleted ==
  ASSUME NEW t, SystemOK(t), NEW p, NEW fault
  PROVE  SystemOK(DeleteAllTypes(t, p, fault).tree)
<1> DEFINE q == Real(t, p)
           d == DeleteAllTypes(t, p, fault)
<1>1. \/ d = Failed(t) \/ d = Ok(t)
      \/ /\ q \in DOMAIN t /\ ~(IsDir(t, q) /\ Below(t, q) # {})
         /\ d = Ok(Restrict(t, DOMAIN t \ {q}))
  BY DEF DeleteAllTypes
<1> HIDE DEF d, q
<1>2. ASSUME q \in DOMAIN t, ~(IsDir(t, q) /\ Below(t, q) # {})
      PROVE  SystemOK(Restrict(t, DOMAIN t \ {q}))
  <2>1. Below(t, q) = {}
    <3> SUFFICES ASSUME NEW r \in DOMAIN t, IsStrictPrefix(q, r) PROVE IsDir(t, q)
      BY <1>2 DEF Below
    <3>1. InDirs(t, r) /\ q \in Somewhere
      BY <1>2, InDirsOfFile DEF SystemOK
    <3> QED BY <3>1 DEF InDirs, IsDir, Somewhere
  <2>2. SystemOK(Without(t, q))
    BY <1>2, <2>1, SystemWithout
  <2>3. Restrict(t, DOMAIN t \ {q}) = Without(t, q)
    BY DEF Restrict, Without
  <2> QED BY <2>2, <2>3
<1> QED BY <1>1, <1>2 DEF Failed, Ok, Answer, d

LEMMA SystemPut ==
  ASSUME NEW t, SystemOK(t), NEW q \in Somewhere, IsDir(t, Front(q)), NEW n \in SysNode, ~IsDir(t, q) \/ n.type = "dir"
  PROVE  SystemOK(PutFlags(t, q, n))
<1>1. PutFlags(t, q, n) = Having(t, q, n)
  BY PutInDir
<1>2. q \in DOMAIN t /\ t[q].type = "dir" => n.type = "dir"
  BY DEF IsDir, Somewhere
<1> QED BY <1>1, <1>2, SystemHaving

LEMMA SystemFileMade ==
  ASSUME NEW t, SystemOK(t), NEW p \in Somewhere, NEW node \in SysNode, node.type = "reg", NEW fault
  PROVE  SystemOK(CreateFile(t, p, node, fault).tree)
<1> DEFINE q == Target(t, p)
           dev == q \in DOMAIN t /\ t[q].type = "device"
           bare == [node EXCEPT !.data = <<>>]
           made(n) == MadeBy(IF dev THEN t[q] ELSE n, node.perm, node.owner)
           r == CreateFile(t, p, node, fault)
<1>1. \/ r = Failed(t)
      \/ r = Answer("blocked", t)
      \/ /\ IsDir(t, Front(q)) /\ ~IsDir(t, q)
         /\ r = Failed(PutFlags(t, q, made(bare))) \/ r = Ok(PutFlags(t, q, made(node)))
  BY DEF CreateFile
<1> HIDE DEF r
<1>2. q \in Somewhere /\ node.perm \in Nat /\ node.owner \in Nat
  BY ViaIsPath DEF SysNode, AnyNode
<1>3. bare \in SysNode
  BY EmptySeq DEF SysNode, AnyNode
<1> HIDE DEF bare
<1>4. ASSUME NEW n \in SysNode
      PROVE  made(n) \in SysNode
  <2> DEFINE o == IF dev THEN t[q] ELSE n
  <2>1. o \in SysNode
    BY DEF SystemOK
  <2>2. made(n) = MadeBy(o, node.perm, node.owner)
    OBVIOUS
  <2> HIDE DEF o, q
  <2> QED BY <1>2, <2>1, <2>2, MadeNode
<1> HIDE DEF made, q
<1>5. ASSUME IsDir(t, Front(q)), ~IsDir(t, q)
      PROVE  SystemOK(PutFlags(t, q, made(bare))) /\ SystemOK(PutFlags(t, q, made(node)))
  BY <1>2, <1>3, <1>4, <1>5, SystemPut
<1> QED BY <1>1, <1>5 DEF Failed, Ok, Answer, r

LEMMA SystemLinkMade ==
  ASSUME NEW t, SystemOK(t), NEW p \in Somewhere, NEW node \in SysNode, NEW fault
  PROVE  SystemOK(CreateLink(t, p, node, fault).tree)
<1> DEFINE q == Real(t, p)
           bare == WithOwner(node, 1)
           m == PutFlags(t, q, bare)
           r == CreateLink(t, p, node, fault)
<1>1. bare = [node EXCEPT !.owner = 1]
  BY DEF WithOwner
<1>2. bare \in SysNode
  BY SysNodeRetouched
<1> HIDE DEF bare
<1>3. r = Failed(t) \/ (q \notin DOMAIN t /\ IsDir(t, Front(q)) /\ r = Lchown(m, q, node.owner, fault))
  BY <1>1 DEF CreateLink
<1>4. q \in Somewhere /\ node.owner \in Nat
  BY ViaIsPath DEF SysNode, AnyNode
<1> HIDE DEF q
<1>5. ASSUME q \notin DOMAIN t, IsDir(t, Front(q))
      PROVE  SystemOK(Lchown(m, q, node.owner, fault).tree)
  <2>1. ~IsDir(t, q)
    BY <1>4, <1>5 DEF IsDir, Somewhere
  <2>2. SystemOK(m)
    BY <1>2, <1>4, <1>5, <2>1, SystemPut
  <2> HIDE DEF m
  <2> QED BY <1>4, <2>2, SystemLchown
<1> HIDE DEF r, m
<1> QED BY <1>3, <1>5 DEF Failed, Answer, r

LEMMA SystemDirMade ==
  ASSUME NEW t, SystemOK(t), NEW p \in Somewhere, IsDir(t, Front(Real(t, p))),
         NEW node \in SysNode, node.type = "dir", NEW fault
  PROVE  SystemOK(CreateDirectory(t, p, node, fault).tree)
<1> DEFINE q == Real(t, p)
           bare == WithOwner(WithPerm(node, 0), 1)
           m == PutFlags(t, q, bare)
           r == CreateDirectory(t, p, node, fault)
<1>1. bare = [node EXCEPT !.perm = 0, !.owner = 1]
  BY DEF WithOwner, WithPerm
<1>2. bare \in SysNode /\ bare.type = "dir"
  <2> DEFINE b == WithPerm(node, 0)
  <2>1. b \in SysNode /\ b.type = "dir"
    BY SysNodeRetouched DEF Retouched
  <2> HIDE DEF b
  <2>2. WithOwner(b, 1) \in SysNode /\ Retouched(WithOwner(b, 1), b)
    BY <2>1, SysNodeRetouched
  <2>3. WithOwner(b, 1).type = "dir"
    BY <2>1, <2>2 DEF Retouched
  <2> QED BY <2>2, <2>3 DEF b
<1> HIDE DEF bare
<1>3. r = Failed(t) \/ r = DirTouched(t, p, node, fault) \/ r = DirTouched(m, p, node, fault)
  BY <1>1 DEF CreateDirectory, DirTouched, Then
<1>4. q \in Somewhere /\ node.perm \in Nat /\ node.owner \in Nat
  BY ViaIsPath DEF SysNode, AnyNode
<1>5. SystemOK(m)
  <2> HIDE DEF q
  <2> QED BY <1>2, <1>4, SystemPut DEF q
<1> HIDE DEF m, r
<1>6. ASSUME NEW s, SystemOK(s)
      PROVE  SystemOK(DirTouched(s, p, node, fault).tree)
  <2> DEFINE c == Chmod(s, p, node.perm, fault)
  <2>1. SystemOK(c.tree)
    BY <1>4, <1>6, SystemChmod
  <2>2. DirTouched(s, p, node, fault) = c
        \/ DirTouched(s, p, node, fault) = Lchown(c.tree, Target(c.tree, p), node.owner, fault)
    BY DEF DirTouched
  <2> HIDE DEF c
  <2>3. SystemOK(Lchown(c.tree, Target(c.tree, p), node.owner, fault).tree)
    BY <1>4, <2>1, SystemLchown
  <2> QED BY <2>1, <2>2, <2>3
<1> QED BY <1>3, <1>5, <1>6 DEF Failed, Answer, r

LEMMA SystemMade ==
  ASSUME NEW t, SystemOK(t), NEW p \in Somewhere, p \in DOMAIN Tree1, Tree1[p] \in SysNode, NEW fault,
         Tree1[p].type = "dir" => IsDir(t, Front(Real(t, p)))
  PROVE  SystemOK(CreateByType(t, p, fault).tree)
<1> DEFINE r == CreateByType(t, p, fault)
           node == Tree1[p]
<1>1. \/ node.type = "dir" /\ r = CreateDirectory(t, p, node, fault)
      \/ node.type = "reg" /\ r = CreateFile(t, p, node, fault)
      \/ node.type = "lnk" /\ r = CreateLink(t, p, node, fault)
      \/ r = Ok(t)
  BY SysNodeType DEF CreateByType
<1> HIDE DEF r
<1>2. CASE r = Ok(t)
  BY <1>2 DEF Ok, Answer, r
<1>3. CASE node.type = "dir" /\ r = CreateDirectory(t, p, node, fault)
  BY <1>3, SystemDirMade DEF r
<1>4. CASE node.type = "reg" /\ r = CreateFile(t, p, node, fault)
  BY <1>4, SystemFileMade DEF r
<1>5. CASE node.type = "lnk" /\ r = CreateLink(t, p, node, fault)
  BY <1>5, SystemLinkMade DEF r
<1> QED BY <1>1, <1>2, <1>3, <1>4, <1>5

LEMMA SystemAllMade ==
  ASSUME NEW t, SystemOK(t), NEW p \in Somewhere, p \in DOMAIN Tree1 => Tree1[p] \in SysNode, NEW fault
  PROVE  SystemOK(CreateAllTypes(t, p, fault).tree)
<1> DEFINE r == CreateAllTypes(t, p, fault)
           c == CreateParentDirectories(t, p, fault)
<1>1. /\ SystemOK(c.tree) /\ WayKept(t, c.tree, p)
      /\ c.end = "ok" => IsDir(c.tree, Front(Real(t, p)))
  BY ParentsMade
<1>2. Real(c.tree, p) = Real(t, p)
  BY <1>1, KeptWay
<1>3. r = IF p \notin DOMAIN Tree1 THEN Failed(t) ELSE IF c.end = "ok" THEN CreateByType(c.tree, p, fault) ELSE c
  BY DEF CreateAllTypes, Then
<1> HIDE DEF c, r
<1>4. CASE p \notin DOMAIN Tree1
  BY <1>3, <1>4 DEF Failed, Answer, r
<1>5. CASE p \in DOMAIN Tree1
  <2>1. CASE c.end = "ok"
    BY <1>1, <1>2, <1>3, <1>5, <2>1, SystemMade DEF r
  <2>2. CASE c.end # "ok"
    BY <1>1, <1>3, <1>5, <2>2 DEF r
  <2> QED BY <2>1, <2>2
<1> QED BY <1>4, <1>5

LEMMA SystemModified ==
  ASSUME NEW t, SystemOK(t), NEW p \in Somewhere, p \in DOMAIN Tree1 => Tree1[p] \in SysNode, NEW status, NEW fault
  PROVE  SystemOK(ModifyAllTypes(t, p, status, fault).tree)
<1> DEFINE node == Tree1[p]
           r0 == CreateParentDirectories(t, p, fault)
           r1 == IF "CONTENT" \in status /\ r0.end = "ok" THEN ModifyContent(r0.tree, p, fault) ELSE r0
           r2 == IF "PERMISSIONS" \in status /\ r1.end = "ok" THEN Chmod(r1.tree, p, node.perm, fault) ELSE r1
           r3 == IF "OWNER" \in status /\ r2.end = "ok" THEN Lchown(r2.tree, p, node.owner, fault) ELSE r2
           r == ModifyAllTypes(t, p, status, fault)
<1>1. CASE p \notin DOMAIN Tree1
  <2>1. r = Failed(t)
    BY <1>1 DEF ModifyAllTypes
  <2> HIDE DEF r
  <2> QED BY <2>1 DEF Failed, Answer, r
<1>2. CASE p \in DOMAIN Tree1
  <2>1. r = r3
    BY <1>2 DEF ModifyAllTypes, Then
  <2> HIDE DEF r
  <2>2. node \in SysNode /\ node.perm \in Nat /\ node.owner \in Nat
    BY <1>2 DEF SysNode, AnyNode
  <2>3. SystemOK(r0.tree)
    BY ParentsMade
  <2> HIDE DEF r0
  <2>4. SystemOK(r1.tree)
    <3> DEFINE d == DeleteAllTypes(r0.tree, p, fault)
    <3>1. ModifyContent(r0.tree, p, fault)
            = IF node.type \in {"reg", "lnk"}
              THEN IF d.end = "ok" THEN CreateByType(d.tree, p, fault) ELSE d
              ELSE Ok(r0.tree)
      BY DEF ModifyContent, Then
    <3>2. SystemOK(d.tree)
      BY <2>3, SystemDeleted
    <3> HIDE DEF d
    <3>3. node.type \in {"reg", "lnk"} => SystemOK(CreateByType(d.tree, p, fault).tree)
      BY <1>2, <3>2, SystemMade
    <3>4. Ok(r0.tree).tree = r0.tree
      BY DEF Ok, Answer
    <3> QED BY <2>3, <3>1, <3>2, <3>3, <3>4
  <2> HIDE DEF r1
  <2>5. SystemOK(r2.tree)
    BY <2>2, <2>4, SystemChmod
  <2> HIDE DEF r2
  <2>6. SystemOK(r3.tree)
    BY <2>2, <2>5, SystemLchown
  <2> QED BY <2>1, <2>6 DEF r
<1> QED BY <1>1, <1>2

LEMMA SystemUndone ==
  ASSUME NEW t, SystemOK(t), NEW file, Says(file.name, file.status), NEW fault
  PROVE  SystemOK(DoUndo(t, file, fault).tree)
<1> DEFINE p == file.name
           d0 == DeleteAllTypes(t, p, fault)
           d == Onward(Ok(t), file, {"CREATED", "TYPE"}, d0)
           m0 == CreateAllTypes(d.tree, p, fault)
           m == Onward(d, file, {"DELETED", "TYPE"}, m0)
           u0 == ModifyAllTypes(m.tree, p, file.status, fault)
           u == Onward(m, file, {"CONTENT", "PERMISSIONS", "OWNER"}, u0)
<1>1. p \in Somewhere /\ (p \in DOMAIN Tree1 => Tree1[p] \in SysNode)
  BY DEF Says
<1>2. DoUndo(t, file, fault) = u
  BY DoUndoInStages
<1> HIDE DEF p
<1>3. ASSUME NEW r, NEW flags, NEW n, SystemOK(r.tree), SystemOK(n.tree)
      PROVE  SystemOK(Onward(r, file, flags, n).tree)
  <2>1. Onward(r, file, flags, n) \in {r, n, Failed(n.tree)} /\ Failed(n.tree).tree = n.tree
    BY DEF Onward, Failed, Answer
  <2> QED BY <1>3, <2>1
<1>4. SystemOK(Ok(t).tree) /\ SystemOK(d0.tree)
  BY SystemDeleted DEF Ok, Answer
<1> HIDE DEF d0
<1>5. SystemOK(d.tree)
  BY <1>3, <1>4
<1> HIDE DEF d
<1>6. SystemOK(m0.tree)
  BY <1>1, <1>5, SystemAllMade
<1> HIDE DEF m0
<1>7. SystemOK(m.tree)
  BY <1>3, <1>5, <1>6
<1> HIDE DEF m
<1>8. SystemOK(u0.tree)
  BY <1>1, <1>7, SystemModified
<1> HIDE DEF u0
<1>9. SystemOK(u.tree)
  BY <1>3, <1>7, <1>8
<1> QED BY <1>2, <1>9

-----------------------------------------------------------------------------
(* The names of the files in a forest                                      *)

Deep(t, depth, bound) ==
  /\ depth \in [DOMAIN t -> 0..bound]
  /\ \A i \in DOMAIN t : t[i].up # 0 => t[i].up \in DOMAIN t /\ depth[t[i].up] < depth[i]
Forest(t) ==
  /\ DOMAIN t \subseteq Ino /\ \A i \in DOMAIN t : t[i].name \in Nat /\ {"up", "name"} \subseteq DOMAIN t[i]
  /\ \E bound \in Nat : \E depth \in [DOMAIN t -> 0..bound] : Deep(t, depth, bound)

LEMMA IsForestMeans ==
  ASSUME NEW t, IsForest(t)
  PROVE  Forest(t)
<1>1. /\ DOMAIN t \subseteq Ino
      /\ \A i \in DOMAIN t : t[i].name \in Nat /\ t[i].up \in DOMAIN t \cup {0} /\ {"up", "name"} \subseteq DOMAIN t[i]
  BY SendStreamConstants DEF IsForest
<1>2. PICK depth \in [DOMAIN t -> 0..Cardinality(Ino)] :
        \A i \in DOMAIN t : t[i].up # 0 => depth[t[i].up] < depth[i]
  BY DEF IsForest
<1> DEFINE bound == Cardinality(Ino)
<1>3. bound \in Nat
  BY SendStreamConstants, FS_CardinalityType
<1> HIDE DEF bound
<1>4. depth \in [DOMAIN t -> 0..bound]
  BY <1>2 DEF bound
<1>5. Deep(t, depth, bound)
  BY <1>1, <1>2, <1>4 DEF Deep
<1> QED BY <1>1, <1>3, <1>4, <1>5 DEF Forest

Ways(t, D, way) ==
  way = [j \in D |-> IF j = 0 THEN <<>> ELSE Append(way[t[j].up], t[j].name)]

LEMMA WaysThere ==
  ASSUME NEW t, Forest(t)
  PROVE  \E way : Ways(t, DOMAIN t \cup {0}, way)
<1>1. DOMAIN t \subseteq Nat \ {0}
  BY SendStreamConstants DEF Forest
<1>0. PICK bound \in Nat : \E depth \in [DOMAIN t -> 0..bound] : Deep(t, depth, bound)
  BY DEF Forest
<1>2. PICK depth \in [DOMAIN t -> 0..bound] : Deep(t, depth, bound)
  BY <1>0
<1>3. \A i \in DOMAIN t : depth[i] \in 0..bound /\ (t[i].up # 0 => t[i].up \in DOMAIN t /\ depth[t[i].up] < depth[i])
  BY <1>2 DEF Deep
<1> DEFINE D(k) == {j \in DOMAIN t : depth[j] < k} \cup {0}
           Bad == {k \in Nat : ~\E way : Ways(t, D(k), way)}
<1>4. Bad = {}
  <2> SUFFICES ASSUME Bad # {} PROVE FALSE
    OBVIOUS
  <2>1. PICK k \in Bad : \A j \in Bad : k <= j
    <3>1. Bad \in SUBSET Nat
      OBVIOUS
    <3> HIDE DEF Bad
    <3> QED BY <3>1, LeastNumber
  <2>2. k \in Nat /\ ~\E way : Ways(t, D(k), way)
    BY <2>1
  <2>3. CASE k = 0
    <3>1. D(k) = {0}
      BY <1>3, <2>3
    <3>2. Ways(t, D(k), [j \in {0} |-> <<>>])
      BY <3>1 DEF Ways
    <3> QED BY <2>2, <3>2
  <2>4. CASE k # 0
    <3>1. k - 1 \in Nat /\ k - 1 \notin Bad
      <4> HIDE DEF Bad
      <4> QED BY <2>1, <2>2, <2>4
    <3>2. PICK v : Ways(t, D(k - 1), v)
      BY <3>1
    <3> DEFINE C == D(k - 1)
               E == D(k)
               w == [j \in E |-> IF j = 0 THEN <<>> ELSE Append(v[t[j].up], t[j].name)]
    <3>3. v = [j \in C |-> IF j = 0 THEN <<>> ELSE Append(v[t[j].up], t[j].name)]
      BY <3>2 DEF Ways
    <3>4. ASSUME NEW j \in E, j # 0
          PROVE  t[j].up \in C
      <4>1. j \in DOMAIN t /\ depth[j] < k /\ depth[j] \in Nat
        BY <1>3, <3>4
      <4>2. t[j].up # 0 => t[j].up \in DOMAIN t /\ depth[t[j].up] < k - 1
        BY <1>3, <2>2, <4>1
      <4> QED BY <4>2
    <3>5. C \subseteq E
      BY <1>3, <2>2
    <3> HIDE DEF C, E
    <3>6. \A j \in C : w[j] = v[j]
      BY <3>3, <3>5
    <3>7. \A j \in E : w[j] = IF j = 0 THEN <<>> ELSE Append(w[t[j].up], t[j].name)
      BY <3>4, <3>6
    <3>8. w = [j \in E |-> w[j]]
      OBVIOUS
    <3> HIDE DEF w
    <3>9. Ways(t, E, w)
      BY <3>7, <3>8 DEF Ways
    <3> QED BY <2>2, <3>9 DEF E
  <2> QED BY <2>3, <2>4
<1>5. bound + 1 \in Nat /\ D(bound + 1) = DOMAIN t \cup {0}
  BY <1>3
<1>6. \E way : Ways(t, D(bound + 1), way)
  BY <1>4, <1>5
<1> QED BY <1>5, <1>6

LEMMA NamesInForest ==
  ASSUME NEW t, Forest(t)
  PROVE  /\ PathOf(t, 0) = <<>>
         /\ \A i \in DOMAIN t : /\ PathOf(t, i) = Append(PathOf(t, t[i].up), t[i].name)
                                /\ PathOf(t, t[i].up) \in Seq(Nat)
                                /\ PathOf(t, i) \in Somewhere
<1> DEFINE D == DOMAIN t \cup {0}
           way == CHOOSE w : Ways(t, D, w)
<1>1. Ways(t, D, way)
  BY WaysThere
<1>2. \A i : PathOf(t, i) = way[i]
  BY DEF PathOf, Ways
<1> HIDE DEF way
<1>3. DOMAIN t \subseteq Nat \ {0}
  BY SendStreamConstants DEF Forest
<1>4. \A j \in D : way[j] = IF j = 0 THEN <<>> ELSE Append(way[t[j].up], t[j].name)
  BY <1>1 DEF Ways
<1>5. way[0] = <<>> /\ \A i \in DOMAIN t : way[i] = Append(way[t[i].up], t[i].name)
  BY <1>3, <1>4
<1>0. PICK bound \in Nat : \E depth \in [DOMAIN t -> 0..bound] : Deep(t, depth, bound)
  BY DEF Forest
<1>6. PICK depth \in [DOMAIN t -> 0..bound] : Deep(t, depth, bound)
  BY <1>0
<1>7. \A i \in DOMAIN t : depth[i] \in Nat /\ (t[i].up # 0 => t[i].up \in DOMAIN t /\ depth[t[i].up] < depth[i])
  BY <1>6 DEF Deep
<1> DEFINE Bad == {i \in DOMAIN t : way[i] \notin Seq(Nat)}
<1>8. Bad = {}
  <2> SUFFICES ASSUME Bad # {} PROVE FALSE
    OBVIOUS
  <2> DEFINE Depths == {depth[i] : i \in Bad}
  <2>1. Depths \in SUBSET Nat /\ Depths # {}
    BY <1>7
  <2>2. PICK k \in Depths : \A j \in Depths : k <= j
    <3> HIDE DEF Depths
    <3> QED BY <2>1, LeastNumber
  <2>3. PICK i \in Bad : depth[i] = k
    BY <2>2
  <2>4. \A j \in Bad : depth[i] <= depth[j]
    BY <2>2, <2>3
  <2>5. i \in DOMAIN t /\ way[i] \notin Seq(Nat)
    BY <2>3
  <2>6. way[t[i].up] \in Seq(Nat)
    <3>1. CASE t[i].up = 0
      <4>1. way[t[i].up] = <<>>
        BY <1>5, <3>1
      <4> QED BY ONLY <4>1, EmptySeq
    <3>2. CASE t[i].up # 0
      <4>1. t[i].up \in DOMAIN t /\ depth[t[i].up] < depth[i] /\ depth[i] \in Nat /\ depth[t[i].up] \in Nat
        BY <1>7, <2>5, <3>2
      <4>2. t[i].up \notin Bad
        BY <2>4, <4>1
      <4> QED BY <4>1, <4>2
    <3> QED BY <3>1, <3>2
  <2>7. way[i] = Append(way[t[i].up], t[i].name) /\ t[i].name \in Nat
    BY <1>5, <2>5 DEF Forest
  <2> QED BY <2>5, <2>6, <2>7, AppendPath DEF Somewhere
<1>9. \A i \in DOMAIN t : way[t[i].up] \in Seq(Nat)
  <2> TAKE i \in DOMAIN t
  <2>1. CASE t[i].up = 0
    <3>1. way[t[i].up] = <<>>
      BY <1>5, <2>1
    <3> QED BY ONLY <3>1, EmptySeq
  <2>2. CASE t[i].up # 0
    BY <1>7, <1>8, <2>2
  <2> QED BY <2>1, <2>2
<1>10. \A i \in DOMAIN t : way[i] \in Somewhere
  <2> TAKE i \in DOMAIN t
  <2>1. t[i].name \in Nat /\ way[t[i].up] \in Seq(Nat) /\ way[i] = Append(way[t[i].up], t[i].name)
    BY <1>5, <1>9 DEF Forest
  <2> QED BY <2>1, AppendPath
<1> QED BY <1>2, <1>5, <1>9, <1>10

(* Each step of the kernel leaves a forest.                                *)
LEMMA ForestWith ==
  ASSUME NEW t, Forest(t), NEW i \in Ino, i \notin DOMAIN t, NEW x, x.up = 0, x.name \in Nat, {"up", "name"} \subseteq DOMAIN x,
         NEW s, s = [j \in DOMAIN t \cup {i} |-> IF j = i THEN x ELSE t[j]]
  PROVE  Forest(s)
<1>0. PICK bound \in Nat : \E depth \in [DOMAIN t -> 0..bound] : Deep(t, depth, bound)
  BY DEF Forest
<1>1. PICK depth \in [DOMAIN t -> 0..bound] : Deep(t, depth, bound)
  BY <1>0
<1> DEFINE e == [j \in DOMAIN t \cup {i} |-> IF j = i THEN 0 ELSE depth[j]]
<1>2. DOMAIN s = DOMAIN t \cup {i} /\ s[i] = x /\ \A j \in DOMAIN t : j # i /\ s[j] = t[j]
  OBVIOUS
<1>3. e \in [DOMAIN s -> 0..bound] /\ \A j \in DOMAIN t : e[j] = depth[j]
  BY <1>1, <1>2
<1> HIDE DEF e
<1>4. Deep(s, e, bound)
  BY <1>1, <1>2, <1>3 DEF Deep
<1> QED BY <1>2, <1>3, <1>4 DEF Forest

LEMMA ForestWithout ==
  ASSUME NEW t, Forest(t), NEW i \in DOMAIN t, \A j \in DOMAIN t : t[j].up # i,
         NEW s, s = Restrict(t, DOMAIN t \ {i})
  PROVE  Forest(s)
<1>0. PICK bound \in Nat : \E depth \in [DOMAIN t -> 0..bound] : Deep(t, depth, bound)
  BY DEF Forest
<1>1. PICK depth \in [DOMAIN t -> 0..bound] : Deep(t, depth, bound)
  BY <1>0
<1> DEFINE e == [j \in DOMAIN t \ {i} |-> depth[j]]
<1>2. DOMAIN s = DOMAIN t \ {i} /\ \A j \in DOMAIN s : s[j] = t[j]
  BY DEF Restrict
<1>3. e \in [DOMAIN s -> 0..bound] /\ \A j \in DOMAIN s : e[j] = depth[j]
  BY <1>1, <1>2
<1> HIDE DEF e
<1>4. Deep(s, e, bound)
  <2>1. \A j \in DOMAIN t : t[j].up # 0 => t[j].up \in DOMAIN t /\ depth[t[j].up] < depth[j]
    BY <1>1 DEF Deep
  <2>2. ASSUME NEW j \in DOMAIN s, s[j].up # 0
        PROVE  s[j].up \in DOMAIN s /\ e[s[j].up] < e[j]
    <3>1. j \in DOMAIN t /\ s[j].up = t[j].up /\ t[j].up \in DOMAIN t /\ depth[t[j].up] < depth[j]
      BY <1>2, <2>1, <2>2
    <3>2. s[j].up \in DOMAIN s
      BY <1>2, <3>1
    <3> QED BY <1>3, <3>1, <3>2
  <2> QED BY <1>3, <2>2 DEF Deep
<1> QED BY <1>2, <1>3, <1>4 DEF Forest

(* A file with what is in it goes into another directory, which is not     *)
(* below the file.                                                         *)
LEMMA ForestMoved ==
  ASSUME NEW t, Forest(t), NEW i \in DOMAIN t, NEW up \in DOMAIN t \cup {0},
         up # 0 => ~IsPrefix(PathOf(t, i), PathOf(t, up)),
         NEW s, DOMAIN s = DOMAIN t, s[i].up = up, s[i].name \in Nat, {"up", "name"} \subseteq DOMAIN s[i],
         \A j \in DOMAIN t : j # i => s[j] = t[j]
  PROVE  Forest(s)
<1>0. PICK bound \in Nat : \E depth \in [DOMAIN t -> 0..bound] : Deep(t, depth, bound)
  BY DEF Forest
<1>1. PICK depth \in [DOMAIN t -> 0..bound] : Deep(t, depth, bound)
  BY <1>0
<1>2. \A j \in DOMAIN t : depth[j] \in 0..bound /\ (t[j].up # 0 => t[j].up \in DOMAIN t /\ depth[t[j].up] < depth[j])
  BY <1>1 DEF Deep
<1> DEFINE In(j) == IsPrefix(PathOf(t, i), PathOf(t, j))
           e == [j \in DOMAIN t |-> IF In(j) THEN depth[j] + bound + 1 ELSE depth[j]]
<1>3. In(i)
  BY NamesInForest, PrefixOrder DEF Somewhere
<1>4. \A j \in DOMAIN t : t[j].up # 0 /\ In(t[j].up) => In(j)
  <2> TAKE j \in DOMAIN t
  <2> HAVE t[j].up # 0 /\ In(t[j].up)
  <2>1. t[j].name \in Nat /\ PathOf(t, t[j].up) \in Seq(Nat)
        /\ PathOf(t, j) = Append(PathOf(t, t[j].up), t[j].name) /\ PathOf(t, i) \in Seq(Nat) /\ PathOf(t, j) \in Seq(Nat)
    BY NamesInForest DEF Forest, Somewhere
  <2> DEFINE w == PathOf(t, t[j].up)
             name == t[j].name
             own == PathOf(t, j)
             top == PathOf(t, i)
  <2>2. w \in Seq(Nat) /\ name \in Nat /\ own = Append(w, name) /\ top \in Seq(Nat) /\ own \in Seq(Nat)
    BY <2>1
  <2>3. IsPrefix(top, w)
    OBVIOUS
  <2>4. In(j) <=> IsPrefix(top, own)
    OBVIOUS
  <2> HIDE DEF w, name, own, top, In
  <2>5. IsPrefix(w, own)
    BY ONLY <2>2, AppendPath
  <2>6. IsPrefix(top, own)
    BY ONLY <2>2, <2>3, <2>5, PrefixOrder
  <2> QED BY <2>4, <2>6
<1> HIDE DEF In
<1>5. e \in [DOMAIN s -> 0..2*bound + 1]
  BY <1>2
<1>6. ASSUME NEW j \in DOMAIN s, s[j].up # 0
      PROVE  s[j].up \in DOMAIN s /\ e[s[j].up] < e[j]
  <2>1. CASE j = i
    <3>1. up \in DOMAIN t /\ ~In(up)
      BY <1>6, <2>1 DEF In
    <3>2. e[up] \in 0..bound /\ e[i] = depth[i] + bound + 1 /\ depth[i] \in 0..bound
      BY <1>2, <1>3, <3>1
    <3> QED BY <2>1, <3>1, <3>2
  <2>2. CASE j # i
    <3>1. s[j].up = t[j].up /\ t[j].up \in DOMAIN t /\ depth[t[j].up] < depth[j]
      BY <1>2, <1>6, <2>2
    <3>2. In(t[j].up) => In(j)
      BY <1>4, <1>6, <3>1
    <3> QED BY <1>2, <3>1, <3>2
  <2> QED BY <2>1, <2>2
<1> HIDE DEF e
<1>7. 2*bound + 1 \in Nat
  OBVIOUS
<1> DEFINE b == 2*bound + 1
<1> HIDE DEF b
<1>8. b \in Nat /\ e \in [DOMAIN s -> 0..b]
  BY <1>5, <1>7 DEF b
<1>9. Deep(s, e, b)
  BY <1>6, <1>8 DEF Deep
<1>10. DOMAIN s \subseteq Ino /\ \A j \in DOMAIN s : s[j].name \in Nat /\ {"up", "name"} \subseteq DOMAIN s[j]
  BY DEF Forest
<1> QED BY <1>8, <1>9, <1>10 DEF Forest

-----------------------------------------------------------------------------
(* The names the StreamProcessor knows                                     *)

NamesOK(P) == P \subseteq Somewhere /\ IsFiniteSet(P)

LEMMA ImageFinite ==
  ASSUME NEW S, IsFiniteSet(S), NEW g, NEW T, \A y \in T : \E x \in S : y = g[x]
  PROVE  IsFiniteSet(T)
<1> DEFINE U == {g[x] : x \in S}
           h == [x \in S |-> g[x]]
<1>1. h \in Surjection(S, U)
  BY DEF Surjection
<1>2. T \in SUBSET U
  OBVIOUS
<1>3. IsFiniteSet(U)
  <2> HIDE DEF U, h
  <2> QED BY <1>1, FS_Surjection
<1> HIDE DEF U
<1> QED BY <1>2, <1>3, FS_Subset

LEMMA NamesTogether ==
  ASSUME NEW P, NamesOK(P), NEW Q, NamesOK(Q), NEW R \in SUBSET (P \cup Q)
  PROVE  NamesOK(R)
<1> DEFINE U == P \cup Q
<1>1. IsFiniteSet(U) /\ U \subseteq Somewhere
  BY FS_Union DEF NamesOK
<1> HIDE DEF U
<1>2. R \in SUBSET U
  BY DEF U
<1> QED BY <1>1, <1>2, FS_Subset DEF NamesOK

LEMMA ChainNames ==
  ASSUME NEW p \in Somewhere
  PROVE  NamesOK(Chain(p)) /\ p \in Chain(p)
<1>1. p \in Seq(Nat) /\ Len(p) \in Nat
  BY LenProperties DEF Somewhere
<1> DEFINE g == [n \in 0..Len(p) |-> SubSeq(p, 1, n)]
<1>2. \A q \in Chain(p) : q # <<>> /\ \E n \in 0..Len(p) : q = g[n]
  BY DEF Chain, Prefixes
<1>3. \A n \in 0..Len(p) : g[n] \in Seq(Nat)
  BY <1>1, UpTo
<1>4. IsFiniteSet(0..Len(p))
  BY <1>1, FS_Interval
<1>5. p \in Chain(p)
  BY <1>1, SubSeqFull DEF Chain, Prefixes, Somewhere
<1> HIDE DEF g
<1>6. IsFiniteSet(Chain(p))
  BY <1>2, <1>4, ImageFinite
<1> QED BY <1>2, <1>3, <1>5, <1>6 DEF NamesOK, Somewhere

LEMMA PutFlagsNames ==
  ASSUME NEW f, NamesOK(DOMAIN f), NEW p \in Somewhere, NEW status
  PROVE  NamesOK(DOMAIN PutFlags(f, p, status))
<1>1. DOMAIN PutFlags(f, p, status) = DOMAIN f \cup Chain(p)
  BY DEF PutFlags
<1> QED BY <1>1, ChainNames, NamesTogether

LEMMA InsertNames ==
  ASSUME NEW f, NamesOK(DOMAIN f), NEW p \in Somewhere
  PROVE  NamesOK(DOMAIN Insert(f, p))
BY PutFlagsNames DEF Insert

LEMMA AddFlagsNames ==
  ASSUME NEW f, NamesOK(DOMAIN f), NEW p \in Somewhere, NEW status
  PROVE  NamesOK(DOMAIN AddFlags(f, p, status))
BY PutFlagsNames DEF AddFlags

LEMMA EraseNames ==
  ASSUME NEW f, NamesOK(DOMAIN f), NEW p
  PROVE  NamesOK(DOMAIN Erase(f, p))
<1> DEFINE above == {q \in Chain(p) \ {p} :
                       \A r \in Childs(f, q) \cup {q} : IsPrefix(r, p) /\ (r # p => f[r] = {})}
           D == DOMAIN f \ (above \cup {p})
<1>1. Erase(f, p) \in {f, [f EXCEPT ![p] = {}], Restrict(f, D)}
  BY DEF Erase
<1>2. DOMAIN Restrict(f, D) = D
  BY DEF Restrict
<1>3. DOMAIN [f EXCEPT ![p] = {}] = DOMAIN f
  OBVIOUS
<1>4. D \in SUBSET (DOMAIN f \cup DOMAIN f)
  OBVIOUS
<1> HIDE DEF D
<1>5. DOMAIN Erase(f, p) \in SUBSET (DOMAIN f \cup DOMAIN f)
  BY <1>1, <1>2, <1>3, <1>4
<1> QED BY <1>5, NamesTogether

LEMMA CreatedNames ==
  ASSUME NEW f, NamesOK(DOMAIN f), NEW p \in Somewhere
  PROVE  NamesOK(DOMAIN Created(f, p))
<1>1. DOMAIN Retouch(f, p) = DOMAIN f
  BY DEF Retouch
<1> QED BY <1>1, PutFlagsNames DEF Created

LEMMA DeletedNames ==
  ASSUME NEW f, NamesOK(DOMAIN f), NEW p \in Somewhere
  PROVE  NamesOK(DOMAIN Deleted(f, p))
BY EraseNames, PutFlagsNames DEF Deleted

(* What is left of a path below another, and a path in front of a rest     *)
Rest(r, o) == SubSeq(r, Len(o) + 1, Len(r))

LEMMA RestIsPath ==
  ASSUME NEW o \in Seq(Nat), NEW r \in Seq(Nat)
  PROVE  Rest(r, o) \in Seq(Nat) /\ (IsStrictPrefix(o, r) => Rest(r, o) \in Somewhere)
<1>1. Len(o) \in Nat /\ Len(r) \in Nat
  BY LenProperties
<1> DEFINE m == Len(o) + 1
           n == Len(r)
<1>2. m \in Int /\ n \in Int /\ \A i \in m..n : r[i] \in Nat
  BY <1>1, ElementOfSeq
<1>3. m > n => SubSeq(r, m, n) = <<>>
  BY <1>2, SubSeqEmpty
<1>4. SubSeq(r, m, n) \in Seq(Nat) /\ Len(SubSeq(r, m, n)) = IF m <= n THEN n - m + 1 ELSE 0
  BY <1>2, SubSeqProperties
<1>5. ASSUME IsStrictPrefix(o, r)
      PROVE  m <= n
  <2>1. IsPrefix(o, r) /\ o # r /\ Len(o) <= Len(r)
    BY <1>5, PrefixOrder DEF IsStrictPrefix
  <2>2. Len(o) # Len(r)
    BY <1>1, <2>1, PrefixOrder
  <2> QED BY <1>1, <2>1, <2>2
<1>6. SubSeq(r, m, n) = Rest(r, o)
  BY DEF Rest
<1> HIDE DEF m, n
<1>7. m <= n => Len(Rest(r, o)) # 0
  BY <1>2, <1>4, <1>6
<1> QED BY <1>4, <1>5, <1>6, <1>7, EmptySeq DEF Somewhere

LEMMA InFront ==
  ASSUME NEW o \in Somewhere, NEW r \in Seq(Nat)
  PROVE  o \o r \in Somewhere /\ r \o o \in Seq(Nat)
<1>1. o \in Seq(Nat) /\ Len(o) \in Nat /\ Len(r) \in Nat /\ Len(o) > 0
  BY LenProperties, EmptyPrefix DEF Somewhere
<1>2. o \o r \in Seq(Nat) /\ Len(o \o r) = Len(o) + Len(r) /\ r \o o \in Seq(Nat)
  BY <1>1, ConcatProperties
<1>3. o \o r # <<>>
  BY <1>1, <1>2, EmptySeq
<1> QED BY <1>2, <1>3 DEF Somewhere

LEMMA RenameNodeNames ==
  ASSUME NEW f, NamesOK(DOMAIN f), NEW o \in Somewhere, NEW n \in Somewhere
  PROVE  NamesOK(DOMAIN RenameNode(f, o, n))
<1> DEFINE Q == {n \o SubSeq(r, Len(o) + 1, Len(r)) : r \in Childs(f, o)}
           moved == [q \in DOMAIN Insert(f, n) \cup Q |->
                  IF IsPrefix(n, q) THEN f[o \o SubSeq(q, Len(n) + 1, Len(q))] ELSE Insert(f, n)[q]]
           g == Restrict(moved, DOMAIN moved \ Childs(f, o))
<1>1. RenameNode(f, o, n) = Erase(g, o)
  BY DEF RenameNode
<1>2. NamesOK(Q)
  <2> DEFINE h == [r \in DOMAIN f |-> n \o Rest(r, o)]
  <2>1. \A q \in Q : \E r \in DOMAIN f : q = h[r]
    BY DEF Rest, Childs
  <2>2. ASSUME NEW r \in DOMAIN f
        PROVE  h[r] \in Somewhere
    <3>1. r \in Seq(Nat) /\ o \in Seq(Nat)
      BY DEF NamesOK, Somewhere
    <3>2. Rest(r, o) \in Seq(Nat)
      BY <3>1, RestIsPath
    <3> QED BY <3>2, InFront
  <2> HIDE DEF h, Q
  <2>3. IsFiniteSet(Q)
    BY <2>1, ImageFinite DEF NamesOK
  <2> QED BY <2>1, <2>2, <2>3 DEF NamesOK
<1>3. DOMAIN moved = DOMAIN Insert(f, n) \cup Q
  OBVIOUS
<1>4. DOMAIN g = DOMAIN moved \ Childs(f, o)
  BY DEF Restrict
<1> HIDE DEF moved, g, Q
<1>5. DOMAIN g \in SUBSET (DOMAIN Insert(f, n) \cup Q)
  BY <1>3, <1>4
<1>6. NamesOK(DOMAIN g)
  BY <1>2, <1>5, InsertNames, NamesTogether
<1> QED BY <1>1, <1>6, EraseNames

(* merge                                                                   *)
MergedUpTo(to, rest, n, x) ==
  x = [i \in 1..n |-> IF i = 1 THEN Append(to, rest[1]) ELSE Append(to \o x[i - 1], rest[i])]

LEMMA MergedThere ==
  ASSUME NEW to, NEW rest, NEW n \in Nat
  PROVE  \E x : MergedUpTo(to, rest, n, x)
<1> DEFINE Bad == {k \in Nat : ~\E x : MergedUpTo(to, rest, k, x)}
<1> SUFFICES ASSUME Bad # {} PROVE FALSE
  OBVIOUS
<1>1. PICK k \in Bad : \A j \in Bad : k <= j
  <2>1. Bad \in SUBSET Nat
    OBVIOUS
  <2> HIDE DEF Bad
  <2> QED BY <2>1, LeastNumber
<1>2. k \in Nat /\ ~\E x : MergedUpTo(to, rest, k, x)
  BY <1>1
<1>3. CASE k = 0
  <2>1. MergedUpTo(to, rest, 0, [i \in 1..0 |-> 0])
    BY DEF MergedUpTo
  <2> QED BY <1>2, <1>3, <2>1
<1>4. CASE k # 0
  <2>1. k - 1 \in Nat /\ k - 1 \notin Bad
    BY <1>1, <1>2, <1>4
  <2>2. PICK v : MergedUpTo(to, rest, k - 1, v)
    BY <2>1
  <2> DEFINE last == IF k = 1 THEN Append(to, rest[1]) ELSE Append(to \o v[k - 1], rest[k])
             w == [i \in 1..k |-> IF i = k THEN last ELSE v[i]]
  <2>3. \A i \in 1..k-1 : v[i] = IF i = 1 THEN Append(to, rest[1]) ELSE Append(to \o v[i - 1], rest[i])
    BY <2>2 DEF MergedUpTo
  <2>4. \A i \in 1..k : w[i] = IF i = 1 THEN Append(to, rest[1]) ELSE Append(to \o w[i - 1], rest[i])
    <3> TAKE i \in 1..k
    <3>1. CASE i = k
      <4>1. CASE k = 1
        BY <3>1, <4>1
      <4>2. CASE k # 1
        <5>1. k - 1 \in 1..k /\ k - 1 # k
          BY <1>2, <1>4, <4>2
        <5> QED BY <3>1, <4>2, <5>1
      <4> QED BY <4>1, <4>2
    <3>2. CASE i # k
      <4>1. i \in 1..k-1 /\ (i # 1 => i - 1 \in 1..k /\ i - 1 # k)
        BY <1>2, <3>2
      <4>2. w[i] = v[i] /\ (i # 1 => w[i - 1] = v[i - 1])
        BY <3>2, <4>1
      <4> HIDE DEF w
      <4> QED BY <2>3, <4>1, <4>2
    <3> QED BY <3>1, <3>2
  <2>5. w = [i \in 1..k |-> w[i]]
    OBVIOUS
  <2> HIDE DEF w
  <2>6. w = [i \in 1..k |-> IF i = 1 THEN Append(to, rest[1]) ELSE Append(to \o w[i - 1], rest[i])]
    BY <2>4, <2>5
  <2> QED BY <1>2, <2>6 DEF MergedUpTo
<1> QED BY <1>3, <1>4

LEMMA MergedNameIsPath ==
  ASSUME NEW to \in Somewhere, NEW rest \in Somewhere
  PROVE  MergedName(to, rest) \in Somewhere
<1>1. Len(rest) \in Nat /\ Len(rest) > 0 /\ rest \in Seq(Nat) /\ to \in Seq(Nat)
  BY LenProperties, EmptyPrefix DEF Somewhere
<1> DEFINE n == Len(rest)
           x == CHOOSE y : MergedUpTo(to, rest, n, y)
<1>2. MergedName(to, rest) = x[n]
  BY DEF MergedName, MergedUpTo
<1>3. \A i \in 1..n : rest[i] \in Nat
  BY <1>1, ElementOfSeq
<1> HIDE DEF n
<1>4. n \in Nat /\ n > 0
  BY <1>1 DEF n
<1>5. MergedUpTo(to, rest, n, x)
  BY <1>4, MergedThere
<1> HIDE DEF x
<1>6. \A i \in 1..n : x[i] = IF i = 1 THEN Append(to, rest[1]) ELSE Append(to \o x[i - 1], rest[i])
  BY <1>5 DEF MergedUpTo
<1> DEFINE Bad == {i \in 1..n : x[i] \notin Somewhere}
<1>7. Bad = {}
  <2> SUFFICES ASSUME Bad # {} PROVE FALSE
    OBVIOUS
  <2>1. PICK i \in Bad : \A j \in Bad : i <= j
    <3>1. Bad \in SUBSET Nat
      BY <1>4
    <3> HIDE DEF Bad
    <3> QED BY <3>1, LeastNumber
  <2>2. i \in 1..n /\ x[i] \notin Somewhere /\ rest[i] \in Nat
    BY <1>3, <2>1
  <2>3. CASE i = 1
    <3>1. x[i] = Append(to, rest[i])
      BY <1>6, <2>2, <2>3
    <3> QED BY <1>1, <2>2, <3>1, AppendPath
  <2>4. CASE i # 1
    <3>1. i - 1 \in 1..n /\ i - 1 \notin Bad
      BY <1>4, <2>1, <2>2, <2>4
    <3>2. x[i - 1] \in Seq(Nat)
      BY <3>1 DEF Somewhere
    <3>3. to \o x[i - 1] \in Seq(Nat)
      BY <3>2, InFront DEF Somewhere
    <3>4. x[i] = Append(to \o x[i - 1], rest[i])
      BY <1>6, <2>2, <2>4
    <3> QED BY <2>2, <3>3, <3>4, AppendPath
  <2> QED BY <2>3, <2>4
<1> QED BY <1>2, <1>4, <1>7

LEMMA MergeNames ==
  ASSUME NEW f, NamesOK(DOMAIN f), NEW tmp, NamesOK(DOMAIN tmp), NEW to \in Somewhere
  PROVE  NamesOK(DOMAIN Merge(f, tmp, to))
<1> DEFINE X == {MergedName(to, q) : q \in DOMAIN tmp}
           from == [x \in X |-> CHOOSE q \in DOMAIN tmp : MergedName(to, q) = x]
           Chains == {Chain(x) : x \in DOMAIN from}
           new == (UNION {Chain(x) : x \in DOMAIN from}) \ DOMAIN f
<1>1. DOMAIN Merge(f, tmp, to) = DOMAIN f \cup new
  BY DEF Merge
<1>2. DOMAIN from = X
  OBVIOUS
<1>3. Chains = {Chain(x) : x \in X} /\ new = (UNION Chains) \ DOMAIN f
  BY <1>2
<1>4. \A x \in X : x \in Somewhere
  BY MergedNameIsPath DEF NamesOK
<1>5. \A C \in Chains : NamesOK(C)
  BY <1>3, <1>4, ChainNames
<1>6. IsFiniteSet(Chains)
  <2> DEFINE h == [q \in DOMAIN tmp |-> Chain(MergedName(to, q))]
  <2>1. \A C \in Chains : \E q \in DOMAIN tmp : C = h[q]
    BY <1>3
  <2> HIDE DEF h, Chains
  <2> QED BY <2>1, ImageFinite DEF NamesOK
<1> HIDE DEF Chains, X, from, new
<1> DEFINE U == UNION Chains
<1>7. NamesOK(U)
  <2>1. IsFiniteSet(U)
    BY <1>5, <1>6, FS_UNION DEF NamesOK
  <2> QED BY <1>5, <2>1 DEF NamesOK
<1>8. DOMAIN Merge(f, tmp, to) \in SUBSET (DOMAIN f \cup U)
  BY <1>1, <1>3
<1> HIDE DEF U
<1> QED BY <1>7, <1>8, NamesTogether

(* process_rename                                                          *)
RenamedUpTo(f, from, to, below, n, r) ==
  r = [i \in 0..n |->
         LET rest == IF i = 0 THEN <<>> ELSE below[i]
         IN  Created(Deleted(IF i = 0 THEN f ELSE r[i - 1], from \o rest), to \o rest)]
RenamedOnce(f, from, to, rest) == Created(Deleted(f, from \o rest), to \o rest)
RenamedAt(f, from, to, below, r, i) ==
  IF i = 0 THEN RenamedOnce(f, from, to, <<>>) ELSE RenamedOnce(r[i - 1], from, to, below[i])

LEMMA RenamedMeans ==
  ASSUME NEW f, NEW from, NEW to, NEW below, NEW n \in Nat, NEW r
  PROVE  RenamedUpTo(f, from, to, below, n, r) <=> r = [i \in 0..n |-> RenamedAt(f, from, to, below, r, i)]
<1>1. \A i \in 0..n : (LET rest == IF i = 0 THEN <<>> ELSE below[i]
                       IN  Created(Deleted(IF i = 0 THEN f ELSE r[i - 1], from \o rest), to \o rest))
                      = RenamedAt(f, from, to, below, r, i)
  BY DEF RenamedAt, RenamedOnce
<1> QED BY <1>1 DEF RenamedUpTo

LEMMA RenamedThere ==
  ASSUME NEW f, NEW from, NEW to, NEW below, NEW n \in Nat
  PROVE  \E r : RenamedUpTo(f, from, to, below, n, r)
<1> DEFINE Up(k, r) == r = [i \in 0..k |-> RenamedAt(f, from, to, below, r, i)]
           Bad == {k \in Nat : ~\E r : Up(k, r)}
<1>0. Bad = {}
  <2> SUFFICES ASSUME Bad # {} PROVE FALSE
    OBVIOUS
  <2>1. PICK k \in Bad : \A j \in Bad : k <= j
    <3>1. Bad \in SUBSET Nat
      OBVIOUS
    <3> HIDE DEF Bad
    <3> QED BY <3>1, LeastNumber
  <2>2. k \in Nat /\ ~\E r : Up(k, r)
    BY <2>1
  <2>3. CASE k = 0
    <3> DEFINE w == [i \in 0..0 |-> RenamedOnce(f, from, to, <<>>)]
    <3>1. \A i \in 0..0 : w[i] = RenamedAt(f, from, to, below, w, i)
      BY DEF RenamedAt
    <3>2. w = [i \in 0..0 |-> w[i]]
      OBVIOUS
    <3> HIDE DEF w
    <3>3. Up(0, w)
      BY <3>1, <3>2
    <3> QED BY <2>2, <2>3, <3>3
  <2>4. CASE k # 0
    <3>1. k - 1 \in Nat /\ k - 1 \notin Bad
      <4> HIDE DEF Bad
      <4> QED BY <2>1, <2>2, <2>4
    <3>2. PICK v : Up(k - 1, v)
      BY <3>1
    <3> DEFINE w == [i \in 0..k |-> IF i = k THEN RenamedAt(f, from, to, below, v, k) ELSE v[i]]
    <3>3. \A i \in 0..k-1 : v[i] = RenamedAt(f, from, to, below, v, i)
      BY <3>2
    <3>4. \A i \in 0..k : w[i] = RenamedAt(f, from, to, below, v, i)
      BY <2>2, <3>3
    <3>5. \A i \in 0..k : i # 0 => w[i - 1] = v[i - 1]
      BY <2>2, <2>4
    <3>6. w = [i \in 0..k |-> w[i]]
      OBVIOUS
    <3> HIDE DEF w
    <3>7. \A i \in 0..k : w[i] = RenamedAt(f, from, to, below, w, i)
      BY <3>4, <3>5 DEF RenamedAt
    <3>8. Up(k, w)
      BY <3>6, <3>7
    <3> QED BY <2>2, <3>8
  <2> QED BY <2>3, <2>4
<1>1. PICK r : Up(n, r)
  BY <1>0
<1>2. RenamedUpTo(f, from, to, below, n, r)
  BY <1>1, RenamedMeans
<1> QED BY <1>2

LEMMA RenameUntouchedNames ==
  ASSUME Snapshots, NEW f, NamesOK(DOMAIN f), NEW from \in Somewhere, NEW to \in Somewhere
  PROVE  NamesOK(DOMAIN RenameUntouched(f, from, to))
<1> DEFINE P == {SubSeq(p, Len(from) + 1, Len(p)) : p \in Below(TreeOf(pre), from)}
           below == InOrder(P)
           n == Len(below)
           r == CHOOSE x : RenamedUpTo(f, from, to, below, n, x)
<1>1. RenameUntouched(f, from, to) = r[n]
  BY DEF RenameUntouched, RenamedUpTo
<1>2. P \subseteq Seq(Nat) /\ IsFiniteSet(P)
  <2> DEFINE h == [p \in DOMAIN Tree1 |-> Rest(p, from)]
  <2>1. \A q \in P : \E p \in DOMAIN Tree1 : q = h[p]
    BY DEF Rest, Below, Tree1
  <2>2. \A p \in DOMAIN Tree1 : h[p] \in Seq(Nat)
    BY RestIsPath, SnapshotTrees DEF Somewhere
  <2>3. IsFiniteSet(DOMAIN Tree1)
    BY CompareConstants, SnapshotTrees, FS_Subset DEF Tree
  <2> HIDE DEF h, P
  <2>4. IsFiniteSet(P)
    BY <2>1, <2>3, ImageFinite
  <2> QED BY <2>1, <2>2, <2>4
<1> HIDE DEF P
<1>3. below \in Seq(P)
  BY <1>2, InOrderEnumerates
<1>4. n \in Nat /\ \A i \in 1..n : below[i] \in Seq(Nat)
  BY <1>2, <1>3, LenProperties, ElementOfSeq
<1> HIDE DEF below, n
<1>5. RenamedUpTo(f, from, to, below, n, r)
  BY <1>4, RenamedThere
<1> HIDE DEF r
<1>6. \A i \in 0..n : r[i] = RenamedAt(f, from, to, below, r, i)
  BY <1>4, <1>5, RenamedMeans
<1>7. ASSUME NEW g, NamesOK(DOMAIN g), NEW rest \in Seq(Nat)
      PROVE  NamesOK(DOMAIN RenamedOnce(g, from, to, rest))
  <2>1. from \o rest \in Somewhere /\ to \o rest \in Somewhere
    BY <1>7, InFront
  <2>2. NamesOK(DOMAIN Deleted(g, from \o rest))
    BY <1>7, <2>1, DeletedNames
  <2> DEFINE d == Deleted(g, from \o rest)
             q == to \o rest
  <2> HIDE DEF d, q
  <2>3. NamesOK(DOMAIN Created(d, q))
    BY <2>1, <2>2, CreatedNames DEF d, q
  <2> QED BY <2>3 DEF d, q, RenamedOnce
<1> DEFINE Bad == {i \in 0..n : ~NamesOK(DOMAIN r[i])}
<1>8. Bad = {}
  <2> SUFFICES ASSUME Bad # {} PROVE FALSE
    OBVIOUS
  <2>1. PICK i \in Bad : \A j \in Bad : i <= j
    <3>1. Bad \in SUBSET Nat
      BY <1>4
    <3> HIDE DEF Bad
    <3> QED BY <3>1, LeastNumber
  <2>2. i \in 0..n /\ ~NamesOK(DOMAIN r[i])
    BY <2>1
  <2>3. CASE i = 0
    <3>1. r[i] = RenamedOnce(f, from, to, <<>>)
      BY <1>6, <2>2, <2>3 DEF RenamedAt
    <3> QED BY <1>7, <2>2, <3>1, EmptySeq
  <2>4. CASE i # 0
    <3>1. i - 1 \in 0..n /\ i - 1 \notin Bad
      <4> HIDE DEF Bad
      <4> QED BY <1>4, <2>1, <2>2, <2>4
    <3>2. r[i] = RenamedOnce(r[i - 1], from, to, below[i]) /\ below[i] \in Seq(Nat)
      BY <1>4, <1>6, <2>2, <2>4 DEF RenamedAt
    <3>3. NamesOK(DOMAIN r[i - 1])
      BY <3>1
    <3> QED BY <1>7, <2>2, <3>2, <3>3
  <2> QED BY <2>3, <2>4
<1> QED BY <1>1, <1>4, <1>8

LEMMA ProcessRenameNames ==
  ASSUME Snapshots, NEW f, NamesOK(DOMAIN f), NEW from \in Somewhere, NEW to \in Somewhere
  PROVE  NamesOK(DOMAIN ProcessRename(f, from, to))
<1>1. CASE from \notin DOMAIN f
  BY <1>1, RenameUntouchedNames DEF ProcessRename
<1>2. CASE from \in DOMAIN f /\ to \notin DOMAIN f
  BY <1>2, RenameNodeNames DEF ProcessRename
<1>3. CASE from \in DOMAIN f /\ to \in DOMAIN f
  <2> DEFINE Q == {SubSeq(r, Len(from) + 1, Len(r)) : r \in Childs(f, from)}
             tmp == [q \in Q |-> f[from \o q]]
             bare == Restrict(f, DOMAIN f \ Childs(f, from))
             moved == Created(Deleted(bare, from), to)
  <2>1. ProcessRename(f, from, to) = Merge(moved, tmp, to)
    BY <1>3 DEF ProcessRename
  <2>2. DOMAIN tmp = Q
    OBVIOUS
  <2>3. NamesOK(Q)
    <3> DEFINE h == [r \in DOMAIN f |-> Rest(r, from)]
    <3>1. \A q \in Q : \E r \in DOMAIN f : IsStrictPrefix(from, r) /\ q = h[r]
      BY DEF Rest, Childs
    <3>2. ASSUME NEW r \in DOMAIN f, IsStrictPrefix(from, r)
          PROVE  h[r] \in Somewhere
      <4>1. r \in Seq(Nat) /\ from \in Seq(Nat)
        BY DEF NamesOK, Somewhere
      <4> QED BY <3>2, <4>1, RestIsPath
    <3> HIDE DEF h, Q
    <3>3. IsFiniteSet(Q)
      BY <3>1, ImageFinite DEF NamesOK
    <3> QED BY <3>1, <3>2, <3>3 DEF NamesOK
  <2>4. DOMAIN bare = DOMAIN f \ Childs(f, from)
    BY DEF Restrict
  <2> HIDE DEF Q, tmp, bare
  <2>5. NamesOK(DOMAIN bare)
    <3>1. DOMAIN bare \in SUBSET (DOMAIN f \cup DOMAIN f)
      BY <2>4
    <3> QED BY <3>1, NamesTogether
  <2> DEFINE d == Deleted(bare, from)
  <2>6. NamesOK(DOMAIN d)
    BY <2>5, DeletedNames
  <2>7. moved = Created(d, to)
    OBVIOUS
  <2> HIDE DEF d, moved
  <2>8. NamesOK(DOMAIN moved)
    BY <2>6, <2>7, CreatedNames
  <2> QED BY <2>1, <2>2, <2>3, <2>8, MergeNames
<1> QED BY <1>1, <1>2, <1>3

-----------------------------------------------------------------------------
(* The commands of the kernel                                              *)

Following == Forest(cur) /\ NamesOK(DOMAIN files)

LEMMA SnapshotForests ==
  ASSUME Same
  PROVE  /\ IsForest(pre) /\ IsForest(post)
         /\ DOMAIN post \subseteq Ino /\ \A i \in DOMAIN post : post[i].name \in Nat
<1>1. PICK pair \in Pairs : pre = pair.pre /\ post = pair.post
  BY DEF Same
<1>2. IsForest(pair.pre) /\ IsForest(pair.post)
  BY UndoConstants
<1>3. IsForest(pre) /\ IsForest(post)
  BY <1>1, <1>2
<1> QED BY <1>3, IsForestMeans DEF Forest

LEMMA InitFollowing == Init => Following
<1> SUFFICES ASSUME Init PROVE Following
  OBVIOUS
<1>1. Same
  BY DEF Init, Same
<1>2. cur = pre /\ files = [p \in {} |-> {}]
  BY DEF Init
<1>3. NamesOK(DOMAIN files)
  BY <1>2, FS_EmptySet DEF NamesOK
<1> QED BY <1>1, <1>2, <1>3, SnapshotForests, IsForestMeans DEF Following

LEMMA TempNameIsName == \A i \in Ino : TempName(i) \in Nat /\ <<TempName(i)>> \in Somewhere
<1> TAKE i \in Ino
<1>1. TempName(i) \in Nat
  BY SendStreamConstants DEF TempName
<1>2. <<TempName(i)>> \in Seq(Nat) /\ Len(<<TempName(i)>>) = 1
  BY <1>1
<1> QED BY <1>1, <1>2, EmptySeq DEF Somewhere

(* What a file is moved to, and the names before and after                 *)
LEMMA MovedNames ==
  ASSUME Forest(cur), NEW i \in DOMAIN cur, NEW up \in DOMAIN cur \cup {0},
         up # 0 => ~IsPrefix(PathOf(cur, i), PathOf(cur, up)),
         NEW name \in Nat, Put(i, up, name)
  PROVE  Forest(cur') /\ PathOf(cur, i) \in Somewhere /\ PathOf(cur', i) \in Somewhere
<1> DEFINE s == cur'
<1>1. s = [cur EXCEPT ![i].up = up, ![i].name = name]
  BY DEF Put
<1>2. DOMAIN s = DOMAIN cur /\ \A j \in DOMAIN cur : j # i => s[j] = cur[j]
  BY <1>1
<1>3. s[i].up = up /\ s[i].name = name /\ {"up", "name"} \subseteq DOMAIN s[i]
  BY <1>1 DEF Forest
<1> HIDE DEF s
<1>4. Forest(s)
  BY <1>2, <1>3, ForestMoved
<1>5. PathOf(s, i) \in Somewhere /\ PathOf(cur, i) \in Somewhere
  BY <1>2, <1>4, NamesInForest
<1> QED BY <1>4, <1>5 DEF s

LEMMA RenamedNames ==
  ASSUME Snapshots, NamesOK(DOMAIN files), NEW i, Renamed(i),
         PathOf(cur, i) \in Somewhere, PathOf(cur', i) \in Somewhere
  PROVE  NamesOK(DOMAIN files')
<1>1. files' = ProcessRename(files, PathOf(cur, i), PathOf(cur', i))
  BY DEF Renamed
<1> DEFINE from == PathOf(cur, i)
           to == PathOf(cur', i)
<1> HIDE DEF from, to
<1>2. NamesOK(DOMAIN ProcessRename(files, from, to))
  BY ProcessRenameNames DEF from, to
<1> QED BY <1>1, <1>2 DEF from, to

LEMMA MakeFollowed ==
  ASSUME Same, Following, NEW i \in Ino, Make(i)
  PROVE  Forest(cur') /\ NamesOK(DOMAIN files')
<1> DEFINE x == [up |-> 0, name |-> TempName(i), node |-> Bare(post[i].node)]
           s == cur'
<1>1. /\ i \in Ino /\ i \notin DOMAIN cur
      /\ s = [j \in DOMAIN cur \cup {i} |-> IF j = i THEN x ELSE cur[j]]
      /\ files' = files \/ files' = Created(files, <<TempName(i)>>)
  BY DEF Make
<1>2. x.up = 0 /\ x.name \in Nat /\ {"up", "name"} \subseteq DOMAIN x
  BY TempNameIsName
<1> HIDE DEF x, s
<1>3. Forest(s)
  BY <1>1, <1>2, ForestWith DEF Following
<1>4. NamesOK(DOMAIN files')
  BY <1>1, TempNameIsName, CreatedNames DEF Following
<1> QED BY <1>3, <1>4 DEF s

LEMMA EvictFollowed ==
  ASSUME Same, Following, NEW i \in Ino, Evict(i)
  PROVE  Forest(cur') /\ NamesOK(DOMAIN files')
<1>1. i \in DOMAIN cur /\ Put(i, 0, TempName(i)) /\ Renamed(i)
  BY DEF Evict
<1>2. TempName(i) \in Nat
  BY TempNameIsName
<1>3. Forest(cur') /\ PathOf(cur, i) \in Somewhere /\ PathOf(cur', i) \in Somewhere
  BY <1>1, <1>2, MovedNames DEF Following
<1>4. NamesOK(DOMAIN files')
  BY <1>1, <1>3, SameSnapshots, RenamedNames DEF Following
<1> QED BY <1>3, <1>4

LEMMA CanPlaceMeans ==
  ASSUME Same, Forest(cur), NEW i \in Ino, CanPlace(i), Put(i, post[i].up, post[i].name)
  PROVE  Forest(cur') /\ PathOf(cur, i) \in Somewhere /\ PathOf(cur', i) \in Somewhere
<1>1. /\ i \in DOMAIN post \cap DOMAIN cur /\ post[i].up \in DOMAIN cur \cup {0}
      /\ ~IsPrefix(PathOf(cur, i), PathOf(cur, post[i].up))
  BY DEF CanPlace
<1>2. post[i].name \in Nat
  BY <1>1, SnapshotForests
<1> QED BY <1>1, <1>2, MovedNames

LEMMA LinkFollowed ==
  ASSUME Same, Following, NEW i \in Ino, Link(i)
  PROVE  Forest(cur') /\ NamesOK(DOMAIN files')
<1>1. /\ CanPlace(i) /\ Put(i, post[i].up, post[i].name)
      /\ files' = Deleted(Created(files, PathOf(cur', i)), PathOf(cur, i))
  BY DEF Link
<1>2. Forest(cur') /\ PathOf(cur, i) \in Somewhere /\ PathOf(cur', i) \in Somewhere
  BY <1>1, CanPlaceMeans DEF Following
<1> DEFINE from == PathOf(cur, i)
           to == PathOf(cur', i)
           c == Created(files, to)
<1> HIDE DEF from, to
<1>3. NamesOK(DOMAIN c)
  BY <1>2, CreatedNames DEF to, Following
<1> HIDE DEF c
<1>4. NamesOK(DOMAIN Deleted(c, from))
  BY <1>2, <1>3, DeletedNames DEF from
<1> QED BY <1>1, <1>2, <1>4 DEF from, to, c

LEMMA DeleteFollowed ==
  ASSUME Same, Following, NEW i \in Ino, Delete(i)
  PROVE  Forest(cur') /\ NamesOK(DOMAIN files')
<1> DEFINE s == cur'
           p == PathOf(cur, i)
<1>1. /\ i \in DOMAIN cur /\ \A j \in DOMAIN cur : cur[j].up # i
      /\ s = Restrict(cur, DOMAIN cur \ {i})
      /\ files' = Deleted(files, p)
  BY DEF Delete, Empty
<1>2. p \in Somewhere
  BY <1>1, NamesInForest DEF Following
<1> HIDE DEF s, p
<1>3. Forest(s)
  BY <1>1, ForestWithout DEF Following
<1>4. NamesOK(DOMAIN files')
  BY <1>1, <1>2, DeletedNames DEF Following
<1> QED BY <1>3, <1>4 DEF s

LEMMA ChangeFollowed ==
  ASSUME Same, Following, NEW i \in Ino, Change(i)
  PROVE  Forest(cur') /\ NamesOK(DOMAIN files')
<1> DEFINE s == cur'
           p == PathOf(cur, i)
           status == CmpFiles(cur[i].node, post[i].node)
<1>1. i \in DOMAIN cur /\ s = [cur EXCEPT ![i].node = post[i].node] /\ files' = AddFlags(files, p, status)
  BY DEF Change
<1>2. p \in Somewhere
  BY <1>1, NamesInForest DEF Following
<1>3. DOMAIN s = DOMAIN cur /\ \A j \in DOMAIN cur : s[j].up = cur[j].up /\ s[j].name = cur[j].name
                               /\ {"up", "name"} \subseteq DOMAIN s[j]
  BY <1>1 DEF Following, Forest
<1> HIDE DEF s, p, status
<1>4. Forest(s)
  <2>1. PICK bound \in Nat : \E depth \in [DOMAIN cur -> 0..bound] : Deep(cur, depth, bound)
    BY DEF Following, Forest
  <2>2. PICK depth \in [DOMAIN cur -> 0..bound] : Deep(cur, depth, bound)
    BY <2>1
  <2>3. depth \in [DOMAIN s -> 0..bound] /\ Deep(s, depth, bound)
    BY <1>3, <2>2 DEF Deep
  <2> QED BY <1>3, <2>3 DEF Following, Forest
<1>5. NamesOK(DOMAIN files')
  BY <1>1, <1>2, AddFlagsNames DEF Following
<1> QED BY <1>4, <1>5 DEF s

LEMMA CommandFollowed ==
  ASSUME Same, Following, Command
  PROVE  Following'
<1>1. PICK i \in Ino : Make(i) \/ Evict(i) \/ Place(i) \/ Link(i) \/ Delete(i) \/ Change(i)
  BY DEF Command
<1>2. CASE Place(i)
  <2>1. CanPlace(i) /\ Put(i, post[i].up, post[i].name) /\ Renamed(i)
    BY <1>2 DEF Place
  <2>2. Forest(cur') /\ PathOf(cur, i) \in Somewhere /\ PathOf(cur', i) \in Somewhere
    BY <2>1, CanPlaceMeans DEF Following
  <2>3. NamesOK(DOMAIN files')
    BY <2>1, <2>2, SameSnapshots, RenamedNames DEF Following
  <2> QED BY <2>2, <2>3 DEF Following, Forest, Deep, NamesOK
<1>3. Forest(cur') /\ NamesOK(DOMAIN files') => Following'
  BY DEF Following, Forest, Deep, NamesOK
<1> QED BY <1>1, <1>2, <1>3, MakeFollowed, EvictFollowed, LinkFollowed, DeleteFollowed, ChangeFollowed

-----------------------------------------------------------------------------
(* The list, and the system, at any time                                   *)

Sayings(l) == (\A e \in l : Says(e.name, e.status)) /\ (\A e, g \in l : e.name = g.name => e = g)
Underway ==
  /\ Same /\ SystemOK(system)
  /\ list # Unknown => Sayings(list) /\ IsFiniteSet(Names(list))
  /\ list = Unknown => steps = <<>>
  /\ steps \in Seq(Names(list))

LEMMA SnapshotIsSystem ==
  ASSUME Snapshots
  PROVE  SystemOK(Tree2)
<1>1. DOMAIN Tree2 \subseteq Somewhere
  BY SnapshotTrees DEF Somewhere
<1>2. \A q \in DOMAIN Tree2 : Tree2[q] \in SysNode /\ IsDir(Tree2, Front(q))
  BY SnapshotTrees, NodeIsSysNode DEF Tree, IsTree
<1> QED BY <1>1, <1>2 DEF SystemOK, Snapshots

LEMMA EntriesSay ==
  ASSUME Snapshots, NEW P \in SUBSET Differing(Tree1, Tree2), NEW l, l = Filtered(ListOf(Tree1, Tree2, P))
  PROVE  Sayings(l) /\ IsFiniteSet(Names(l))
<1>1. ASSUME NEW e \in l
      PROVE  e.name \in P /\ e = Entry(Tree1, Tree2, e.name) /\ Says(e.name, e.status)
  <2>1. PICK p \in P : e = Entry(Tree1, Tree2, p)
    BY DEF Filtered, ListOf
  <2>2. e.name = p /\ e.status = Status(Tree1, Tree2, p)
    BY <2>1 DEF Entry
  <2>3. p \in DOMAIN Tree1 \cup DOMAIN Tree2 /\ Status(Tree1, Tree2, p) # {}
    BY DEF Differing
  <2> QED BY <2>1, <2>2, <2>3, StatusSays
<1>2. Names(l) \in SUBSET Changed
  BY <1>1 DEF Names, Changed
<1>3. IsFiniteSet(Names(l))
  BY <1>2, ChangedFinite, FS_Subset
<1> QED BY <1>1, <1>3 DEF Sayings

LEMMA ComparedSay ==
  ASSUME Snapshots
  PROVE  /\ LET l == Filtered(CmpDirs(Tree1, Tree2)) IN Sayings(l) /\ IsFiniteSet(Names(l))
         /\ Load(Save(CmpDirs(Tree2, Tree1), FALSE), TRUE) = CmpDirs(Tree1, Tree2)
<1> DEFINE P == {p \in Differing(Tree1, Tree2) : Reached(Tree1, Tree2, <<>>, p)}
<1>1. CmpDirs(Tree1, Tree2) = ListOf(Tree1, Tree2, P)
  BY SnapshotTrees, ComparisonIsExact
<1>2. P \in SUBSET Differing(Tree1, Tree2)
  OBVIOUS
<1>3. Load(Save(CmpDirs(Tree2, Tree1), FALSE), TRUE) = CmpDirs(Tree1, Tree2)
  BY SnapshotTrees, SavedListsReturn
<1> HIDE DEF P
<1> QED BY <1>1, <1>2, <1>3, EntriesSay

(* The list collected from the commands                                    *)
LEMMA ResultSays ==
  ASSUME Snapshots, NamesOK(DOMAIN files), NEW l, l = Filtered(BtrfsCmpDirs)
  PROVE  Sayings(l) /\ IsFiniteSet(Names(l))
<1>1. CASE thrown \/ CheckThrows
  <2>1. l = Filtered(CmpDirs(Tree1, Tree2))
    BY <1>1 DEF BtrfsCmpDirs
  <2> QED BY <2>1, ComparedSay
<1>2. CASE ~(thrown \/ CheckThrows)
  <2>1. l = Filtered(Result)
    BY <1>2 DEF BtrfsCmpDirs
  <2>2. ASSUME NEW e \in l
        PROVE  e = [name |-> e.name, status |-> Check(e.name)] /\ e.name \in DOMAIN files /\ e.status = Check(e.name)
               /\ Check(e.name) # {}
    BY <2>1 DEF Filtered, Result
  <2>3. ASSUME NEW p \in DOMAIN files, Check(p) # {}
        PROVE  Says(p, Check(p))
    <3>1. p \in Somewhere
      BY DEF NamesOK
    <3>2. p \in DOMAIN Tree1 => Tree1[p] \in SysNode
      BY SnapshotTrees, NodeIsSysNode
    <3> DEFINE status == Check(p)
    <3>3. ASSUME status \subseteq {"CREATED", "DELETED"}
          PROVE  Says(p, status)
      <4> HIDE DEF status
      <4>1. status # {}
        BY <2>3 DEF status
      <4> QED BY <3>1, <3>2, <3>3, <4>1 DEF Says
    <3>4. CASE p \notin Rechecked \/ p \notin DOMAIN Tree1 \/ p \notin DOMAIN Tree2
      BY <3>3, <3>4 DEF Check
    <3>5. CASE p \in Rechecked /\ p \in DOMAIN Tree1 /\ p \in DOMAIN Tree2
      <4>1. status = Status(Tree1, Tree2, p)
        BY <3>5 DEF Check, Status
      <4> QED BY <2>3, <3>5, <4>1, StatusSays
    <3> QED BY <3>4, <3>5
  <2>4. \A e \in l : Says(e.name, e.status)
    BY <2>2, <2>3
  <2>5. \A e, g \in l : e.name = g.name => e = g
    BY <2>2
  <2>6. Names(l) \in SUBSET DOMAIN files
    BY <2>2 DEF Names
  <2> QED BY <2>4, <2>5, <2>6, FS_Subset DEF Sayings, NamesOK
<1> QED BY <1>1, <1>2

LEMMA SayingsKnown == ASSUME NEW l, Sayings(l) PROVE l # Unknown
<1>1. \A e \in l : e.name # <<>>
  BY DEF Sayings, Says, Somewhere
<1>2. \E e \in Unknown : e.name = <<>>
  BY DEF Unknown
<1> QED BY <1>1, <1>2

LEMMA InitUnderway == Init => Underway
<1> SUFFICES ASSUME Init PROVE Underway
  OBVIOUS
<1>1. Same
  BY DEF Init, Same
<1>2. list = Unknown /\ steps = <<>> /\ system = Tree2
  BY DEF Init
<1> QED BY <1>1, <1>2, SameSnapshots, SnapshotIsSystem DEF Underway

(* What a step does                                                        *)
LEMMA UndoneFile ==
  ASSUME Underway, NEW fault, Undo(fault)
  PROVE  \E file \in list :
           /\ file.name = Head(steps) /\ Says(file.name, file.status)
           /\ \A e \in list : e.name = file.name => e = file
           /\ system' = DoUndo(system, file, fault).tree
           /\ answers' = [p \in DOMAIN answers \cup {file.name} |->
                            IF p = file.name THEN DoUndo(system, file, fault).end ELSE answers[p]]
           /\ steps' \in Seq(Names(list)) /\ UNCHANGED <<list, pre, post, method>>
<1> DEFINE file == CHOOSE e \in list : e.name = Head(steps)
           r == DoUndo(system, file, fault)
<1>1. steps # <<>> /\ list # Unknown /\ Sayings(list) /\ steps \in Seq(Names(list))
  BY DEF Undo, Underway
<1>2. Head(steps) \in Names(list) /\ Tail(steps) \in Seq(Names(list))
  BY <1>1, HeadTailProperties
<1>3. \E e \in list : e.name = Head(steps)
  BY <1>2 DEF Names
<1>4. file \in list /\ file.name = Head(steps)
  BY <1>3
<1>5. /\ system' = r.tree
      /\ answers' = [p \in DOMAIN answers \cup {file.name} |-> IF p = file.name THEN r.end ELSE answers[p]]
      /\ steps' = IF r.end = "blocked" THEN <<>> ELSE Tail(steps)
      /\ UNCHANGED <<list, pre, post, method>>
  BY DEF Undo, streamVars
<1> HIDE DEF file
<1>6. Says(file.name, file.status) /\ \A e \in list : e.name = file.name => e = file
  BY <1>1, <1>4 DEF Sayings
<1>7. steps' \in Seq(Names(list))
  <2>1. steps' \in {<<>>, Tail(steps)}
    BY <1>5
  <2>2. CASE steps' = <<>>
    BY <2>2
  <2>3. CASE steps' = Tail(steps)
    BY <1>2, <2>3
  <2> QED BY <2>1, <2>2, <2>3
<1> HIDE DEF r
<1> QED BY <1>4, <1>5, <1>6, <1>7 DEF r

LEMMA UnderwayStays ==
  ASSUME Underway, pre' = pre, post' = post, method' = method, UNCHANGED <<list, steps, system>>
  PROVE  Underway'
<1>1. Tree1' = Tree1 /\ Tree2' = Tree2 /\ Same' = Same
  BY TreesStay
<1>2. \A p, status : Says(p, status)' = Says(p, status)
  BY <1>1 DEF Says, OnlyOnce, WasLinkFirst, WasLink
<1>3. Sayings(list)' = Sayings(list)
  BY <1>2 DEF Sayings
<1> QED BY <1>1, <1>3 DEF Underway

LEMMA SayingsStay ==
  ASSUME pre' = pre, post' = post, method' = method, NEW l, NEW m, Sayings(l), m = l
  PROVE  Sayings(m)'
<1>1. Tree1' = Tree1 /\ Tree2' = Tree2
  BY TreesStay
<1>2. \A p, status : Says(p, status)' = Says(p, status)
  BY <1>1 DEF Says, OnlyOnce, WasLinkFirst, WasLink
<1> QED BY <1>2 DEF Sayings

LEMMA FollowingStep ==
  ASSUME Same, Following, [Next]_vars
  PROVE  Following'
<1>1. CASE Send
  BY <1>1, CommandFollowed DEF Send
<1>2. CASE ~Send
  <2>1. UNCHANGED streamVars
    <3>1. ASSUME NEW p \in Path, Edit(p) PROVE UNCHANGED streamVars
      BY <3>1 DEF Edit
    <3>2. ASSUME NEW fault \in Fault \cup {"none"}, Undo(fault) PROVE UNCHANGED streamVars
      BY <3>2 DEF Undo
    <3> QED BY <1>2, <3>1, <3>2 DEF Next, Compare, Choose, Finished, vars
  <2>2. cur' = cur /\ files' = files
    BY <2>1 DEF streamVars
  <2> QED BY <2>2 DEF Following, Forest, Deep, NamesOK
<1> QED BY <1>1, <1>2

LEMMA UnderwayStep ==
  ASSUME Underway, Following, [Next]_vars
  PROVE  Underway'
<1>1. pre' = pre /\ post' = post /\ method' = method
  BY SnapshotsStay
<1>2. Same' = Same
  BY <1>1, TreesStay
<1>3. Snapshots
  BY SameSnapshots DEF Underway
<1>4. CASE Send \/ Finished \/ UNCHANGED vars
  <2>1. UNCHANGED <<list, steps, system>>
    BY <1>4 DEF Send, Finished, vars, undoVars
  <2> QED BY <1>1, <2>1, UnderwayStays
<1>5. CASE Compare
  <2>1. /\ list = Unknown /\ UNCHANGED <<steps, system>>
        /\ list' = Filtered(CmpDirs(Tree1, Tree2))
             \/ list' = Filtered(Load(Save(CmpDirs(Tree2, Tree1), FALSE), TRUE))
             \/ list' = Filtered(BtrfsCmpDirs)
    BY <1>5 DEF Compare
  <2>2. Sayings(list') /\ IsFiniteSet(Names(list'))
    BY <1>3, <2>1, ComparedSay, ResultSays DEF Following
  <2>3. steps' = <<>> /\ list' # Unknown
    BY <2>1, <2>2, SayingsKnown DEF Underway
  <2>4. Sayings(list)' /\ IsFiniteSet(Names(list))'
    <3> DEFINE l == list'
    <3>1. Sayings(l)
      BY <2>2
    <3>2. Names(list)' = Names(list')
      BY DEF Names
    <3> QED BY <1>1, <2>2, <3>1, <3>2, SayingsStay
  <2>5. <<>> \in Seq(Names(list)')
    BY EmptySeq
  <2>6. Unknown' = Unknown
    BY DEF Unknown
  <2> QED BY <1>2, <2>1, <2>3, <2>4, <2>5, <2>6 DEF Underway
<1>6. CASE Choose
  <2>1. list # Unknown /\ UNCHANGED <<list, system>>
    BY <1>6 DEF Choose
  <2>2. PICK chosen \in SUBSET list : steps' = UndoSteps(chosen)
    BY <1>6 DEF Choose
  <2>3. Names(chosen) \in SUBSET Names(list) /\ Names(chosen) \subseteq Seq(Nat)
    BY <2>1 DEF Names, Underway, Sayings, Says, Somewhere
  <2>4. IsFiniteSet(Names(chosen))
    BY <2>1, <2>3, FS_Subset DEF Underway
  <2>5. steps' \in Seq(Names(list))
    <3>1. steps' \in Seq(Names(chosen))
      BY <2>2, <2>3, <2>4, UndoStepsComeInTurn
    <3> QED BY <2>3, <3>1, SeqMonotonic
  <2>6. Sayings(list)'
    BY <1>1, <2>1, SayingsStay DEF Underway
  <2>7. Names(list)' = Names(list) /\ Unknown' = Unknown
    BY <2>1 DEF Names, Unknown
  <2> QED BY <1>2, <2>1, <2>5, <2>6, <2>7 DEF Underway
<1>7. ASSUME NEW fault \in Fault \cup {"none"}, Undo(fault)
      PROVE  Underway'
  <2>1. list # Unknown
    BY <1>7 DEF Undo, Underway
  <2>2. PICK file \in list :
          /\ Says(file.name, file.status) /\ system' = DoUndo(system, file, fault).tree
          /\ steps' \in Seq(Names(list)) /\ list' = list
    BY <1>7, UndoneFile
  <2>3. SystemOK(system')
    BY <2>2, SystemUndone DEF Underway
  <2>4. SystemOK(system)'
    BY <2>3 DEF SystemOK
  <2>5. Sayings(list)'
    BY <1>1, <2>1, <2>2, SayingsStay DEF Underway
  <2>6. Names(list)' = Names(list) /\ Unknown' = Unknown
    BY <2>2 DEF Names, Unknown
  <2> QED BY <1>2, <2>1, <2>2, <2>4, <2>5, <2>6 DEF Underway
<1>8. ASSUME NEW p \in Path, Edit(p)
      PROVE  Underway'
  <2>1. UNCHANGED <<list, steps>> /\ p \in Somewhere
    BY <1>8, PathType DEF Edit, Somewhere
  <2>2. SystemOK(system')
    <3>1. CASE p \in DOMAIN system /\ Below(system, p) = {} /\ system' = Restrict(system, DOMAIN system \ {p})
      <4>1. system' = Without(system, p)
        BY <3>1 DEF Restrict, Without
      <4> QED BY <3>1, <4>1, SystemWithout DEF Underway
    <3>2. CASE /\ p \notin DOMAIN system /\ IsDir(system, Front(p))
               /\ \E node \in Edits : system' = PutFlags(system, p, node)
      <4>1. PICK node \in Edits : system' = PutFlags(system, p, node)
        BY <3>2
      <4>2. node \in SysNode
        BY UndoConstants, NodeIsSysNode
      <4>3. ~IsDir(system, p)
        BY <2>1, <3>2 DEF IsDir, Somewhere
      <4> QED BY <2>1, <3>2, <4>1, <4>2, <4>3, SystemPut DEF Underway
    <3> QED BY <1>8, <3>1, <3>2 DEF Edit
  <2>3. SystemOK(system)'
    BY <2>2 DEF SystemOK
  <2>4. list # Unknown => Sayings(list)'
    BY <1>1, <2>1, SayingsStay DEF Underway
  <2>5. Names(list)' = Names(list) /\ Unknown' = Unknown
    BY <2>1 DEF Names, Unknown
  <2> QED BY <1>2, <2>1, <2>3, <2>4, <2>5 DEF Underway
<1> QED BY <1>4, <1>5, <1>6, <1>7, <1>8 DEF Next

(* Only a step of an undo gives an answer.                                 *)
LEMMA OnlyUndoAnswers ==
  ASSUME [Next]_vars, DOMAIN answers' \ DOMAIN answers # {}
  PROVE  \E fault \in Fault \cup {"none"} : Undo(fault)
<1> SUFFICES ASSUME ~\E fault \in Fault \cup {"none"} : Undo(fault) PROVE answers' = answers
  OBVIOUS
<1>1. ASSUME NEW p \in Path, Edit(p) PROVE answers' = answers
  BY <1>1 DEF Edit
<1> QED BY <1>1 DEF Next, Send, Compare, Choose, Finished, vars, undoVars

LEMMA AnsweredStep ==
  ASSUME Underway, [Next]_vars, NEW p \in DOMAIN answers' \ DOMAIN answers
  PROVE  \E fault \in Fault \cup {"none"} : \E file \in list :
           /\ file.name = p /\ Says(p, file.status)
           /\ \A e \in list : e.name = p => e = file
           /\ system' = DoUndo(system, file, fault).tree
           /\ answers'[p] = DoUndo(system, file, fault).end
           /\ UNCHANGED <<list, pre, post, method>>
<1>1. PICK fault \in Fault \cup {"none"} : Undo(fault)
  BY OnlyUndoAnswers
<1>2. PICK file \in list :
        /\ Says(file.name, file.status)
        /\ \A e \in list : e.name = file.name => e = file
        /\ system' = DoUndo(system, file, fault).tree
        /\ answers' = [q \in DOMAIN answers \cup {file.name} |->
                         IF q = file.name THEN DoUndo(system, file, fault).end ELSE answers[q]]
        /\ UNCHANGED <<list, pre, post, method>>
  BY <1>1, UndoneFile
<1> DEFINE r == DoUndo(system, file, fault)
<1>3. answers' = [q \in DOMAIN answers \cup {file.name} |-> IF q = file.name THEN r.end ELSE answers[q]]
  BY <1>2
<1> HIDE DEF r
<1>4. file.name = p /\ answers'[p] = r.end
  BY <1>3
<1> QED BY <1>2, <1>4 DEF r

LEMMA OkStep ==
  ASSUME Underway, [Next]_vars, NEW file \in list,
         file.name \in DOMAIN answers' \ DOMAIN answers, answers'[file.name] = "ok",
         Unbent(system, file.name),
         \/ Target(system, file.name) = Real(system, file.name)
         \/ file.status \cap {"CREATED", "TYPE", "CONTENT"} # {}
  PROVE  Restored(file)'
<1> DEFINE p == file.name
<1>1. PICK fault \in Fault \cup {"none"} :
        /\ Says(p, file.status)
        /\ system' = DoUndo(system, file, fault).tree
        /\ answers'[p] = DoUndo(system, file, fault).end
        /\ UNCHANGED <<list, pre, post, method>>
  BY AnsweredStep
<1> DEFINE r == DoUndo(system, file, fault)
           f == Real(system, p)
<1>2. /\ KeptBut(system, r.tree, p, StepFiles(system, r.tree, p))
      /\ AsAtFirst(r.tree, f, p, file.status)
  BY <1>1, StepKeeps DEF Underway
<1>3. system' = r.tree
  BY <1>1
<1> HIDE DEF r
<1>4. Real(system', p) = f
  <2>1. p \in Somewhere
    BY <1>1 DEF Says
  <2> DEFINE s == system'
             X == StepFiles(system, r.tree, p)
  <2>2. KeptBut(system, s, p, X)
    BY <1>2, <1>3
  <2> HIDE DEF s, X
  <2>3. Real(s, p) = Real(system, p)
    BY <2>1, <2>2, WhereItLeads
  <2> QED BY <2>3 DEF s
<1>5. Tree1' = Tree1
  BY <1>1, TreesStay
<1>6. Real(system, p)' = Real(system', p)
  BY DEF Real, Follow
<1> HIDE DEF p, f
<1> QED BY <1>2, <1>3, <1>4, <1>5, <1>6 DEF Restored, AsAtFirst, p, Alike

LEMMA OthersStep ==
  ASSUME Underway, [Next]_vars, NEW p \in DOMAIN answers' \ DOMAIN answers, Unbent(system, p)
  PROVE  LET own == StepFiles(system, system', p)
         IN  /\ \A q \in DOMAIN system \ own : q \in DOMAIN system' /\ system'[q] = system[q]
             /\ \A q \in DOMAIN system' \ DOMAIN system : \E r \in own : IsPrefix(q, r)
<1>1. PICK fault \in Fault \cup {"none"} : \E file \in list :
        /\ file.name = p /\ Says(p, file.status)
        /\ system' = DoUndo(system, file, fault).tree
  BY AnsweredStep
<1>2. PICK file \in list :
        /\ file.name = p /\ Says(p, file.status)
        /\ system' = DoUndo(system, file, fault).tree
  BY <1>1
<1> DEFINE own == StepFiles(system, system', p)
<1>3. KeptBut(system, system', p, own)
  BY <1>2, StepKeeps DEF Underway
<1>4. Real(system, p) \in own
  BY DEF StepFiles
<1> HIDE DEF own
<1>5. \A q \in DOMAIN system \ own : q \in DOMAIN system' /\ system'[q] = system[q]
  BY <1>3 DEF KeptBut
<1>6. \A q \in DOMAIN system' \ DOMAIN system : \E r \in own : IsPrefix(q, r)
  <2>1. \A q \in DOMAIN system' : IsPrefix(q, q)
    BY <1>3, PrefixOrder DEF KeptBut, SystemOK, Somewhere
  <2> QED BY <1>3, <1>4, <2>1 DEF KeptBut
<1> QED BY <1>5, <1>6 DEF own

(* When File::doUndo says of a file that it was undone, it is as it was in *)
(* the first snapshot: for all snapshots, systems and edits,     *)
(* wherever links lead, and whatever calls have failed.                    *)
THEOREM UndoneIsRestored == Spec => OkMeansRestored
<1>1. Underway /\ Following /\ [Next]_vars => Following'
  BY FollowingStep DEF Underway
<1>2. Underway /\ Following /\ [Next]_vars => Underway'
  BY UnderwayStep
<1>3. Underway /\ [Next]_vars =>
        [\A file \in list :
           /\ file.name \in DOMAIN answers' \ DOMAIN answers /\ answers'[file.name] = "ok"
           /\ Unbent(system, file.name)
           /\ \/ Target(system, file.name) = Real(system, file.name)
              \/ file.status \cap {"CREATED", "TYPE", "CONTENT"} # {}
           => Restored(file)']_vars
  BY OkStep
<1> QED BY <1>1, <1>2, <1>3, InitUnderway, InitFollowing, PTL DEF Spec, OkMeansRestored

(* The calls that createAllTypes, deleteAllTypes and modifyAllTypes make   *)
(* change no other file than their own, whatever is in the system.         *)
THEOREM OthersStayInStep == Spec => StepKeepsOthers
<1>1. Underway /\ Following /\ [Next]_vars => Following'
  BY FollowingStep DEF Underway
<1>2. Underway /\ Following /\ [Next]_vars => Underway'
  BY UnderwayStep
<1>3. Underway /\ [Next]_vars =>
        [\A p \in DOMAIN answers' \ DOMAIN answers :
           LET own == {Real(system, p)} \cup {q \in {Target(system', p)} : WasLink(p) \/ Target(system, p) = q}
           IN  Unbent(system, p) =>
                 /\ \A q \in DOMAIN system \ own : q \in DOMAIN system' /\ system'[q] = system[q]
                 /\ \A q \in DOMAIN system' \ DOMAIN system : \E r \in own : IsPrefix(q, r)]_vars
  BY OthersStep DEF StepFiles
<1> QED BY <1>1, <1>2, <1>3, InitUnderway, InitFollowing, PTL DEF Spec, StepKeepsOthers

=============================================================================
