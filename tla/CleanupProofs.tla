--------------------------- MODULE CleanupProofs ---------------------------
(***************************************************************************)
(* What `snapper cleanup' deletes, proved for any list of snapshots, any   *)
(* limits and whatever the other clients do: the walk of the timeline      *)
(* algorithm first, then the filters, then the process and the daemon.     *)
(***************************************************************************)
EXTENDS Cleanup, Counting

-----------------------------------------------------------------------------
(* The inductive invariant                                                 *)

(* Numbers are unique, newer snapshots have higher ones, and a pre         *)
(* snapshot has one post snapshot.                                         *)
Unique(S) == \A s, t \in S : s.num = t.num => s = t
Ordered(S) == \A s, t \in S : s.num < t.num => s.date <= t.date
OnePost(S) == \A s, t \in S : s.type = "post" /\ t.type = "post" /\ s.pre_num = t.pre_num => s = t
Listing(S) == S \subseteq Snapshot /\ Unique(S) /\ Ordered(S) /\ OnePost(S)

(* The two halves of a pair go together.                                   *)
Closed(S, T) == \A s \in T : Partner(S, s) \subseteq T

Gone == seen \ snaps

Lists ==
  /\ Listing(snaps) /\ Listing(seen)
  /\ \A s \in snaps : s.date <= now

(* Where the process is                                                    *)
Places ==
  /\ pc = "idle" => seen = {} /\ uses = 0
  /\ pc # "compare" => pairs = {}
  /\ pc \in {"idle", "ended"} => tmp = {}
  /\ result # "none" => pc = "ended"
  /\ pc = "compare" => algo = "empty-pre-post"
  /\ uses + Cardinality(pairs) <= Cardinality(Num)

(* What nobody else has deleted is still there, or the run has deleted it. *)
Mine ==
  quiet =>
    /\ tmp \subseteq snaps
    /\ pc = "compare" => Gone = {}
    /\ pc \in {"delete", "ended"} /\ algo # "empty-pre-post" =>
         Gone \cup tmp \subseteq Plan(algo, seen, at)

(* A run that is not refused deletes all of its plan.  (Snapshots younger  *)
(* than MinAge are never deleted, so no later one is equal to them.)       *)
Whole ==
  quiet /\ pc \in {"delete", "ended"} =>
    /\ \A s \in Gone \cup tmp : s.date < at
    /\ result # "failed" => Closed(seen, Gone \cup tmp)
    /\ result # "failed" /\ algo # "empty-pre-post" => Plan(algo, seen, at) \subseteq Gone \cup tmp

Aged == MinAge > 0

CleanupInv == TypeOK /\ Lists /\ Places /\ Mine

-----------------------------------------------------------------------------
(* The walk of do_cleanup_timeline exists.                                 *)

Entry(S, k) == CHOOSE s \in S : s.num = k
Begin == [kept |-> [u \in 1..4 |-> 0], tmp |-> {}]
Loop(S, f, k) == IF k = Last THEN Begin
                 ELSE IF k + 1 \in Numbers(S) THEN Advance(S, f[k + 1], Entry(S, k + 1))
                 ELSE f[k + 1]
Walk(S, n, f) == f = [k \in n..Last |-> Loop(S, f, k)]

LEMMA LastType == Last \in Nat /\ \A k \in Num : k \in 1..Last
<1> DEFINE N == Num \cup {0}
<1>1. IsFiniteSet(N)
  BY CleanupConstants, FS_AddElement
<1>2. N \in SUBSET Nat /\ N # {} /\ \A k \in Num : k \in N /\ k \in Nat /\ k >= 1
  <2>1. \A k \in Num : k \in Nat \ {0}
    BY CleanupConstants
  <2>2. \A k \in Num : k >= 1
    BY <2>1
  <2> QED BY <2>1, <2>2
<1> HIDE DEF N
<1>3. Max(N) \in N /\ \A y \in N : Max(N) >= y
  BY <1>1, <1>2, MaxIsGreatest
<1>4. Last = Max(N)
  BY DEF Last, N
<1>5. Last \in Nat /\ \A k \in Num : Last >= k
  BY <1>2, <1>3, <1>4
<1> QED BY <1>2, <1>5

LEMMA SnapshotType ==
  ASSUME NEW s \in Snapshot
  PROVE  s.num \in Num /\ s.num \in 1..Last /\ s.num \in Nat /\ s.date \in Nat
<1>1. s.num \in Num /\ s.date \in 0..MaxTime /\ MaxTime \in Nat
  BY CleanupConstants DEF Snapshot
<1> QED BY <1>1, LastType

LEMMA WalkExists ==
  ASSUME NEW S
  PROVE  \E f : Walk(S, 0, f) /\ Scan(S) = f[0].tmp
<1> DEFINE G == {n \in 0..Last : \E f : Walk(S, n, f)}
<1>1. Last \in G
  <2> DEFINE f == [k \in Last..Last |-> Begin]
  <2>1. f = [k \in Last..Last |-> Loop(S, f, k)]
    BY LastType DEF Loop
  <2> QED BY <2>1, LastType DEF Walk
<1>2. ASSUME NEW n \in 0..Last - 1, n + 1 \in G
      PROVE  n \in G
  <2>1. PICK f : Walk(S, n + 1, f)
    BY <1>2
  <2> DEFINE g == [k \in n..Last |-> IF k = n THEN Loop(S, f, n) ELSE f[k]]
  <2>2. \A k \in n + 1..Last : g[k] = f[k]
    BY LastType
  <2>3. \A k \in n..Last : Loop(S, g, k) = Loop(S, f, k)
    <3> TAKE k \in n..Last
    <3>1. k # Last => g[k + 1] = f[k + 1]
      BY <2>2, LastType
    <3> HIDE DEF g
    <3> QED BY <3>1 DEF Loop
  <2>4. \A k \in n + 1..Last : f[k] = Loop(S, f, k)
    BY <2>1 DEF Walk
  <2>5. \A k \in n..Last : g[k] = Loop(S, g, k)
    BY <2>3, <2>4, LastType
  <2>6. Walk(S, n, g)
    BY <2>5 DEF Walk
  <2> QED BY <2>6, LastType
<1>3. 0 \in G
  <2> HIDE DEF G
  <2>1. \A k \in 0..Last : k \in G
    BY <1>1, <1>2, LastType, Downward
  <2> QED BY <2>1, LastType
<1>4. PICK f : f = (CHOOSE g : Walk(S, 0, g)) /\ Walk(S, 0, f)
  BY <1>3
<1>5. Scan(S) = f[0].tmp
  BY <1>4 DEF Scan, Walk, Loop, Begin, Entry
<1> QED BY <1>4, <1>5

(* One turn of the loop                                                    *)
Overdue(S, kept, s) == \A u \in 1..4 : ~(kept[u] < UnitLimit[u] /\ IsFirst(S, s, u))
States(S) == [kept : [1..4 -> Nat], tmp : SUBSET S]

LEMMA AdvanceDoes ==
  ASSUME NEW S, NEW b \in States(S), NEW s \in S, NEW a, a = Advance(S, b, s)
  PROVE  /\ a \in States(S)
         /\ \/ Overdue(S, b.kept, s) /\ a.tmp = b.tmp \cup {s} /\ a.kept = b.kept
            \/ /\ ~Overdue(S, b.kept, s) /\ a.tmp = b.tmp
               /\ \E u \in 1..4 : /\ b.kept[u] < UnitLimit[u] /\ IsFirst(S, s, u)
                                  /\ a.kept = [b.kept EXCEPT ![u] = b.kept[u] + 1]
<1> DEFINE units == {u \in 1..4 : b.kept[u] < UnitLimit[u] /\ IsFirst(S, s, u)}
<1>1. a = IF units = {} THEN [b EXCEPT !.tmp = @ \cup {s}]
                        ELSE [b EXCEPT !.kept[Min(units)] = @ + 1]
  BY DEF Advance
<1>2. CASE units = {}
  <2>1. Overdue(S, b.kept, s)
    BY <1>2 DEF Overdue
  <2> HIDE DEF units
  <2> QED BY <1>1, <1>2, <2>1 DEF States
<1>3. CASE units # {}
  <2>1. ~Overdue(S, b.kept, s)
    BY <1>3 DEF Overdue
  <2>2. units \in SUBSET Nat
    OBVIOUS
  <2>3. Min(units) \in units
    <3> HIDE DEF units
    <3> QED BY <1>3, <2>2, MinIsLeast
  <2>4. PICK u \in 1..4 : u = Min(units) /\ b.kept[u] < UnitLimit[u] /\ IsFirst(S, s, u)
    BY <2>3
  <2> HIDE DEF units
  <2>5. a = [b EXCEPT !.kept[u] = @ + 1]
    BY <1>1, <1>3, <2>4
  <2>6. a \in States(S) /\ a.tmp = b.tmp /\ a.kept = [b.kept EXCEPT ![u] = b.kept[u] + 1]
    BY <2>5 DEF States
  <2> QED BY <2>1, <2>4, <2>6
<1> QED BY <1>2, <1>3

(* Entry k + 1, if there is one                                            *)
LEMMA EntryIs ==
  ASSUME NEW S, Unique(S), NEW s \in S
  PROVE  Entry(S, s.num) = s
BY DEF Entry, Unique

(* All states of the walk                                                  *)
LEMMA WalkStates ==
  ASSUME NEW S \in SUBSET Snapshot, Unique(S), NEW f, Walk(S, 0, f)
  PROVE  \A k \in 0..Last :
           /\ f[k] \in States(S)
           /\ f[k].tmp = {t \in S : t.num > k /\ Overdue(S, f[t.num].kept, t)}
           /\ \A u \in 1..4 : f[k].kept[u] <= UnitLimit[u]
<1> DEFINE Good(k) == /\ f[k] \in States(S)
                      /\ f[k].tmp = {t \in S : t.num > k /\ Overdue(S, f[t.num].kept, t)}
                      /\ \A u \in 1..4 : f[k].kept[u] <= UnitLimit[u]
<1>1. \A t \in S : t.num \in Num /\ t.num \in 1..Last
  BY LastType DEF Snapshot
<1>2. \A k \in 0..Last : f[k] = Loop(S, f, k)
  BY DEF Walk
<1>3. Good(Last)
  <2>1. f[Last] = Begin
    BY <1>2, LastType DEF Loop
  <2>2. \A t \in S : ~(t.num > Last)
    BY <1>1, LastType
  <2>3. \A u \in 1..4 : UnitLimit[u] \in Nat
    BY CleanupConstants
  <2> QED BY <2>1, <2>2, <2>3 DEF Begin, States
<1>4. ASSUME NEW k \in 0..Last - 1, Good(k + 1)
      PROVE  Good(k)
  <2>1. k \in 0..Last /\ k # Last /\ k \in Nat /\ k + 1 \in 0..Last
    BY LastType
  <2>2. CASE k + 1 \notin Numbers(S)
    <3>1. f[k] = f[k + 1]
      BY <1>2, <2>1, <2>2 DEF Loop
    <3>2. \A t \in S : t.num > k <=> t.num > k + 1
      BY <1>1, <2>1, <2>2 DEF Numbers
    <3> QED BY <1>4, <3>1, <3>2
  <2>3. CASE k + 1 \in Numbers(S)
    <3>1. PICK s \in S : s.num = k + 1
      BY <2>3 DEF Numbers
    <3>2. f[k] = Advance(S, f[k + 1], s)
      BY <1>2, <2>1, <2>3, <3>1, EntryIs DEF Loop
    <3>3. \A t \in S : t.num > k <=> t.num > k + 1 \/ t = s
      BY <1>1, <2>1, <3>1 DEF Unique
    <3> DEFINE b == f[k + 1]
               a == f[k]
    <3>4. b \in States(S) /\ \A u \in 1..4 : b.kept[u] <= UnitLimit[u] /\ UnitLimit[u] \in Nat /\ b.kept[u] \in Nat
      BY <1>4, CleanupConstants DEF States
    <3>5. b.tmp = {t \in S : t.num > k + 1 /\ Overdue(S, f[t.num].kept, t)}
      BY <1>4
    <3>6. f[s.num] = b
      BY <3>1
    <3>7. /\ a \in States(S)
          /\ \/ Overdue(S, b.kept, s) /\ a.tmp = b.tmp \cup {s} /\ a.kept = b.kept
             \/ /\ ~Overdue(S, b.kept, s) /\ a.tmp = b.tmp
                /\ \E u \in 1..4 : /\ b.kept[u] < UnitLimit[u] /\ IsFirst(S, s, u)
                                   /\ a.kept = [b.kept EXCEPT ![u] = b.kept[u] + 1]
      <4> HIDE DEF a, b
      <4>1. a = Advance(S, b, s)
        BY <3>2 DEF a, b
      <4> QED BY <3>4, <4>1, AdvanceDoes
    <3> HIDE DEF a, b
    <3>8. a.tmp = {t \in S : t.num > k /\ Overdue(S, f[t.num].kept, t)}
      <4>1. CASE Overdue(S, b.kept, s)
        BY <3>3, <3>5, <3>6, <3>7, <4>1
      <4>2. CASE ~Overdue(S, b.kept, s)
        BY <3>3, <3>5, <3>6, <3>7, <4>2
      <4> QED BY <4>1, <4>2
    <3>9. \A u \in 1..4 : a.kept[u] <= UnitLimit[u]
      BY <3>4, <3>7 DEF States
    <3> QED BY <3>7, <3>8, <3>9 DEF a
  <2> QED BY <2>2, <2>3
<1> DEFINE G == {k \in 0..Last : Good(k)}
<1> HIDE DEF Good
<1>5. Last \in G /\ \A k \in 0..Last - 1 : k + 1 \in G => k \in G
  BY <1>3, <1>4, LastType
<1>6. \A k \in 0..Last : k \in G
  <2> HIDE DEF G
  <2> QED BY <1>5, LastType, Downward
<1> QED BY <1>6 DEF Good

(* One step of the walk: there is no entry k + 1, it is left in tmp, or it *)
(* is kept and counted.                                                    *)
Done(S, k, T) == \A t \in S : t.num > k <=> t.num > k + 1 \/ t \in T
Passes(S, f, k) == k + 1 \notin Numbers(S) /\ f[k] = f[k + 1] /\ Done(S, k, {})
Leaves(S, f, k, s) ==
  /\ s.num = k + 1 /\ Done(S, k, {s})
  /\ Overdue(S, f[k + 1].kept, s) /\ f[k].kept = f[k + 1].kept
Counts(S, f, k, s, u) ==
  /\ s.num = k + 1 /\ Done(S, k, {s})
  /\ ~Overdue(S, f[k + 1].kept, s) /\ f[k + 1].kept[u] < UnitLimit[u] /\ IsFirst(S, s, u)
  /\ f[k].kept = [f[k + 1].kept EXCEPT ![u] = f[k + 1].kept[u] + 1]

LEMMA WalkStep ==
  ASSUME NEW S \in SUBSET Snapshot, Unique(S), NEW f, Walk(S, 0, f), NEW k \in 0..Last - 1
  PROVE  \/ Passes(S, f, k)
         \/ \E s \in S : Leaves(S, f, k, s)
         \/ \E s \in S, u \in 1..4 : Counts(S, f, k, s, u)
<1>1. k \in 0..Last /\ k # Last /\ k \in Nat /\ k + 1 \in 0..Last
  BY LastType
<1>2. \A t \in S : t.num \in 1..Last
  BY LastType DEF Snapshot
<1>3. f[k] = Loop(S, f, k) /\ f[k + 1] \in States(S)
  BY <1>1, WalkStates DEF Walk
<1>4. CASE k + 1 \notin Numbers(S)
  BY <1>1, <1>2, <1>3, <1>4 DEF Loop, Numbers, Passes, Done
<1>5. CASE k + 1 \in Numbers(S)
  <2>1. PICK s \in S : s.num = k + 1
    BY <1>5 DEF Numbers
  <2>2. f[k] = Advance(S, f[k + 1], s)
    BY <1>1, <1>3, <1>5, <2>1, EntryIs DEF Loop
  <2>3. Done(S, k, {s})
    BY <1>1, <1>2, <2>1 DEF Unique, Done
  <2>4. \/ Overdue(S, f[k + 1].kept, s) /\ f[k].kept = f[k + 1].kept
        \/ /\ ~Overdue(S, f[k + 1].kept, s)
           /\ \E u \in 1..4 : /\ f[k + 1].kept[u] < UnitLimit[u] /\ IsFirst(S, s, u)
                              /\ f[k].kept = [f[k + 1].kept EXCEPT ![u] = f[k + 1].kept[u] + 1]
    BY <1>3, <2>2, AdvanceDoes
  <2> QED BY <2>1, <2>3, <2>4 DEF Leaves, Counts
<1> QED BY <1>4, <1>5

-----------------------------------------------------------------------------
(* Limits: what is not overdue has been counted.                           *)

Kept(S, f, k) == {t \in S : t.num > k /\ ~Overdue(S, f[t.num].kept, t)}
Limits == UnitLimit[1] + UnitLimit[2] + UnitLimit[3] + UnitLimit[4]
SumOf(c) == c[1] + c[2] + c[3] + c[4]

LEMMA SumOfCounted ==
  ASSUME NEW c \in [1..4 -> Nat], NEW u \in 1..4
  PROVE  SumOf([c EXCEPT ![u] = c[u] + 1]) = SumOf(c) + 1 /\ SumOf(c) \in Nat
BY DEF SumOf

LEMMA WalkCounts ==
  ASSUME NEW S \in SUBSET Snapshot, IsFiniteSet(S), Unique(S), NEW f, Walk(S, 0, f)
  PROVE  \A k \in 0..Last : Cardinality(Kept(S, f, k)) = SumOf(f[k].kept)
<1> DEFINE Good(k) == Cardinality(Kept(S, f, k)) = SumOf(f[k].kept)
<1>1. \A k \in 0..Last : f[k] \in States(S) /\ f[k].kept \in [1..4 -> Nat]
  BY WalkStates DEF States
<1>2. Good(Last)
  <2>1. f[Last] = Begin
    BY LastType DEF Loop, Walk
  <2>2. \A t \in S : t.num \in 1..Last
    BY LastType DEF Snapshot
  <2>3. Kept(S, f, Last) = {}
    BY <2>2, LastType DEF Kept
  <2> QED BY <2>1, <2>3, FS_EmptySet DEF Begin, SumOf
<1>3. ASSUME NEW k \in 0..Last - 1, Good(k + 1)
      PROVE  Good(k)
  <2>1. CASE Passes(S, f, k)
    <3>1. Kept(S, f, k) = Kept(S, f, k + 1)
      BY <2>1 DEF Kept, Passes, Done
    <3> QED BY <1>3, <2>1, <3>1 DEF Passes
  <2>2. ASSUME NEW s \in S, Leaves(S, f, k, s)
        PROVE  Good(k)
    <3>1. Kept(S, f, k) = Kept(S, f, k + 1)
      BY <2>2 DEF Kept, Leaves, Done
    <3> QED BY <1>3, <2>2, <3>1 DEF Leaves
  <2>3. ASSUME NEW s \in S, NEW u \in 1..4, Counts(S, f, k, s, u)
        PROVE  Good(k)
    <3>1. s \notin Kept(S, f, k + 1)
      BY <2>3, LastType DEF Kept, Counts
    <3>2. Kept(S, f, k) = Kept(S, f, k + 1) \cup {s}
      BY <2>3 DEF Kept, Counts, Done
    <3>3. IsFiniteSet(Kept(S, f, k + 1))
      <4>1. Kept(S, f, k + 1) \in SUBSET S
        BY DEF Kept
      <4> QED BY <4>1, FS_Subset
    <3>4. Cardinality(Kept(S, f, k)) = Cardinality(Kept(S, f, k + 1)) + 1
      BY <3>1, <3>2, <3>3, FS_AddElement
    <3>5. f[k + 1].kept \in [1..4 -> Nat]
      BY <1>1, LastType
    <3>6. SumOf(f[k].kept) = SumOf(f[k + 1].kept) + 1
      BY <2>3, <3>5, SumOfCounted DEF Counts
    <3> QED BY <1>3, <3>4, <3>6
  <2> HIDE DEF Good
  <2> QED BY <2>1, <2>2, <2>3, WalkStep
<1> DEFINE G == {k \in 0..Last : Good(k)}
<1> HIDE DEF Good
<1>4. Last \in G /\ \A k \in 0..Last - 1 : k + 1 \in G => k \in G
  BY <1>2, <1>3, LastType
<1>5. \A k \in 0..Last : k \in G
  <2> HIDE DEF G
  <2> QED BY <1>4, LastType, Downward
<1> QED BY <1>5 DEF Good

(* No more entries are counted for a unit than are first in it.            *)
Firsts(S, u, k) == {t \in S : t.num > k /\ IsFirst(S, t, u)}

LEMMA WalkCountsFirsts ==
  ASSUME NEW S \in SUBSET Snapshot, IsFiniteSet(S), Unique(S), NEW f, Walk(S, 0, f), NEW u \in 1..4
  PROVE  \A k \in 0..Last : f[k].kept[u] <= Cardinality(Firsts(S, u, k))
<1> DEFINE Good(k) == f[k].kept[u] <= Cardinality(Firsts(S, u, k))
<1>1. \A k \in 0..Last : f[k].kept \in [1..4 -> Nat] /\ f[k].kept[u] \in Nat
  BY WalkStates DEF States
<1>2. \A k \in 0..Last : IsFiniteSet(Firsts(S, u, k)) /\ Cardinality(Firsts(S, u, k)) \in Nat
  <2> TAKE k \in 0..Last
  <2>1. Firsts(S, u, k) \in SUBSET S
    BY DEF Firsts
  <2> QED BY <2>1, FS_Subset, FS_CardinalityType
<1>3. Good(Last)
  <2>1. f[Last] = Begin
    BY LastType DEF Loop, Walk
  <2> QED BY <1>2, <2>1, LastType DEF Begin
<1>4. ASSUME NEW k \in 0..Last - 1, Good(k + 1)
      PROVE  Good(k)
  <2>0. k \in 0..Last /\ k + 1 \in 0..Last
    BY LastType
  <2>1. Cardinality(Firsts(S, u, k + 1)) <= Cardinality(Firsts(S, u, k))
    <3>1. \A t \in S : t.num > k + 1 => t.num > k
      BY <2>0, SnapshotType
    <3>2. Firsts(S, u, k + 1) \in SUBSET Firsts(S, u, k)
      BY <3>1 DEF Firsts
    <3> QED BY <1>2, <2>0, <3>2, FS_Subset
  <2>2. CASE f[k].kept[u] = f[k + 1].kept[u]
    BY <1>1, <1>2, <1>4, <2>0, <2>1, <2>2
  <2>3. ASSUME NEW s \in S, Counts(S, f, k, s, u)
        PROVE  Good(k)
    <3>1. s \notin Firsts(S, u, k + 1)
      BY <2>3, LastType DEF Firsts, Counts
    <3>2. Firsts(S, u, k) = Firsts(S, u, k + 1) \cup {s}
      BY <2>3 DEF Firsts, Counts, Done
    <3>3. Cardinality(Firsts(S, u, k)) = Cardinality(Firsts(S, u, k + 1)) + 1
      BY <1>2, <2>0, <3>1, <3>2, FS_AddElement
    <3>4. f[k].kept[u] = f[k + 1].kept[u] + 1
      BY <1>1, <2>0, <2>3 DEF Counts
    <3> QED BY <1>1, <1>2, <1>4, <2>0, <3>3, <3>4
  <2>4. ASSUME NEW s \in S, NEW v \in 1..4 \ {u}, Counts(S, f, k, s, v)
        PROVE  f[k].kept[u] = f[k + 1].kept[u]
    BY <1>1, <2>0, <2>4 DEF Counts
  <2> HIDE DEF Good
  <2> QED BY <2>2, <2>3, <2>4, WalkStep DEF Passes, Leaves
<1> DEFINE G == {k \in 0..Last : Good(k)}
<1> HIDE DEF Good
<1>5. Last \in G /\ \A k \in 0..Last - 1 : k + 1 \in G => k \in G
  BY <1>3, <1>4, LastType
<1>6. \A k \in 0..Last : k \in G
  <2> HIDE DEF G
  <2> QED BY <1>5, LastType, Downward
<1> QED BY <1>6 DEF Good

(* While no entry is the first of a unit, none is counted for it.          *)
LEMMA WalkStill ==
  ASSUME NEW S \in SUBSET Snapshot, Unique(S), NEW f, Walk(S, 0, f), NEW u \in 1..4,
         NEW b \in 0..Last, NEW a \in 0..b, \A t \in S : t.num \in a + 1..b => ~IsFirst(S, t, u)
  PROVE  f[a].kept[u] = f[b].kept[u]
<1> DEFINE Good(k) == k \in a..b => f[k].kept[u] = f[b].kept[u]
<1>1. \A k \in 0..Last : f[k].kept \in [1..4 -> Nat]
  BY WalkStates DEF States
<1>2. Good(Last)
  BY LastType
<1>3. ASSUME NEW k \in 0..Last - 1, Good(k + 1)
      PROVE  Good(k)
  <2> SUFFICES ASSUME k \in a..b, k # b
               PROVE  f[k].kept[u] = f[b].kept[u]
    OBVIOUS
  <2>1. k + 1 \in a..b /\ k + 1 \in a + 1..b /\ k + 1 \in 0..Last
    BY LastType
  <2>2. ASSUME NEW s \in S, NEW v \in 1..4, Counts(S, f, k, s, v)
        PROVE  f[k].kept[u] = f[k + 1].kept[u]
    BY <1>1, <2>1, <2>2 DEF Counts
  <2>3. f[k].kept[u] = f[k + 1].kept[u]
    BY <2>2, WalkStep DEF Passes, Leaves
  <2> QED BY <1>3, <2>1, <2>3
<1> DEFINE G == {k \in 0..Last : Good(k)}
<1> HIDE DEF Good
<1>4. Last \in G /\ \A k \in 0..Last - 1 : k + 1 \in G => k \in G
  BY <1>2, <1>3, LastType
<1>5. \A k \in 0..Last : k \in G
  <2> HIDE DEF G
  <2> QED BY <1>4, LastType, Downward
<1> QED BY <1>5, LastType DEF Good

-----------------------------------------------------------------------------
(* Dates                                                                   *)

LEMMA BetweenSameUnit ==
  ASSUME NEW s \in Snapshot, NEW r \in Snapshot, NEW t \in Snapshot, NEW u \in 1..4,
         SameUnit(u, s, t), t.date <= r.date, r.date <= s.date
  PROVE  SameUnit(u, s, r)
<1> DEFINE w == Unit[u]
<1>1. w \in Nat /\ w > 0 /\ s.date \in Nat /\ r.date \in Nat /\ t.date \in Nat
  <2>1. Unit[u] \in Nat \ {0}
    BY CleanupConstants
  <2> QED BY <2>1, SnapshotType
<1> HIDE DEF w
<1>2. t.date \div w <= r.date \div w /\ r.date \div w <= s.date \div w
  BY <1>1, DivMonotone
<1>3. t.date \div w \in Int /\ r.date \div w \in Int /\ s.date \div w \in Int
  BY <1>1, DivisionTheorem
<1>4. t.date \div w = s.date \div w
  BY DEF SameUnit, w
<1>5. s.date \div w = r.date \div w
  BY <1>2, <1>3, <1>4
<1> QED BY <1>5 DEF SameUnit, w

(* is_first, which looks at the neighbours only, finds the entries than    *)
(* which none of the same unit is older.                                   *)
LEMMA FirstIsFirstOf ==
  ASSUME NEW S \in SUBSET Snapshot, Unique(S), Ordered(S), NEW s \in S, NEW u \in 1..4
  PROVE  IsFirst(S, s, u) <=> s \in FirstOf(S, u)
<1>0. \A t \in S : t \in Snapshot /\ t.date \in Nat /\ t.num \in Nat
  BY SnapshotType
<1>1. ASSUME IsFirst(S, s, u), NEW t \in S, SameUnit(u, s, t), ~(s.date <= t.date)
      PROVE  FALSE
  <2>1. t.date < s.date /\ t.num < s.num
    BY <1>0, <1>1 DEF Unique, Ordered
  <2>2. ASSUME NEW r \in S, t.num <= r.num, r.num < s.num
        PROVE  SameUnit(u, s, r)
    <3>1. t.date <= r.date /\ r.date <= s.date
      BY <1>0, <2>2 DEF Unique, Ordered
    <3> QED BY <1>0, <1>1, <3>1, BetweenSameUnit
  <2> QED BY <1>1, <2>1, <2>2 DEF IsFirst
<1>2. ASSUME s \in FirstOf(S, u)
      PROVE  IsFirst(S, s, u)
  <2> SUFFICES ASSUME NEW t \in S, t.num < s.num, t.date < s.date,
                      \A r \in S : t.num <= r.num /\ r.num < s.num => SameUnit(u, s, r)
               PROVE  FALSE
    BY DEF IsFirst
  <2>1. SameUnit(u, s, t)
    BY <1>0
  <2> QED BY <1>0, <1>2, <2>1 DEF FirstOf
<1> QED BY <1>1, <1>2 DEF FirstOf

-----------------------------------------------------------------------------
(* A second walk, without some of what the first one left in tmp           *)

(* Where the limit of a unit is not reached the same entries are first.    *)
LEMMA StillFirst ==
  ASSUME NEW S \in SUBSET Snapshot, Unique(S), Ordered(S), NEW f, Walk(S, 0, f),
         NEW R \in SUBSET S, \A t \in S \ R : Overdue(S, f[t.num].kept, t),
         NEW s \in R, NEW u \in 1..4, f[s.num].kept[u] < UnitLimit[u]
  PROVE  IsFirst(R, s, u) <=> IsFirst(S, s, u)
<1>1. R \in SUBSET Snapshot /\ Unique(R) /\ Ordered(R) /\ s \in S
  BY DEF Unique, Ordered
<1>2. \A t \in S : t \in Snapshot /\ t.num \in 0..Last /\ t.num \in Nat /\ t.date \in Nat
  BY SnapshotType, LastType
<1>3. IsFirst(S, s, u) => IsFirst(R, s, u)
  BY <1>1, FirstIsFirstOf DEF FirstOf
<1>4. ASSUME IsFirst(R, s, u), ~IsFirst(S, s, u)
      PROVE  FALSE
  <2> DEFINE Dates == {t.date : t \in {r \in S : SameUnit(u, s, r)}}
  <2>1. PICK t \in S : SameUnit(u, s, t) /\ t.date < s.date
    BY <1>1, <1>2, <1>4, FirstIsFirstOf DEF FirstOf
  <2>2. Dates \in SUBSET Nat /\ t.date \in Dates
    BY <1>2, <2>1
  <2>3. PICK d \in Dates : \A e \in Dates : d <= e
    <3> HIDE DEF Dates
    <3> QED BY <2>2, LeastNumber
  <2> DEFINE Oldest == {r \in S : SameUnit(u, s, r) /\ r.date = d}
             Steps == {Last - r.num : r \in Oldest}
  <2>4. Steps \in SUBSET Nat /\ Steps # {}
    BY <1>2, <2>3, LastType
  <2>5. PICK p \in Steps : \A q \in Steps : p <= q
    <3> HIDE DEF Steps
    <3> QED BY <2>4, LeastNumber
  <2>6. PICK y \in S : SameUnit(u, s, y) /\ y.date = d /\ p = Last - y.num
    BY <2>5
  <2>7. \A r \in S : SameUnit(u, s, r) => d <= r.date /\ (r.date = d => r.num <= y.num)
    <3> TAKE r \in S
    <3> HAVE SameUnit(u, s, r)
    <3>1. d <= r.date
      BY <2>3
    <3>2. ASSUME r.date = d
          PROVE  r.num <= y.num
      <4>1. Last - r.num \in Steps
        BY <3>2
      <4>2. Last - y.num <= Last - r.num
        BY <2>5, <2>6, <4>1
      <4> QED BY <1>2, <4>2, LastType
    <3> QED BY <3>1, <3>2
  <2> HIDE DEF Dates, Oldest, Steps
  <2>8. d < s.date /\ y.num < s.num
    <3>1. d <= t.date
      BY <2>1, <2>7
    <3> QED BY <1>1, <1>2, <2>1, <2>6, <3>1 DEF Unique, Ordered
  <2>9. IsFirst(S, y, u)
    <3>1. y \in FirstOf(S, u)
      BY <2>6, <2>7 DEF FirstOf, SameUnit
    <3> QED BY <3>1, FirstIsFirstOf
  <2>10. y \notin R
    BY <1>1, <1>2, <1>4, <2>6, <2>8, FirstIsFirstOf DEF FirstOf
  <2>11. ~(f[y.num].kept[u] < UnitLimit[u])
    BY <2>9, <2>10 DEF Overdue
  <2>12. ASSUME NEW r \in S, r.num \in y.num + 1..s.num, IsFirst(S, r, u)
         PROVE  FALSE
    <3>1. y.date <= r.date /\ r.date <= s.date
      BY <1>1, <1>2, <2>12 DEF Unique, Ordered
    <3>2. SameUnit(u, s, r)
      BY <1>1, <1>2, <2>6, <3>1, BetweenSameUnit
    <3>3. SameUnit(u, r, y)
      BY <2>6, <3>2 DEF SameUnit
    <3>4. r.date <= y.date
      BY <2>12, <3>3, FirstIsFirstOf DEF FirstOf
    <3>5. r.date = d
      BY <1>2, <2>6, <3>1, <3>4
    <3> QED BY <1>2, <2>7, <2>12, <3>2, <3>5
  <2>13. f[y.num].kept[u] = f[s.num].kept[u]
    <3>1. s.num \in 0..Last /\ y.num \in 0..s.num
      BY <1>1, <1>2, <2>8
    <3> QED BY <2>12, <3>1, WalkStill
  <2> QED BY <2>11, <2>13
<1> QED BY <1>3, <1>4

LEMMA SameAdvance ==
  ASSUME NEW S, NEW R, NEW b \in States(S), NEW c \in States(R), b.kept = c.kept, NEW s,
         \A u \in 1..4 : b.kept[u] < UnitLimit[u] => (IsFirst(R, s, u) <=> IsFirst(S, s, u))
  PROVE  Advance(S, b, s).kept = Advance(R, c, s).kept
<1> DEFINE V == {u \in 1..4 : b.kept[u] < UnitLimit[u] /\ IsFirst(S, s, u)}
           W == {u \in 1..4 : c.kept[u] < UnitLimit[u] /\ IsFirst(R, s, u)}
<1>1. V = W
  OBVIOUS
<1>2. Advance(S, b, s) = IF V = {} THEN [b EXCEPT !.tmp = @ \cup {s}]
                                   ELSE [b EXCEPT !.kept[Min(V)] = @ + 1]
  BY DEF Advance
<1>3. Advance(R, c, s) = IF W = {} THEN [c EXCEPT !.tmp = @ \cup {s}]
                                   ELSE [c EXCEPT !.kept[Min(W)] = @ + 1]
  BY DEF Advance
<1> HIDE DEF V, W
<1> QED BY <1>1, <1>2, <1>3 DEF States

LEMMA WalkAgrees ==
  ASSUME NEW S \in SUBSET Snapshot, Unique(S), Ordered(S), NEW R \in SUBSET S, S \ Scan(S) \subseteq R
  PROVE  Scan(R) = Scan(S) \cap R
<1>1. PICK f : Walk(S, 0, f) /\ Scan(S) = f[0].tmp
  BY WalkExists
<1>2. PICK g : Walk(R, 0, g) /\ Scan(R) = g[0].tmp
  BY WalkExists
<1>3. R \in SUBSET Snapshot /\ Unique(R)
  BY DEF Unique
<1>4. \A t \in S : t.num \in 1..Last /\ t.num > 0
  BY SnapshotType, LastType
<1>5. /\ Scan(S) = {t \in S : Overdue(S, f[t.num].kept, t)}
      /\ Scan(R) = {t \in R : Overdue(R, g[t.num].kept, t)}
  <2>1. 0 \in 0..Last
    BY LastType
  <2>2. f[0].tmp = {t \in S : t.num > 0 /\ Overdue(S, f[t.num].kept, t)}
    BY <1>1, <2>1, WalkStates
  <2>3. g[0].tmp = {t \in R : t.num > 0 /\ Overdue(R, g[t.num].kept, t)}
    BY <1>2, <1>3, <2>1, WalkStates
  <2> QED BY <1>1, <1>2, <1>4, <2>2, <2>3
<1>6. \A t \in S \ R : Overdue(S, f[t.num].kept, t)
  BY <1>5
<1>7. \A k \in 0..Last : f[k] \in States(S) /\ g[k] \in States(R)
  BY <1>1, <1>2, <1>3, WalkStates
<1> DEFINE Good(k) == f[k].kept = g[k].kept
<1>8. Good(Last)
  <2>1. f[Last] = Begin /\ g[Last] = Begin
    BY <1>1, <1>2, LastType DEF Loop, Walk
  <2> QED BY <2>1
<1>9. ASSUME NEW k \in 0..Last - 1, Good(k + 1)
      PROVE  Good(k)
  <2>1. k \in 0..Last /\ k + 1 \in 0..Last /\ k # Last
    BY LastType
  <2>2. f[k] = Loop(S, f, k) /\ g[k] = Loop(R, g, k)
    BY <1>1, <1>2, <2>1 DEF Walk
  <2>3. CASE k + 1 \notin Numbers(S)
    <3>1. k + 1 \notin Numbers(R)
      BY <2>3 DEF Numbers
    <3> QED BY <1>9, <2>1, <2>2, <2>3, <3>1 DEF Loop
  <2>4. ASSUME NEW s \in S \ R, s.num = k + 1
        PROVE  Good(k)
    <3>1. k + 1 \notin Numbers(R)
      BY <2>4 DEF Numbers, Unique
    <3>2. g[k] = g[k + 1]
      BY <2>1, <2>2, <3>1 DEF Loop
    <3>3. f[k] = Advance(S, f[k + 1], s)
      BY <2>1, <2>2, <2>4, EntryIs DEF Loop, Numbers
    <3>4. Overdue(S, f[k + 1].kept, s)
      BY <1>6, <2>4
    <3>5. f[k].kept = f[k + 1].kept
      BY <1>7, <2>1, <3>3, <3>4, AdvanceDoes
    <3> QED BY <1>9, <3>2, <3>5
  <2>5. ASSUME NEW s \in R, s.num = k + 1
        PROVE  Good(k)
    <3>1. f[k] = Advance(S, f[k + 1], s)
      BY <2>1, <2>2, <2>5, EntryIs DEF Loop, Numbers
    <3>2. g[k] = Advance(R, g[k + 1], s)
      BY <1>3, <2>1, <2>2, <2>5, EntryIs DEF Loop, Numbers
    <3>3. \A u \in 1..4 : f[k + 1].kept[u] < UnitLimit[u] => (IsFirst(R, s, u) <=> IsFirst(S, s, u))
      BY <1>1, <1>6, <2>5, StillFirst
    <3> QED BY <1>7, <1>9, <2>1, <3>1, <3>2, <3>3, SameAdvance
  <2> QED BY <2>3, <2>4, <2>5 DEF Numbers
<1> DEFINE G == {k \in 0..Last : Good(k)}
<1> HIDE DEF Good
<1>10. Last \in G /\ \A k \in 0..Last - 1 : k + 1 \in G => k \in G
  BY <1>8, <1>9, LastType
<1>11. \A k \in 0..Last : k \in G
  <2> HIDE DEF G
  <2> QED BY <1>10, LastType, Downward
<1>12. ASSUME NEW t \in R
       PROVE  Overdue(S, f[t.num].kept, t) <=> Overdue(R, g[t.num].kept, t)
  <2>1. f[t.num].kept = g[t.num].kept
    <3>1. t.num \in 0..Last
      BY SnapshotType, LastType
    <3> QED BY <1>11, <3>1 DEF Good
  <2>2. \A u \in 1..4 : f[t.num].kept[u] < UnitLimit[u] => (IsFirst(R, t, u) <=> IsFirst(S, t, u))
    BY <1>1, <1>6, StillFirst
  <2> QED BY <2>1, <2>2 DEF Overdue
<1> QED BY <1>5, <1>12

-----------------------------------------------------------------------------
(* What the algorithms pick                                                *)

LEMMA ListFinite ==
  ASSUME NEW S \in SUBSET Snapshot, Unique(S)
  PROVE  IsFiniteSet(S) /\ Cardinality(S) <= Cardinality(Num)
<1> DEFINE f == [s \in S |-> s.num]
<1>1. f \in [S -> Num]
  BY SnapshotType
<1>2. f \in Injection(S, Num)
  BY <1>1 DEF Injection, IsInjective, Unique
<1> QED BY <1>2, CleanupConstants, FS_Injection

LEMMA ScanPicks ==
  ASSUME NEW S \in SUBSET Snapshot, Unique(S)
  PROVE  \E f : /\ Walk(S, 0, f) /\ Scan(S) \subseteq S
                /\ Scan(S) = {t \in S : Overdue(S, f[t.num].kept, t)}
<1>1. PICK f : Walk(S, 0, f) /\ Scan(S) = f[0].tmp
  BY WalkExists
<1>2. \A t \in S : t.num > 0
  BY SnapshotType
<1>3. f[0].tmp = {t \in S : t.num > 0 /\ Overdue(S, f[t.num].kept, t)}
  BY <1>1, LastType, WalkStates
<1> QED BY <1>1, <1>2, <1>3

LEMMA ScanLeavesLimits ==
  ASSUME NEW S \in SUBSET Snapshot, Unique(S)
  PROVE  Cardinality(S \ Scan(S)) <= Limits
<1>1. PICK f : Walk(S, 0, f) /\ Scan(S) = {t \in S : Overdue(S, f[t.num].kept, t)}
  BY ScanPicks
<1>2. 0 \in 0..Last /\ \A t \in S : t.num > 0
  BY LastType, SnapshotType
<1>3. S \ Scan(S) = Kept(S, f, 0)
  BY <1>1, <1>2 DEF Kept
<1>4. Cardinality(S \ Scan(S)) = SumOf(f[0].kept)
  BY <1>1, <1>2, <1>3, ListFinite, WalkCounts
<1>5. \A u \in 1..4 : f[0].kept[u] \in Nat /\ UnitLimit[u] \in Nat /\ f[0].kept[u] <= UnitLimit[u]
  <2>1. f[0] \in States(S) /\ \A u \in 1..4 : f[0].kept[u] <= UnitLimit[u]
    BY <1>1, <1>2, WalkStates
  <2> QED BY <2>1, CleanupConstants DEF States
<1> QED BY <1>4, <1>5 DEF SumOf, Limits

LEMMA ScanKeepsFirsts ==
  ASSUME NEW S \in SUBSET Snapshot, Unique(S), Ordered(S), NEW u \in 1..4,
         NEW s \in Newest(FirstOf(S, u), UnitLimit[u])
  PROVE  s \notin Scan(S)
<1>1. PICK f : Walk(S, 0, f) /\ Scan(S) = {t \in S : Overdue(S, f[t.num].kept, t)}
  BY ScanPicks
<1>2. s \in S /\ IsFirst(S, s, u) /\ Cardinality({t \in FirstOf(S, u) : t.num > s.num}) < UnitLimit[u]
  BY FirstIsFirstOf DEF Newest, FirstOf
<1>3. {t \in FirstOf(S, u) : t.num > s.num} = Firsts(S, u, s.num)
  BY FirstIsFirstOf DEF Firsts, FirstOf
<1>4. s.num \in 0..Last
  BY <1>2, SnapshotType, LastType
<1>5. f[s.num].kept[u] <= Cardinality(Firsts(S, u, s.num)) /\ f[s.num].kept[u] \in Nat
  BY <1>1, <1>4, ListFinite, WalkCountsFirsts, WalkStates DEF States
<1>6. UnitLimit[u] \in Nat /\ Cardinality(Firsts(S, u, s.num)) \in Nat
  <2>1. Firsts(S, u, s.num) \in SUBSET S
    BY DEF Firsts
  <2> QED BY <2>1, ListFinite, FS_Subset, FS_CardinalityType, CleanupConstants
<1>7. f[s.num].kept[u] < UnitLimit[u]
  BY <1>2, <1>3, <1>5, <1>6
<1> QED BY <1>1, <1>2, <1>7 DEF Overdue

(* A part of a list is one.                                                *)
LEMMA PartOfList ==
  ASSUME NEW S, Listing(S), NEW T \in SUBSET S
  PROVE  Listing(T)
BY DEF Listing, Unique, Ordered, OnePost

(* The candidates, before filter1 and filter2                              *)
Picked(a, S) == IF a = "number" THEN Surplus(S) ELSE Outdated(S)

LEMMA PickedFromList ==
  ASSUME NEW S, Listing(S), NEW a
  PROVE  Picked(a, S) \subseteq S
<1>1. Surplus(S) \subseteq S
  BY DEF Surplus, With
<1>2. Listing(With(S, "timeline")) /\ With(S, "timeline") \subseteq S
  BY PartOfList DEF With
<1>3. Outdated(S) \subseteq S
  BY <1>2, ScanPicks DEF Outdated, Listing
<1> QED BY <1>1, <1>3 DEF Picked

LEMMA PlanFromList ==
  ASSUME NEW S, Listing(S), NEW a, NEW t
  PROVE  Plan(a, S, t) = Filter2(S, Filter1(Picked(a, S), t)) /\ Plan(a, S, t) \subseteq S
BY PickedFromList DEF Plan, Picked, Filter1, Filter2

(* filter2 keeps both halves of a pair or none.                            *)
LEMMA Filter2Closed ==
  ASSUME NEW S, Listing(S), NEW T \in SUBSET S
  PROVE  Closed(S, Filter2(S, T))
<1> SUFFICES ASSUME NEW s \in T, Partner(S, s) \subseteq T, NEW t \in Partner(S, s)
             PROVE  t \in T /\ Partner(S, t) \subseteq T
  BY DEF Closed, Filter2
<1>1. s \in S /\ t \in S /\ t \in T
  BY DEF Partner, FindPost, FindPre
<1>2. CASE s.type = "pre"
  <2>1. t.type = "post" /\ t.pre_num = s.num
    BY <1>2 DEF Partner, FindPost
  <2>2. Partner(S, t) = FindPre(S, t)
    BY <2>1 DEF Partner
  <2>3. FindPre(S, t) \subseteq {s}
    BY <1>1, <2>1 DEF FindPre, Listing, Unique
  <2> QED BY <1>1, <2>2, <2>3
<1>3. CASE s.type = "post"
  <2>1. t.type = "pre" /\ t.num = s.pre_num
    BY <1>3 DEF Partner, FindPre
  <2>2. Partner(S, t) = FindPost(S, t)
    BY <2>1 DEF Partner
  <2>3. FindPost(S, t) \subseteq {s}
    BY <1>1, <1>3, <2>1 DEF FindPost, Listing, OnePost
  <2> QED BY <1>1, <2>2, <2>3
<1>4. CASE s.type = "single"
  BY <1>4 DEF Partner
<1> QED BY <1>1, <1>2, <1>3, <1>4 DEF Listing, Snapshot

(* Without what was deleted, no algorithm picks anything that it has not   *)
(* picked before.                                                          *)
LEMMA PickedAgain ==
  ASSUME NEW S, Listing(S), NEW a, NEW D \in SUBSET Picked(a, S)
  PROVE  Picked(a, S \ D) \subseteq Picked(a, S)
<1> DEFINE R == S \ D
<1>1. CASE a = "number"
  <2>1. With(R, "number") \subseteq With(S, "number") /\ With(S, "number") \in SUBSET S
    BY DEF With
  <2>2. ASSUME NEW s \in Surplus(R)
        PROVE  s \in Surplus(S)
    <3> DEFINE A == {t \in With(R, "number") : t.num > s.num}
               B == {t \in With(S, "number") : t.num > s.num}
    <3>1. A \in SUBSET B /\ B \in SUBSET S
      BY <2>1
    <3>2. IsFiniteSet(B)
      BY <3>1, ListFinite, FS_Subset DEF Listing
    <3>3. Cardinality(A) <= Cardinality(B) /\ Cardinality(A) \in Nat /\ Cardinality(B) \in Nat
      <4> HIDE DEF A, B
      <4> QED BY <3>1, <3>2, FS_Subset, FS_CardinalityType
    <3>4. Cardinality(A) >= Limit /\ s \in With(S, "number") /\ Limit \in Nat
      BY <2>1, <2>2, CleanupConstants DEF Surplus
    <3>5. Cardinality(B) >= Limit
      <4> HIDE DEF A, B
      <4> QED BY <3>3, <3>4
    <3> QED BY <3>4, <3>5 DEF Surplus
  <2> QED BY <1>1, <2>2 DEF Picked
<1>2. CASE a # "number"
  <2> DEFINE T == With(S, "timeline")
             Q == With(R, "timeline")
  <2>1. D \subseteq Scan(T)
    BY <1>2 DEF Picked, Outdated
  <2>2. Q \in SUBSET T /\ T \ Scan(T) \subseteq Q
    BY <2>1 DEF With
  <2>3. T \in SUBSET Snapshot /\ Unique(T) /\ Ordered(T)
    <3>1. T \in SUBSET S
      BY DEF With
    <3> HIDE DEF T
    <3> QED BY <3>1, PartOfList DEF Listing
  <2>4. Scan(Q) \subseteq Scan(T)
    <3> HIDE DEF Q, T
    <3> QED BY <2>2, <2>3, WalkAgrees
  <2> QED BY <1>2, <2>4 DEF Picked, Outdated
<1> QED BY <1>1, <1>2

(* A second run has nothing to do.                                         *)
LEMMA PlanAgain ==
  ASSUME NEW S, Listing(S), NEW a, NEW t
  PROVE  Plan(a, S \ Plan(a, S, t), t) = {}
<1> DEFINE D == Plan(a, S, t)
           R == S \ D
           F == Filter1(Picked(a, S), t)
<1>1. Listing(R) /\ R \subseteq S
  BY PartOfList
<1>2. D = Filter2(S, F) /\ D \subseteq F /\ F \subseteq Picked(a, S)
  BY PlanFromList DEF Filter1, Filter2
<1>3. Filter1(Picked(a, R), t) \subseteq F
  <2>1. D \in SUBSET Picked(a, S)
    BY <1>2
  <2>2. Picked(a, R) \subseteq Picked(a, S)
    <3> HIDE DEF D
    <3> QED BY <2>1, PickedAgain
  <2> HIDE DEF R
  <2> QED BY <2>2 DEF Filter1
<1>4. ASSUME NEW s \in Filter2(R, Filter1(Picked(a, R), t))
      PROVE  FALSE
  <2>1. s \in F /\ s \in R /\ s \notin D /\ Partner(R, s) \subseteq F
    <3>1. Filter1(Picked(a, R), t) \subseteq R
      BY <1>1, PickedFromList DEF Filter1
    <3> QED BY <1>3, <1>4, <3>1 DEF Filter2
  <2>2. PICK p \in Partner(S, s) : p \notin F
    BY <1>2, <2>1 DEF Filter2
  <2>3. p \in R /\ p \in S
    BY <1>2, <2>2 DEF Partner, FindPost, FindPre
  <2>4. p \in Partner(R, s)
    <3> HIDE DEF R
    <3> QED BY <2>2, <2>3 DEF Partner, FindPost, FindPre
  <2> QED BY <2>1, <2>2, <2>4
<1>5. Plan(a, R, t) = Filter2(R, Filter1(Picked(a, R), t))
  <2> HIDE DEF R
  <2> QED BY <1>1, PlanFromList
<1> QED BY <1>4, <1>5

-----------------------------------------------------------------------------
(* The process and the daemon: every step keeps the invariant              *)

LEMMA Clock ==
  ASSUME TypeOK
  PROVE  /\ now \in Nat /\ at \in Nat /\ at <= now /\ now <= MaxTime /\ MaxTime \in Nat
         /\ MinAge \in Nat /\ Cardinality(Num) \in Nat
<1>1. MaxTime \in Nat /\ MinAge \in Nat /\ Cardinality(Num) \in Nat
  BY CleanupConstants, FS_CardinalityType
<1>2. now \in 0..MaxTime /\ at \in 0..now
  BY DEF TypeOK
<1> QED BY <1>1, <1>2

LEMMA Created ==
  ASSUME TypeOK, Lists, NEW kind \in Kind, OtherCreates(kind)
  PROVE  \E s \in Snapshot : /\ snaps' = snaps \cup {s} /\ s.date = now
                             /\ Listing(snaps \cup {s})
<1>1. PICK k \in Num, p \in Num \cup {0} :
        /\ k = IF snaps = {} THEN 1 ELSE Max(Numbers(snaps)) + 1
        /\ IF kind.type = "post"
           THEN \E s \in snaps : s.type = "pre" /\ s.num = p /\ FindPost(snaps, s) = {}
           ELSE p = 0
        /\ snaps' = snaps \cup {[num |-> k, type |-> kind.type, pre_num |-> p,
                                 cleanup |-> kind.cleanup, date |-> now, same |-> kind.same]}
  BY DEF OtherCreates
<1> DEFINE s == [num |-> k, type |-> kind.type, pre_num |-> p,
                 cleanup |-> kind.cleanup, date |-> now, same |-> kind.same]
<1>2. s \in Snapshot /\ s.date = now /\ s.num = k /\ s.type = kind.type /\ s.pre_num = p
  BY CleanupConstants DEF Snapshot, TypeOK
<1>3. \A t \in snaps : t.num < k /\ t \in Snapshot /\ t.num \in Nat /\ k \in Nat
  <2> DEFINE N == Numbers(snaps)
  <2>1. N \in SUBSET Num /\ N \in SUBSET Nat /\ \A t \in snaps : t \in Snapshot /\ t.num \in N
    BY SnapshotType DEF Numbers, TypeOK
  <2>2. IsFiniteSet(N)
    BY <2>1, CleanupConstants, FS_Subset
  <2>3. snaps # {} => k = Max(N) + 1
    BY <1>1
  <2>4. k \in Nat
    BY CleanupConstants
  <2> HIDE DEF N
  <2>5. \A n \in N : Max(N) >= n /\ Max(N) \in Nat
    BY <2>1, <2>2, MaxIsGreatest
  <2>6. ASSUME NEW t \in snaps
        PROVE  t.num < k
    <3>1. t.num \in N /\ t.num \in Nat /\ k = Max(N) + 1
      BY <2>1, <2>3
    <3> QED BY <2>5, <3>1
  <2> QED BY <2>1, <2>4, <2>6
<1>4. ASSUME NEW t \in snaps
      PROVE  /\ t.num < s.num /\ t.date <= s.date
             /\ ~(s.type = "post" /\ t.type = "post" /\ s.pre_num = t.pre_num)
  <2>1. ~(kind.type = "post" /\ t.type = "post" /\ p = t.pre_num)
    BY <1>1 DEF FindPost
  <2> QED BY <1>2, <1>3, <2>1 DEF Lists
<1> HIDE DEF s
<1>5. \A t \in snaps : t.num < s.num /\ ~(s.num < t.num) /\ ~(s.num < s.num) /\ s.num # t.num
  BY <1>2, <1>3, <1>4
<1>6. Unique(snaps \cup {s})
  BY <1>5 DEF Unique, Lists, Listing
<1>7. Ordered(snaps \cup {s})
  <2> SUFFICES ASSUME NEW x \in snaps \cup {s}, NEW y \in snaps \cup {s}, x.num < y.num
               PROVE  x.date <= y.date
    BY DEF Ordered
  <2>1. x \in snaps
    <3>1. s.num \in Nat
      BY <1>1, <1>2, CleanupConstants
    <3>2. ASSUME x = s
          PROVE  FALSE
      <4>1. CASE y = s
        BY <3>1, <3>2, <4>1
      <4>2. CASE y \in snaps
        BY <1>5, <3>2, <4>2
      <4> QED BY <4>1, <4>2
    <3> QED BY <3>2
  <2>2. CASE y \in snaps
    BY <2>1, <2>2 DEF Ordered, Lists, Listing
  <2>3. CASE y = s
    BY <1>4, <2>1, <2>3
  <2> QED BY <2>2, <2>3
<1>8. OnePost(snaps \cup {s})
  BY <1>4 DEF OnePost, Lists, Listing
<1> QED BY <1>1, <1>2, <1>6, <1>7, <1>8 DEF s, Listing, Lists

LEMMA ListsStep ==
  ASSUME TypeOK, Lists, [Next]_vars
  PROVE  Lists'
<1>0. now \in Nat /\ \A s \in snaps : s.date \in Nat
  <2>1. now \in 0..MaxTime /\ MaxTime \in Nat /\ snaps \subseteq Snapshot
    BY CleanupConstants DEF TypeOK
  <2> QED BY <2>1, SnapshotType
<1>1. ASSUME NEW a \in Algorithms, Start(a)
      PROVE  Lists'
  BY <1>1 DEF Start, Lists
<1>2. CASE Compare
  BY <1>2 DEF Compare, runVars, Lists
<1>3. CASE Compared
  BY <1>3 DEF Compared, Lists
<1>4. CASE Delete
  <2>1. snaps' \subseteq snaps /\ seen' = seen /\ now' = now
    BY <1>4 DEF Delete, runVars
  <2> QED BY <2>1, PartOfList DEF Lists
<1>5. CASE Exit
  BY <1>5 DEF Exit, Lists
<1>6. CASE Reaped
  BY <1>6 DEF Reaped, Lists, Listing, Unique, Ordered, OnePost
<1>7. CASE Tick
  BY <1>0, <1>7 DEF Tick, runVars, Lists
<1>8. ASSUME NEW kind \in Kind, OtherCreates(kind)
      PROVE  Lists'
  <2>1. seen' = seen /\ now' = now
    BY <1>8 DEF OtherCreates, runVars
  <2>2. PICK s \in Snapshot : /\ snaps' = snaps \cup {s} /\ s.date = now
                              /\ Listing(snaps \cup {s})
    BY <1>8, Created
  <2> QED BY <1>0, <2>1, <2>2 DEF Lists
<1>9. CASE OtherDeletes
  <2>1. snaps' \subseteq snaps /\ seen' = seen /\ now' = now
    BY <1>9 DEF OtherDeletes, runVars
  <2> QED BY <2>1, PartOfList DEF Lists
<1>10. CASE UNCHANGED vars
  BY <1>10 DEF vars, runVars, Lists
<1> QED
  BY <1>1, <1>2, <1>3, <1>4, <1>5, <1>6, <1>7, <1>8, <1>9, <1>10 DEF Next, Process

LEMMA PlacesStep ==
  ASSUME TypeOK, Lists, Places, [Next]_vars
  PROVE  Places'
<1>0. Cardinality(Num) \in Nat
  BY CleanupConstants, FS_CardinalityType
<1>1. ASSUME NEW a \in Algorithms, Start(a)
      PROVE  Places'
  <2>1. pairs' \in SUBSET snaps /\ uses' = 0
    BY <1>1 DEF Start, Places
  <2>2. Cardinality(pairs') <= Cardinality(Num) /\ Cardinality(pairs') \in Nat
    <3>1. IsFiniteSet(snaps) /\ Cardinality(snaps) <= Cardinality(Num) /\ Cardinality(snaps) \in Nat
      BY ListFinite, FS_CardinalityType DEF Lists, Listing
    <3> QED BY <1>0, <2>1, <3>1, FS_Subset, FS_CardinalityType
  <2>3. uses' + Cardinality(pairs') <= Cardinality(Num)
    BY <2>1, <2>2
  <2> QED BY <1>1, <2>3 DEF Start, Places
<1>2. CASE Compare
  <2>1. PICK p \in pairs : pairs' = pairs \ {p} /\ uses' = uses + 1
    BY <1>2 DEF Compare
  <2>2. IsFiniteSet(pairs) /\ Cardinality(pairs) \in Nat
    <3>1. IsFiniteSet(seen) /\ pairs \in SUBSET seen
      BY ListFinite DEF Lists, Listing, TypeOK
    <3> QED BY <3>1, FS_Subset, FS_CardinalityType
  <2>3. Cardinality(pairs') = Cardinality(pairs) - 1
    BY <2>1, <2>2, FS_RemoveElement
  <2>4. uses' + Cardinality(pairs') <= Cardinality(Num)
    BY <1>0, <2>1, <2>2, <2>3 DEF Places, TypeOK
  <2> QED BY <1>2, <2>4 DEF Compare, runVars, Places
<1>3. CASE Compared
  BY <1>3 DEF Compared, Places
<1>4. CASE Delete
  BY <1>4 DEF Delete, runVars, Places
<1>5. CASE Exit
  <2>1. uses' + Cardinality(pairs') <= Cardinality(Num)
    <3>1. IsFiniteSet(seen) /\ pairs \in SUBSET seen
      BY ListFinite DEF Lists, Listing, TypeOK
    <3>2. Cardinality(pairs) \in Nat /\ uses \in Nat
      BY <1>0, <3>1, FS_Subset, FS_CardinalityType DEF TypeOK
    <3>3. Cardinality(pairs') = 0 /\ uses' = uses
      BY <1>5, FS_EmptySet DEF Exit
    <3> QED BY <1>0, <3>2, <3>3 DEF Places
  <2> QED BY <1>5, <2>1 DEF Exit, Places
<1>6. CASE Reaped
  <2>1. uses' + Cardinality(pairs') <= Cardinality(Num)
    BY <1>0, <1>6, FS_EmptySet DEF Reaped, Places
  <2> QED BY <1>6, <2>1 DEF Reaped, Places
<1>7. CASE Tick
  BY <1>7 DEF Tick, runVars, Places
<1>8. ASSUME NEW kind \in Kind, OtherCreates(kind)
      PROVE  Places'
  BY <1>8 DEF OtherCreates, runVars, Places
<1>9. CASE OtherDeletes
  BY <1>9 DEF OtherDeletes, runVars, Places
<1>10. CASE UNCHANGED vars
  BY <1>10 DEF vars, runVars, Places
<1> QED
  BY <1>1, <1>2, <1>3, <1>4, <1>5, <1>6, <1>7, <1>8, <1>9, <1>10 DEF Next, Process

LEMMA TypeOKStep ==
  ASSUME TypeOK, Lists, Places, [Next]_vars
  PROVE  TypeOK'
<1>1. ASSUME NEW a \in Algorithms, Start(a)
      PROVE  TypeOK'
  <2>1. a # "empty-pre-post" => tmp' \subseteq snaps
    BY <1>1, PlanFromList DEF Start, Lists
  <2>2. a = "empty-pre-post" => tmp' = {} /\ pairs' \subseteq snaps /\ pc' = "compare"
    BY <1>1 DEF Start
  <2>3. a # "empty-pre-post" => pairs' = {} /\ pc' = "delete"
    BY <1>1 DEF Start, Places
  <2>4. now \in 0..now
    BY Clock
  <2> QED BY <1>1, <2>1, <2>2, <2>3, <2>4 DEF Start, TypeOK
<1>2. CASE Compare
  <2>1. PICK p \in pairs : \E s \in FindPost(seen, p) :
          pairs' = pairs \ {p} /\ tmp' = IF \E t \in snaps : t.num = s.num /\ t.same THEN tmp \cup {p, s} ELSE tmp
    BY <1>2 DEF Compare
  <2>2. tmp' \subseteq seen /\ pairs' \subseteq seen
    BY <2>1 DEF TypeOK, FindPost
  <2>3. uses' \in 0..Cardinality(Num)
    <3>1. pairs \in SUBSET seen /\ IsFiniteSet(seen) /\ Cardinality(Num) \in Nat
      BY ListFinite, CleanupConstants, FS_CardinalityType DEF Lists, Listing, TypeOK
    <3>2. IsFiniteSet(pairs) /\ Cardinality(pairs) \in Nat /\ Cardinality(pairs) # 0
      BY <2>1, <3>1, FS_Subset, FS_CardinalityType, FS_EmptySet
    <3>3. uses + Cardinality(pairs) <= Cardinality(Num) /\ uses \in 0..Cardinality(Num) /\ uses' = uses + 1
      BY <1>2 DEF Compare, Places, TypeOK
    <3> QED BY <3>1, <3>2, <3>3
  <2> QED BY <1>2, <2>2, <2>3 DEF Compare, runVars, TypeOK
<1>3. CASE Compared
  <2>1. tmp' \subseteq seen
    BY <1>3 DEF Compared, Filter1, Filter2, TypeOK
  <2>2. now \in 0..now
    BY Clock
  <2> QED BY <1>3, <2>1, <2>2 DEF Compared, TypeOK
<1>4. CASE Delete
  BY <1>4 DEF Delete, runVars, TypeOK
<1>5. CASE Exit
  BY <1>5 DEF Exit, runVars, TypeOK
<1>6. CASE Reaped
  <2>1. uses' \in 0..Cardinality(Num)
    BY <1>6, Clock DEF Reaped
  <2>2. at' \in 0..now
    BY <1>6, Clock DEF Reaped
  <2> QED BY <1>6, <2>1, <2>2 DEF Reaped, Places, TypeOK
<1>7. CASE Tick
  <2>1. now' \in 0..MaxTime /\ at \in 0..now'
    BY <1>7, Clock DEF Tick, runVars
  <2> QED BY <1>7, <2>1 DEF Tick, runVars, TypeOK
<1>8. ASSUME NEW kind \in Kind, OtherCreates(kind)
      PROVE  TypeOK'
  <2>1. snaps' \subseteq Snapshot
    BY <1>8, Created DEF TypeOK
  <2> QED BY <1>8, <2>1 DEF OtherCreates, runVars, TypeOK
<1>9. CASE OtherDeletes
  BY <1>9 DEF OtherDeletes, runVars, TypeOK
<1>10. CASE UNCHANGED vars
  BY <1>10 DEF vars, runVars, TypeOK
<1> QED
  BY <1>1, <1>2, <1>3, <1>4, <1>5, <1>6, <1>7, <1>8, <1>9, <1>10 DEF Next, Process

(* A call of DeleteSnapshots moves one snapshot from tmp to what is gone.  *)
LEMMA Deletion ==
  ASSUME TypeOK, Lists, Delete, tmp \subseteq snaps
  PROVE  tmp' \subseteq snaps' /\ Gone' \cup tmp' = Gone \cup tmp
<1>1. PICK k \in Num : /\ snaps' = {s \in snaps : s.num # k} /\ tmp' = {s \in tmp : s.num # k}
                       /\ k \in Numbers(tmp)
  BY DEF Delete, Next1
<1>2. PICK x \in tmp : x.num = k
  BY <1>1 DEF Numbers
<1>3. \A s \in snaps : s.num = k => s = x
  BY <1>2 DEF Lists, Listing, Unique
<1>4. snaps' = snaps \ {x} /\ tmp' = tmp \ {x} /\ x \in seen
  BY <1>1, <1>2, <1>3 DEF TypeOK
<1> QED BY <1>2, <1>4 DEF Gone, Delete, runVars

LEMMA MineStep ==
  ASSUME TypeOK, Lists, Places, Mine, [Next]_vars
  PROVE  Mine'
<1>1. ASSUME NEW a \in Algorithms, Start(a)
      PROVE  Mine'
  <2>1. Gone' = {} /\ tmp' \subseteq snaps'
    BY <1>1, PlanFromList DEF Start, Gone, Lists
  <2> QED BY <1>1, <2>1 DEF Start, Mine
<1>2. CASE Compare
  <2> SUFFICES ASSUME quiet'
               PROVE  tmp' \subseteq snaps' /\ Gone' = {}
    BY <1>2 DEF Compare, Mine
  <2>1. Gone = {} /\ tmp \subseteq snaps /\ snaps' = snaps /\ seen' = seen
    BY <1>2 DEF Compare, runVars, Mine
  <2>2. seen \subseteq snaps /\ pairs \subseteq seen
    BY <2>1 DEF Gone, TypeOK
  <2>3. \A p \in pairs : FindPost(seen, p) \subseteq seen
    BY DEF FindPost
  <2> QED BY <1>2, <2>1, <2>2, <2>3 DEF Compare, Gone
<1>3. CASE Compared
  <2> SUFFICES ASSUME quiet'
               PROVE  tmp' \subseteq snaps'
    BY <1>3 DEF Compared, Mine, Places
  <2>1. Gone = {} /\ tmp \subseteq snaps
    BY <1>3 DEF Compared, Mine
  <2> QED BY <1>3, <2>1 DEF Compared, Filter1, Filter2
<1>4. CASE Delete
  <2> SUFFICES ASSUME quiet'
               PROVE  tmp' \subseteq snaps' /\ Gone' \cup tmp' = Gone \cup tmp
    BY <1>4 DEF Delete, runVars, Mine
  <2>1. tmp \subseteq snaps
    BY <1>4 DEF Delete, Mine
  <2> QED BY <1>4, <2>1, Deletion
<1>5. CASE Exit
  <2>1. quiet' = quiet /\ Gone' = Gone /\ tmp' = {} /\ pc' = "ended" /\ algo' = algo /\ seen' = seen /\ at' = at
    BY <1>5 DEF Exit, Gone
  <2>2. pc \in {"compare", "delete"}
    BY <1>5 DEF Exit
  <2> QED BY <2>1, <2>2 DEF Mine, Places
<1>6. CASE Reaped
  <2>1. tmp' = {} /\ pc' = "idle"
    BY <1>6 DEF Reaped, Places
  <2> QED BY <2>1 DEF Mine
<1>7. CASE Tick
  BY <1>7 DEF Tick, runVars, Mine, Gone
<1>8. ASSUME NEW kind \in Kind, OtherCreates(kind)
      PROVE  Mine'
  <2>1. snaps \subseteq snaps'
    BY <1>8 DEF OtherCreates
  <2>2. Gone' \subseteq Gone
    BY <1>8, <2>1 DEF OtherCreates, runVars, Gone
  <2> QED BY <1>8, <2>1, <2>2 DEF OtherCreates, runVars, Mine
<1>9. CASE OtherDeletes
  BY <1>9 DEF OtherDeletes, Mine
<1>10. CASE UNCHANGED vars
  BY <1>10 DEF vars, runVars, Mine, Gone
<1> QED
  BY <1>1, <1>2, <1>3, <1>4, <1>5, <1>6, <1>7, <1>8, <1>9, <1>10 DEF Next, Process

LEMMA WholeStep ==
  ASSUME Aged, TypeOK, Lists, Places, Mine, Whole, [Next]_vars
  PROVE  Whole'
<1>0. \A s \in seen \cup snaps, t \in Nat : s.date + MinAge <= t => s.date < t
  <2>1. \A s \in seen \cup snaps : s.date \in Nat
    BY SnapshotType DEF TypeOK
  <2>2. MinAge \in Nat /\ MinAge > 0
    BY CleanupConstants DEF Aged
  <2> QED BY <2>1, <2>2
<1>1. ASSUME NEW a \in Algorithms, Start(a)
      PROVE  Whole'
  <2>1. Gone' = {} /\ result' = "none" /\ seen' = snaps /\ at' = now /\ algo' = a
    BY <1>1 DEF Start, Gone
  <2>2. a = "empty-pre-post" => pc' = "compare"
    BY <1>1 DEF Start
  <2>3. CASE a # "empty-pre-post"
    <3>1. tmp' = Plan(a, snaps, now)
      BY <1>1, <2>3 DEF Start
    <3>2. Listing(snaps) /\ Plan(a, snaps, now) = Filter2(snaps, Filter1(Picked(a, snaps), now))
      BY PlanFromList DEF Lists
    <3>3. Filter1(Picked(a, snaps), now) \subseteq snaps
      BY <3>2, PickedFromList DEF Filter1
    <3>4. Closed(snaps, Plan(a, snaps, now))
      BY <3>2, <3>3, Filter2Closed
    <3>5. \A s \in Plan(a, snaps, now) : s \in snaps /\ s.date + MinAge <= now
      BY <3>2, <3>3 DEF Filter1, Filter2
    <3>6. \A s \in Plan(a, snaps, now) : s.date < now
      BY <1>0, <3>5, Clock
    <3> QED BY <2>1, <3>1, <3>4, <3>6 DEF Whole
  <2> QED BY <2>2, <2>3 DEF Whole
<1>2. CASE Compare
  BY <1>2 DEF Compare, Whole
<1>3. CASE Compared
  <2> SUFFICES ASSUME quiet'
               PROVE  (\A s \in tmp' : s.date < now) /\ Closed(seen, tmp') /\ Gone' = {}
    BY <1>3 DEF Compared, Whole, Places
  <2>1. Gone = {} /\ tmp \subseteq snaps /\ tmp \subseteq seen /\ Listing(seen)
    BY <1>3 DEF Compared, Mine, TypeOK, Lists
  <2>2. tmp' = Filter2(seen, Filter1(tmp, now)) /\ Gone' = Gone
    BY <1>3 DEF Compared, Gone
  <2>3. Filter1(tmp, now) \subseteq seen
    BY <2>1 DEF Filter1
  <2>4. \A s \in tmp' : s.date < now
    <3>1. \A s \in tmp' : s \in seen /\ s.date + MinAge <= now
      BY <2>1, <2>2 DEF Filter1, Filter2
    <3> QED BY <1>0, <3>1, Clock
  <2> QED BY <2>1, <2>2, <2>3, <2>4, Filter2Closed
<1>4. CASE Delete
  <2> SUFFICES ASSUME quiet'
               PROVE  Gone' \cup tmp' = Gone \cup tmp
    BY <1>4 DEF Delete, runVars, Whole
  <2>1. tmp \subseteq snaps
    BY <1>4 DEF Delete, Mine
  <2> QED BY <1>4, <2>1, Deletion
<1>5. CASE Exit
  <2>1. quiet' = quiet /\ Gone' = Gone /\ tmp' = {} /\ pc' = "ended" /\ algo' = algo /\ seen' = seen /\ at' = at
    BY <1>5 DEF Exit, Gone
  <2>2. CASE pc = "delete" /\ tmp = {}
    <3>1. result # "failed"
      BY <2>2 DEF Places
    <3> QED BY <2>1, <2>2, <3>1 DEF Whole
  <2>3. CASE pc = "delete" /\ result' = "failed"
    BY <2>1, <2>3 DEF Whole
  <2>4. CASE pc = "compare" /\ result' = "failed"
    BY <2>1, <2>4 DEF Whole, Mine
  <2> QED BY <1>5, <2>2, <2>3, <2>4 DEF Exit
<1>6. CASE Reaped
  BY <1>6 DEF Reaped, Whole
<1>7. CASE Tick
  BY <1>7 DEF Tick, runVars, Whole, Gone
<1>8. ASSUME NEW kind \in Kind, OtherCreates(kind)
      PROVE  Whole'
  <2> SUFFICES ASSUME quiet', pc' \in {"delete", "ended"}
               PROVE  Gone' = Gone
    BY <1>8 DEF OtherCreates, runVars, Whole
  <2>1. PICK s : snaps' = snaps \cup {s} /\ s.date = now
    BY <1>8, Created
  <2>2. at <= now /\ at \in Nat /\ now \in Nat
    BY Clock
  <2>3. \A t \in Gone : t.date < at
    BY <1>8 DEF OtherCreates, runVars, Whole
  <2>4. s \notin Gone
    BY <2>1, <2>2, <2>3
  <2> QED BY <1>8, <2>1, <2>4 DEF OtherCreates, runVars, Gone
<1>9. CASE OtherDeletes
  BY <1>9 DEF OtherDeletes, Whole
<1>10. CASE UNCHANGED vars
  BY <1>10 DEF vars, runVars, Whole, Gone
<1> QED
  BY <1>1, <1>2, <1>3, <1>4, <1>5, <1>6, <1>7, <1>8, <1>9, <1>10 DEF Next, Process

-----------------------------------------------------------------------------
(* The theorems                                                            *)

LEMMA CleanupInit ==
  ASSUME Init
  PROVE  TypeOK /\ Lists /\ Places /\ Mine /\ Whole
<1>1. 0 \in 0..MaxTime /\ 0 \in 0..0 /\ Cardinality(Num) \in Nat /\ 0 \in 0..Cardinality(Num)
  <2>1. MaxTime \in Nat /\ IsFiniteSet(Num)
    BY CleanupConstants
  <2>2. Cardinality(Num) \in Nat
    BY <2>1, FS_CardinalityType
  <2> QED BY <2>1, <2>2
<1>2. TypeOK
  BY <1>1 DEF Init, TypeOK
<1>3. Lists
  BY DEF Init, Lists, Listing, Unique, Ordered, OnePost
<1>4. Places
  BY <1>1, FS_EmptySet DEF Init, Places
<1>5. Mine /\ Whole
  BY DEF Init, Mine, Whole
<1> QED BY <1>2, <1>3, <1>4, <1>5

LEMMA CleanupInvariant == Spec => []CleanupInv
<1>1. Init => CleanupInv
  BY CleanupInit DEF CleanupInv
<1>2. CleanupInv /\ [Next]_vars => CleanupInv'
  BY TypeOKStep, ListsStep, PlacesStep, MineStep DEF CleanupInv
<1> QED BY <1>1, <1>2, PTL DEF Spec

LEMMA WholeInvariant ==
  ASSUME Aged
  PROVE  Spec => []Whole
<1>1. Init => Whole
  BY CleanupInit
<1>2. CleanupInv /\ Whole /\ [Next]_vars => Whole'
  BY WholeStep DEF CleanupInv
<1> QED BY <1>1, <1>2, CleanupInvariant, PTL DEF Spec

(* Every variable has its type: in particular the process picks nothing    *)
(* that it was not sent, and has no more comparisons in the daemon than    *)
(* there are numbers.                                                      *)
THEOREM CleanupTypes == Spec => []TypeOK
<1>1. CleanupInv => TypeOK
  BY DEF CleanupInv
<1> QED BY <1>1, CleanupInvariant, PTL

(* do_cleanup_number never deletes one of the newest NUMBER_LIMIT entries, *)
(* one with another algorithm or one younger than NUMBER_MIN_AGE, for any  *)
(* list and any limits, whatever is created or refused meanwhile.          *)
THEOREM NumberSparesThem == Spec => []NumberSpares
<1>1. CleanupInv => NumberSpares
  <2> SUFFICES ASSUME CleanupInv, algo = "number", quiet, NEW s \in seen, Spared(s), s \in Gone
               PROVE  FALSE
    BY DEF NumberSpares, Gone
  <2>1. pc \in {"delete", "ended"}
    BY DEF CleanupInv, TypeOK, Places
  <2>2. s \in Plan(algo, seen, at) /\ Listing(seen)
    BY <2>1 DEF CleanupInv, Mine, Lists
  <2>3. s \in Surplus(seen) /\ s.date + MinAge <= at
    BY <2>2 DEF Plan, Filter1, Filter2
  <2>4. s \notin Newest(With(seen, "number"), Limit) /\ s.cleanup = "number"
    <3> DEFINE A == {t \in With(seen, "number") : t.num > s.num}
    <3>1. A \in SUBSET seen
      BY DEF With
    <3>2. Cardinality(A) \in Nat
      <4> HIDE DEF A
      <4> QED BY <2>2, <3>1, ListFinite, FS_Subset, FS_CardinalityType DEF Listing
    <3>3. Cardinality(A) >= Limit /\ Limit \in Nat /\ s.cleanup = "number"
      BY <2>3, CleanupConstants DEF Surplus, With
    <3>4. ~(Cardinality(A) < Limit)
      <4> HIDE DEF A
      <4> QED BY <3>2, <3>3
    <3> QED BY <3>3, <3>4 DEF Newest
  <2>5. s.date \in Nat /\ MinAge \in Nat /\ at \in Nat
    BY SnapshotType, Clock DEF CleanupInv, TypeOK
  <2> QED BY <2>3, <2>4, <2>5 DEF Spared
<1> QED BY <1>1, CleanupInvariant, PTL

(* do_cleanup_timeline keeps the first entries of the last TIMELINE_LIMIT  *)
(* hours, days, months and years that have one, for any calendar, limits   *)
(* and list of snapshots.                                                  *)
THEOREM TimelineKeepsThem == Spec => []TimelineKeeps
<1>1. CleanupInv => TimelineKeeps
  <2> DEFINE T == With(seen, "timeline")
  <2> SUFFICES ASSUME CleanupInv, algo = "timeline", quiet, NEW u \in 1..4,
                      NEW s \in Newest(FirstOf(T, u), UnitLimit[u]), s \in Gone
               PROVE  FALSE
    BY DEF TimelineKeeps, Gone, Newest, FirstOf, With
  <2>1. pc \in {"delete", "ended"}
    BY DEF CleanupInv, TypeOK, Places, Gone
  <2>2. s \in Plan(algo, seen, at) /\ Listing(seen)
    BY <2>1 DEF CleanupInv, Mine, Lists
  <2>3. s \in Scan(T)
    BY <2>2 DEF Plan, Filter1, Filter2, Outdated
  <2>4. Listing(T)
    BY <2>2, PartOfList DEF With
  <2> HIDE DEF T
  <2> QED BY <2>3, <2>4, ScanKeepsFirsts DEF Listing
<1> QED BY <1>1, CleanupInvariant, PTL

(* filter2 over the DeleteSnapshots calls of a whole run: of a run that is *)
(* not refused every pair of its list is deleted whole or left whole, if   *)
(* the minimum age is above 0.                                             *)
THEOREM PairsStayWhole ==
  ASSUME Aged
  PROVE  Spec => []PairsWhole
<1>1. CleanupInv /\ Whole => PairsWhole
  <2> SUFFICES ASSUME CleanupInv, Whole, result = "done", quiet, NEW s \in seen,
                      NEW t \in Partner(seen, s)
               PROVE  s \in snaps <=> t \in snaps
    BY DEF PairsWhole
  <2>1. pc = "ended" /\ tmp = {} /\ Listing(seen)
    BY DEF CleanupInv, Places, Lists
  <2>2. Closed(seen, Gone)
    BY <2>1 DEF Whole
  <2>3. t \in seen
    BY DEF Partner, FindPost, FindPre
  <2>4. s \in Partner(seen, t)
    BY <2>1, <2>3 DEF Partner, FindPost, FindPre, Listing, Snapshot
  <2> QED BY <2>2, <2>3, <2>4 DEF Closed, Gone
<1> QED BY <1>1, CleanupInvariant, WholeInvariant, PTL

(* What a completed run of do_cleanup_timeline leaves of the old entries   *)
(* that are in no pair is no more than the limits together.                *)
THEOREM TimelineIsBounded ==
  ASSUME Aged
  PROVE  Spec => []TimelineBounded
<1>1. CleanupInv /\ Whole => TimelineBounded
  <2> DEFINE T == With(seen, "timeline")
             X == {s \in seen \cap snaps : /\ s.cleanup = "timeline" /\ Partner(seen, s) = {}
                                           /\ s.date + MinAge <= at}
  <2> SUFFICES ASSUME CleanupInv, Whole, result = "done", quiet, algo = "timeline"
               PROVE  Cardinality(X) <= Limits
    BY DEF TimelineBounded, Limits
  <2>1. pc = "ended" /\ tmp = {} /\ Listing(seen)
    BY DEF CleanupInv, Places, Lists
  <2>2. Filter2(seen, Filter1(Scan(T), at)) \subseteq Gone
    BY <2>1 DEF Whole, Plan, Outdated
  <2>3. \A s \in X : s \in T /\ s \notin Scan(T)
    BY <2>2 DEF With, Filter1, Filter2, Gone
  <2>4. X \in SUBSET (T \ Scan(T))
    BY <2>3
  <2>5. T \in SUBSET Snapshot /\ Unique(T)
    BY <2>1, PartOfList DEF With, Listing
  <2> HIDE DEF X, T
  <2>6. T \ Scan(T) \in SUBSET T
    OBVIOUS
  <2>7. IsFiniteSet(T \ Scan(T)) /\ Cardinality(T \ Scan(T)) <= Limits
    BY <2>5, <2>6, ListFinite, FS_Subset, ScanLeavesLimits
  <2>8. Cardinality(X) <= Cardinality(T \ Scan(T)) /\ Cardinality(X) \in Nat /\ Cardinality(T \ Scan(T)) \in Nat
    BY <2>4, <2>7, FS_Subset, FS_CardinalityType
  <2>9. Limits \in Nat
    <3>1. UnitLimit \in [1..4 -> Nat]
      BY CleanupConstants
    <3>2. \A u \in 1..4 : UnitLimit[u] \in Nat
      BY <3>1
    <3>3. UnitLimit[1] \in Nat /\ UnitLimit[2] \in Nat /\ UnitLimit[3] \in Nat /\ UnitLimit[4] \in Nat
      BY <3>2
    <3> QED BY <3>3 DEF Limits
  <2> QED BY <2>7, <2>8, <2>9
<1> QED BY <1>1, CleanupInvariant, WholeInvariant, PTL

(* A second run of the number or the timeline algorithm at the same time   *)
(* would delete nothing, for any list, calendar and limits.                *)
THEOREM RunsAreIdempotent ==
  ASSUME Aged
  PROVE  Spec => []Idempotent
<1>1. CleanupInv /\ Whole => Idempotent
  <2> SUFFICES ASSUME CleanupInv, Whole, result = "done", quiet, algo # "empty-pre-post"
               PROVE  Plan(algo, seen \cap snaps, at) = {}
    BY DEF Idempotent
  <2>1. pc = "ended" /\ tmp = {} /\ Listing(seen)
    BY DEF CleanupInv, Places, Lists
  <2>2. Plan(algo, seen, at) = Gone
    BY <2>1 DEF Whole, CleanupInv, Mine
  <2>3. seen \cap snaps = seen \ Plan(algo, seen, at)
    BY <2>2 DEF Gone
  <2> QED BY <2>1, <2>3, PlanAgain
<1> QED BY <1>1, CleanupInvariant, WholeInvariant, PTL

=============================================================================
