-------------------------- MODULE SendStreamProofs --------------------------
(***************************************************************************)
(* What the StreamProcessor collects from the commands of btrfs send is    *)
(* what a comparison directory by directory gives, proved for all          *)
(* snapshots that Followable allows and whatever commands the kernel       *)
(* chooses; and so the undo of a whole list leads back to the first        *)
(* snapshot, wherever the list came from.                                  *)
(***************************************************************************)
EXTENDS UndoProofs

-----------------------------------------------------------------------------
(* What the names of the StreamProcessor say: of all the names in the      *)
(* first tree and in what the commands have made of it, those in one of    *)
(* them are known and flagged so, no others are known but with what is     *)
(* above them, and of those in both the changed ones have flags.           *)

Closed(P) == \A p \in P : \A q \in Somewhere : IsPrefix(q, p) => q \in P
Only == {"CREATED", "DELETED"}
Tracks(f, old, now, hot) ==
  /\ Closed(DOMAIN f) /\ DOMAIN f \subseteq old \cup now
  /\ \A q \in old \ now : q \in DOMAIN f /\ f[q] = {"DELETED"}
  /\ \A q \in now \ old : q \in DOMAIN f /\ "CREATED" \in f[q] /\ "DELETED" \notin f[q]
  /\ \A q \in old \cap now : q \in DOMAIN f => f[q] \cap Only = {}
  /\ \A q \in hot : q \in old \cap now => q \in DOMAIN f /\ f[q] # {}

LEMMA ChainMeans ==
  ASSUME NEW p \in Somewhere
  PROVE  \A q : q \in Chain(p) <=> q \in Somewhere /\ IsPrefix(q, p)
<1>1. p \in Seq(Nat) /\ Len(p) \in Nat
  BY LenProperties DEF Somewhere
<1>2. ASSUME NEW q \in Chain(p)
      PROVE  q \in Somewhere /\ IsPrefix(q, p)
  <2>1. q # <<>> /\ \E n \in 0..Len(p) : q = SubSeq(p, 1, n)
    BY DEF Chain, Prefixes
  <2>2. PICK n \in 0..Len(p) : q = SubSeq(p, 1, n)
    BY <2>1
  <2>3. q \in Seq(Nat)
    BY <1>1, <2>2, UpTo
  <2>4. IsPrefix(q, p)
    BY <1>1, <2>2, PrefixIsSubSeq
  <2> QED BY <2>1, <2>3, <2>4 DEF Somewhere
<1>3. ASSUME NEW q \in Somewhere, IsPrefix(q, p)
      PROVE  q \in Chain(p)
  <2>1. q \in Seq(Nat) /\ q # <<>> /\ Len(q) \in Nat
    BY LenProperties DEF Somewhere
  <2>2. Len(q) \in 0..Len(p)
    BY <1>1, <1>3, <2>1, PrefixOrder
  <2>3. q = SubSeq(p, 1, Len(q))
    BY <1>1, <1>3, <2>1, <2>2, PrefixIsSubSeq
  <2>4. q \in Prefixes(p)
    BY <2>2, <2>3 DEF Prefixes
  <2> QED BY <2>1, <2>4 DEF Chain
<1> QED BY <1>2, <1>3

LEMMA PrefixesOf ==
  ASSUME NEW p \in Somewhere
  PROVE  /\ IsPrefix(p, p) /\ p \in Chain(p) /\ Chain(p) \subseteq Somewhere
         /\ \A q \in Chain(p) : \A r \in Somewhere : IsPrefix(r, q) => r \in Chain(p)
         /\ \A q \in Chain(p) : q = p \/ IsStrictPrefix(q, p)
<1>1. p \in Seq(Nat) /\ \A q \in Somewhere : q \in Seq(Nat)
  BY DEF Somewhere
<1>2. IsPrefix(p, p)
  BY <1>1, PrefixOrder
<1>3. ASSUME NEW q \in Chain(p), NEW r \in Somewhere, IsPrefix(r, q)
      PROVE  r \in Chain(p)
  <2>1. q \in Somewhere /\ IsPrefix(q, p)
    BY ChainMeans
  <2>2. IsPrefix(r, p)
    BY <1>1, <1>3, <2>1, PrefixOrder
  <2> QED BY <2>2, ChainMeans
<1>4. \A q \in Chain(p) : q = p \/ IsStrictPrefix(q, p)
  BY ChainMeans DEF IsStrictPrefix
<1> QED BY <1>2, <1>3, <1>4, ChainMeans

(* What is put into a tree of names keeps it closed.                       *)
LEMMA PutIsClosed ==
  ASSUME NEW f, Closed(DOMAIN f), NEW p \in Somewhere, NEW status, NEW g, g = PutFlags(f, p, status)
  PROVE  /\ Closed(DOMAIN g) /\ DOMAIN g = DOMAIN f \cup Chain(p) /\ g[p] = status
         /\ \A q \in DOMAIN f : q # p => g[q] = f[q]
         /\ \A q \in Chain(p) : q # p /\ q \notin DOMAIN f => g[q] = {}
<1>1. DOMAIN g = DOMAIN f \cup Chain(p) /\ p \in Chain(p)
  BY PrefixesOf DEF PutFlags
<1>2. Closed(DOMAIN g)
  BY <1>1, PrefixesOf DEF Closed
<1> QED BY <1>1, <1>2 DEF PutFlags

LEMMA TracksCreated ==
  ASSUME NEW f, NEW old, NEW now, NEW hot, Tracks(f, old, now, hot),
         NEW p \in Somewhere, p \notin now, \A q \in Somewhere : IsStrictPrefix(q, p) => q \in now
  PROVE  Tracks(Created(f, p), old, now \cup {p}, hot \cup {p})
<1> DEFINE g == Created(f, p)
           new == now \cup {p}
<1> SUFFICES Tracks(g, old, new, hot \cup {p})
  OBVIOUS
<1>0. Closed(DOMAIN f)
  BY DEF Tracks
<1>1. CASE p \in DOMAIN f
  <2>1. g = [f EXCEPT ![p] = (@ \ {"CREATED", "DELETED"}) \cup Touched]
    BY <1>1 DEF Created, Retouch
  <2>2. DOMAIN g = DOMAIN f /\ \A q \in DOMAIN f : q # p => g[q] = f[q]
    BY <2>1
  <2>3. g[p] \cap Only = {} /\ g[p] # {}
    BY <1>1, <2>1 DEF Only, Touched
  <2>4. p \in old
    BY <1>1 DEF Tracks
  <2> HIDE DEF g
  <2> QED BY <1>1, <2>2, <2>3, <2>4 DEF Tracks
<1>2. CASE p \notin DOMAIN f
  <2>1. g = PutFlags(f, p, {"CREATED"})
    BY <1>2 DEF Created
  <2> HIDE DEF g
  <2>2. /\ Closed(DOMAIN g) /\ DOMAIN g = DOMAIN f \cup Chain(p) /\ g[p] = {"CREATED"}
        /\ \A q \in DOMAIN f : q # p => g[q] = f[q]
        /\ \A q \in Chain(p) : q # p /\ q \notin DOMAIN f => g[q] = {}
    BY <1>0, <2>1, PutIsClosed
  <2>3. p \notin old
    BY <1>2 DEF Tracks
  <2>4. \A q \in Chain(p) : q # p => q \in now
    BY PrefixesOf
  <2>5. \A q \in Chain(p) : q # p /\ q \notin DOMAIN f => q \in now \cap old
    BY <2>4 DEF Tracks
  <2>6. DOMAIN g \subseteq old \cup new
    BY <2>2, <2>4 DEF Tracks
  <2>7. \A q \in old \ new : q \in DOMAIN g /\ g[q] = {"DELETED"}
    BY <2>2 DEF Tracks
  <2>8. \A q \in new \ old : q \in DOMAIN g /\ "CREATED" \in g[q] /\ "DELETED" \notin g[q]
    BY <2>2, PrefixesOf DEF Tracks
  <2>9. \A q \in old \cap new : q \in DOMAIN g => g[q] \cap Only = {}
    BY <2>2, <2>3, <2>5 DEF Tracks
  <2>10. \A q \in hot \cup {p} : q \in old \cap new => q \in DOMAIN g /\ g[q] # {}
    BY <2>2, <2>3, <2>5 DEF Tracks
  <2> QED BY <2>2, <2>6, <2>7, <2>8, <2>9, <2>10 DEF Tracks
<1> QED BY <1>1, <1>2

LEMMA TracksDeleted ==
  ASSUME NEW f, NEW old, NEW now, NEW hot, Tracks(f, old, now, hot), Closed(old),
         NEW p \in Somewhere, p \notin DOMAIN f, p \in old
  PROVE  Tracks(Deleted(f, p), old, now \ {p}, hot)
<1> DEFINE g == Deleted(f, p)
           new == now \ {p}
<1> SUFFICES Tracks(g, old, new, hot)
  OBVIOUS
<1>0. Closed(DOMAIN f)
  BY DEF Tracks
<1>1. g = PutFlags(f, p, {"DELETED"})
  BY DEF Deleted
<1> HIDE DEF g
<1>2. /\ Closed(DOMAIN g) /\ DOMAIN g = DOMAIN f \cup Chain(p) /\ g[p] = {"DELETED"}
      /\ \A q \in DOMAIN f : q # p => g[q] = f[q]
      /\ \A q \in Chain(p) : q # p /\ q \notin DOMAIN f => g[q] = {}
  <2>1. Closed(DOMAIN g) /\ DOMAIN g = DOMAIN f \cup Chain(p)
    BY <1>0, <1>1, PutIsClosed
  <2>2. g[p] = {"DELETED"}
    BY <1>1, PrefixesOf DEF PutFlags
  <2>3. \A q \in DOMAIN f : q # p => g[q] = f[q]
    BY <1>1 DEF PutFlags
  <2>4. \A q \in Chain(p) : q # p /\ q \notin DOMAIN f => g[q] = {}
    BY <1>0, <1>1, PutIsClosed
  <2> QED BY <2>1, <2>2, <2>3, <2>4
<1>3. p \in now
  BY DEF Tracks
<1>4. \A q \in Chain(p) : q \in old
  BY ChainMeans DEF Closed
<1>5. \A q \in Chain(p) : q # p /\ q \notin DOMAIN f => q \in now \cap old
  BY <1>4 DEF Tracks
<1>6. DOMAIN g \subseteq old \cup new
  BY <1>2, <1>4 DEF Tracks
<1>7. \A q \in old \ new : q \in DOMAIN g /\ g[q] = {"DELETED"}
  BY <1>2, PrefixesOf DEF Tracks
<1>8. \A q \in new \ old : q \in DOMAIN g /\ "CREATED" \in g[q] /\ "DELETED" \notin g[q]
  BY <1>2 DEF Tracks
<1>9. \A q \in old \cap new : q \in DOMAIN g => g[q] \cap Only = {}
  BY <1>2, <1>5 DEF Tracks
<1>10. \A q \in hot : q \in old \cap new => q \in DOMAIN g /\ g[q] # {}
  BY <1>2, <1>5 DEF Tracks
<1> QED BY <1>2, <1>6, <1>7, <1>8, <1>9, <1>10 DEF Tracks

(* Without its name goes what is above it for its sake only.               *)
LEMMA EraseMeans ==
  ASSUME NEW f, Closed(DOMAIN f), DOMAIN f \subseteq Somewhere, NEW p \in DOMAIN f, Childs(f, p) = {},
         NEW g, g = Erase(f, p)
  PROVE  /\ Closed(DOMAIN g) /\ DOMAIN g \subseteq DOMAIN f \ {p} /\ \A q \in DOMAIN g : g[q] = f[q]
         /\ \A q \in DOMAIN f \ DOMAIN g : q # p => f[q] = {}
<1> DEFINE above == {q \in Chain(p) \ {p} :
                       \A r \in Childs(f, q) \cup {q} : IsPrefix(r, p) /\ (r # p => f[r] = {})}
           D == DOMAIN f \ (above \cup {p})
<1>1. g = Restrict(f, D)
  BY DEF Erase
<1>2. DOMAIN g = D /\ \A q \in D : g[q] = f[q]
  BY <1>1 DEF Restrict
<1>3. \A q \in above : f[q] = {}
  OBVIOUS
<1>4. ASSUME NEW r \in D, NEW q \in Somewhere, IsPrefix(q, r)
      PROVE  q \in D
  <2>1. q \in DOMAIN f /\ r \in DOMAIN f /\ r # p
    BY <1>4 DEF Closed
  <2>2. q = r \/ r \in Childs(f, q)
    BY <1>4, <2>1 DEF Childs, IsStrictPrefix
  <2>3. q # p
    BY <2>1, <2>2
  <2>4. ASSUME q \in above, q # r
        PROVE  FALSE
    <3>1. r \in Childs(f, q) /\ IsPrefix(r, p) /\ f[r] = {}
      BY <2>1, <2>2, <2>4
    <3>2. r \in Chain(p) \ {p}
      BY <2>1, <3>1, ChainMeans
    <3>3. \A s \in Childs(f, r) : s \in Childs(f, q)
      <4> TAKE s \in Childs(f, r)
      <4>1. s \in DOMAIN f /\ IsPrefix(r, s) /\ r # s /\ IsPrefix(q, r) /\ q # r
        BY <1>4, <2>4 DEF Childs, IsStrictPrefix
      <4>2. s \in Seq(Nat) /\ r \in Seq(Nat) /\ q \in Seq(Nat)
        BY <2>1, <4>1 DEF Somewhere
      <4>3. IsPrefix(q, s)
        BY <4>1, <4>2, PrefixOrder
      <4>4. q # s
        BY <4>1, <4>2, PrefixOrder
      <4> QED BY <4>1, <4>3, <4>4 DEF Childs, IsStrictPrefix
    <3>4. r \in above
      BY <2>4, <3>1, <3>2, <3>3
    <3> QED BY <3>4
  <2> QED BY <2>1, <2>3, <2>4
<1> HIDE DEF above
<1>5. Closed(DOMAIN g)
  BY <1>2, <1>4 DEF Closed
<1>6. \A q \in DOMAIN f \ D : q # p => q \in above
  OBVIOUS
<1> QED BY <1>2, <1>3, <1>5, <1>6

LEMMA TracksErased ==
  ASSUME NEW f, NEW old, NEW now, NEW hot, Tracks(f, old, now, hot), DOMAIN f \subseteq Somewhere,
         NEW p \in DOMAIN f, p \notin old, Childs(f, p) = {}
  PROVE  Tracks(Erase(f, p), old, now \ {p}, hot)
<1> DEFINE g == Erase(f, p)
           new == now \ {p}
<1> SUFFICES Tracks(g, old, new, hot)
  OBVIOUS
<1>1. /\ Closed(DOMAIN g) /\ DOMAIN g \subseteq DOMAIN f \ {p} /\ \A q \in DOMAIN g : g[q] = f[q]
      /\ \A q \in DOMAIN f \ DOMAIN g : q # p => f[q] = {}
  BY EraseMeans DEF Tracks
<1> HIDE DEF g
<1>2. DOMAIN g \subseteq old \cup new
  BY <1>1 DEF Tracks
<1>3. \A q \in old \ new : q \in DOMAIN g /\ g[q] = {"DELETED"}
  BY <1>1 DEF Tracks
<1>4. \A q \in new \ old : q \in DOMAIN g /\ "CREATED" \in g[q] /\ "DELETED" \notin g[q]
  BY <1>1 DEF Tracks
<1>5. \A q \in old \cap new : q \in DOMAIN g => g[q] \cap Only = {}
  BY <1>1 DEF Tracks
<1>6. \A q \in hot : q \in old \cap new => q \in DOMAIN g /\ g[q] # {}
  BY <1>1 DEF Tracks
<1> QED BY <1>1, <1>2, <1>3, <1>4, <1>5, <1>6 DEF Tracks

LEMMA TracksChanged ==
  ASSUME NEW f, NEW old, NEW now, NEW hot, Tracks(f, old, now, hot),
         NEW p \in Somewhere, p \in now, \A q \in Somewhere : IsStrictPrefix(q, p) => q \in now,
         NEW status, status \cap Only = {},
         NEW new, new \subseteq hot \cup {p}, status = {} => new \subseteq hot
  PROVE  Tracks(AddFlags(f, p, status), old, now, new)
<1> DEFINE was == IF p \in DOMAIN f THEN f[p] ELSE {}
           g == AddFlags(f, p, status)
<1> SUFFICES Tracks(g, old, now, new)
  OBVIOUS
<1>0. Closed(DOMAIN f)
  BY DEF Tracks
<1>1. Insert(f, p)[p] = was
  <2>1. PutFlags(f, p, {})[p] = {}
    BY PrefixesOf DEF PutFlags
  <2> QED BY <2>1 DEF Insert
<1>2. g = PutFlags(f, p, was \cup status)
  BY <1>1 DEF AddFlags
<1>3. was # {} => p \in DOMAIN f /\ was = f[p]
  OBVIOUS
<1>4. p \in DOMAIN f => was = f[p]
  OBVIOUS
<1> HIDE DEF g, was
<1>5. /\ Closed(DOMAIN g) /\ DOMAIN g = DOMAIN f \cup Chain(p) /\ g[p] = was \cup status
      /\ \A q \in DOMAIN f : q # p => g[q] = f[q]
      /\ \A q \in Chain(p) : q # p /\ q \notin DOMAIN f => g[q] = {}
  BY <1>0, <1>2, PutIsClosed
<1>6. \A q \in Chain(p) : q \in now
  BY PrefixesOf
<1>7. \A q \in Chain(p) : q \notin DOMAIN f => q \in now \cap old
  BY <1>6 DEF Tracks
<1>8. DOMAIN g \subseteq old \cup now
  BY <1>5, <1>6 DEF Tracks
<1>9. \A q \in old \ now : q \in DOMAIN g /\ g[q] = {"DELETED"}
  BY <1>5 DEF Tracks
<1>10. \A q \in now \ old : q \in DOMAIN g /\ "CREATED" \in g[q] /\ "DELETED" \notin g[q]
  <2> TAKE q \in now \ old
  <2>1. q \in DOMAIN f /\ "CREATED" \in f[q] /\ "DELETED" \notin f[q]
    BY DEF Tracks
  <2> QED BY <1>4, <1>5, <2>1 DEF Only
<1>11. \A q \in old \cap now : q \in DOMAIN g => g[q] \cap Only = {}
  <2> TAKE q \in old \cap now
  <2>1. q \in DOMAIN f => f[q] \cap Only = {}
    BY DEF Tracks
  <2>2. was \cap Only = {} \/ q # p
    BY <1>3, <2>1
  <2>3. q # p => (q \in DOMAIN g => g[q] \cap Only = {})
    BY <1>5, <2>1
  <2>4. q = p => g[q] \cap Only = {}
    BY <1>5, <2>2
  <2> QED BY <2>3, <2>4
<1>12. \A q \in new : q \in old \cap now => q \in DOMAIN g /\ g[q] # {}
  <2> TAKE q \in new
  <2> HAVE q \in old \cap now
  <2>1. CASE q \in hot
    <3>1. q \in DOMAIN f /\ f[q] # {}
      BY <2>1 DEF Tracks
    <3> QED BY <1>4, <1>5, <3>1
  <2>2. CASE q \notin hot
    <3>1. q = p /\ status # {}
      BY <2>2
    <3> QED BY <1>5, <3>1, PrefixesOf
  <2> QED BY <2>1, <2>2
<1> QED BY <1>5, <1>8, <1>9, <1>10, <1>11, <1>12 DEF Tracks

-----------------------------------------------------------------------------
(* The name of what was below o (or is o), with n in the place of o        *)
Swap(q, o, n) == n \o Rest(q, o)
Beside(o, n) == ~IsPrefix(o, n) /\ ~IsPrefix(n, o)

LEMMA Comparable ==
  ASSUME NEW s \in Seq(Nat), NEW t \in Seq(Nat), NEW u \in Seq(Nat), IsPrefix(s, u), IsPrefix(t, u)
  PROVE  IsPrefix(s, t) \/ IsPrefix(t, s)
<1>1. Len(s) \in Nat /\ Len(t) \in Nat
  BY LenProperties
<1>2. Len(s) <= Len(t) => IsPrefix(s, t)
  BY PrefixOrder
<1>3. Len(t) <= Len(s) => IsPrefix(t, s)
  BY PrefixOrder
<1> QED BY <1>1, <1>2, <1>3

LEMMA RestOf ==
  ASSUME NEW o \in Seq(Nat), NEW r \in Seq(Nat), IsPrefix(o, r)
  PROVE  /\ Rest(r, o) \in Seq(Nat) /\ Len(Rest(r, o)) = Len(r) - Len(o)
         /\ \A i \in 1..(Len(r) - Len(o)) : Rest(r, o)[i] = r[Len(o) + i]
<1>1. Len(o) \in Nat /\ Len(r) \in Nat /\ Len(o) <= Len(r)
  BY LenProperties, PrefixOrder
<1> DEFINE m == Len(o) + 1
           n == Len(r)
<1>2. m \in Int /\ n \in Int /\ \A i \in m..n : r[i] \in Nat
  BY <1>1, ElementOfSeq
<1>3. /\ SubSeq(r, m, n) \in Seq(Nat)
      /\ Len(SubSeq(r, m, n)) = IF m <= n THEN n - m + 1 ELSE 0
      /\ \A i \in 1..n - m + 1 : SubSeq(r, m, n)[i] = r[m + i - 1]
  BY <1>2, SubSeqProperties
<1>4. SubSeq(r, m, n) = Rest(r, o)
  BY DEF Rest
<1>5. Len(Rest(r, o)) = Len(r) - Len(o)
  BY <1>1, <1>3, <1>4
<1>6. ASSUME NEW i \in 1..(Len(r) - Len(o))
      PROVE  Rest(r, o)[i] = r[Len(o) + i]
  <2>1. i \in 1..n - m + 1 /\ m + i - 1 = Len(o) + i
    BY <1>1
  <2> QED BY <1>3, <1>4, <2>1
<1> QED BY <1>3, <1>4, <1>5, <1>6

LEMMA SwapOf ==
  ASSUME NEW o \in Seq(Nat), NEW n \in Seq(Nat), NEW q \in Seq(Nat), IsPrefix(o, q)
  PROVE  /\ Swap(q, o, n) \in Seq(Nat) /\ Len(Swap(q, o, n)) = Len(n) + Len(q) - Len(o)
         /\ \A i \in 1..Len(n) : Swap(q, o, n)[i] = n[i]
         /\ \A i \in 1..(Len(q) - Len(o)) : Swap(q, o, n)[Len(n) + i] = q[Len(o) + i]
         /\ IsPrefix(n, Swap(q, o, n))
<1> DEFINE r == Rest(q, o)
           s == Swap(q, o, n)
<1>1. Len(o) \in Nat /\ Len(n) \in Nat /\ Len(q) \in Nat /\ Len(o) <= Len(q)
  BY LenProperties, PrefixOrder
<1>2. r \in Seq(Nat) /\ Len(r) = Len(q) - Len(o) /\ \A i \in 1..(Len(q) - Len(o)) : r[i] = q[Len(o) + i]
  BY RestOf
<1>3. s = n \o r
  BY DEF Swap
<1> HIDE DEF r, s
<1>4. /\ s \in Seq(Nat) /\ Len(s) = Len(n) + Len(r)
      /\ \A i \in 1..Len(n) + Len(r) : s[i] = IF i <= Len(n) THEN n[i] ELSE r[i - Len(n)]
  BY <1>2, <1>3, ConcatProperties
<1>5. Len(s) = Len(n) + Len(q) - Len(o)
  BY <1>1, <1>2, <1>4
<1>6. ASSUME NEW i \in 1..Len(n)
      PROVE  s[i] = n[i]
  <2>1. i \in 1..Len(n) + Len(r) /\ i <= Len(n)
    BY <1>1, <1>2
  <2> QED BY <1>4, <2>1
<1>7. ASSUME NEW i \in 1..(Len(q) - Len(o))
      PROVE  s[Len(n) + i] = q[Len(o) + i]
  <2> DEFINE k == Len(n) + i
  <2>1. k \in 1..Len(n) + Len(r) /\ ~(k <= Len(n)) /\ k - Len(n) = i
    BY <1>1, <1>2
  <2> HIDE DEF k
  <2>2. s[k] = IF k <= Len(n) THEN n[k] ELSE r[k - Len(n)]
    BY <1>4, <2>1
  <2>3. s[k] = r[i]
    BY <2>1, <2>2
  <2>4. r[i] = q[Len(o) + i]
    BY <1>2, <1>7
  <2> QED BY <2>3, <2>4 DEF k
<1>8. IsPrefix(n, s)
  <2>1. Len(n) <= Len(s) /\ \A i \in 1..Len(n) : n[i] = s[i]
    BY <1>1, <1>5, <1>6
  <2> QED BY <1>4, <2>1, PrefixMeans
<1> QED BY <1>4, <1>5, <1>6, <1>7, <1>8 DEF s

Swaps(s, q, o, n) ==
  /\ s \in Seq(Nat) /\ Len(s) = Len(n) + Len(q) - Len(o)
  /\ \A i \in 1..Len(n) : s[i] = n[i]
  /\ \A i \in 1..(Len(q) - Len(o)) : s[Len(n) + i] = q[Len(o) + i]
  /\ IsPrefix(n, s)

LEMMA SwapDoes ==
  ASSUME NEW o \in Seq(Nat), NEW n \in Seq(Nat), NEW q \in Seq(Nat), IsPrefix(o, q)
  PROVE  Swaps(Swap(q, o, n), q, o, n)
<1> DEFINE s == Swap(q, o, n)
<1>1. /\ s \in Seq(Nat) /\ Len(s) = Len(n) + Len(q) - Len(o)
      /\ \A i \in 1..Len(n) : s[i] = n[i]
      /\ \A i \in 1..(Len(q) - Len(o)) : s[Len(n) + i] = q[Len(o) + i]
      /\ IsPrefix(n, s)
  BY SwapOf
<1> HIDE DEF s
<1> QED BY <1>1 DEF Swaps, s

LEMMA SwapBack ==
  ASSUME NEW o \in Seq(Nat), NEW n \in Seq(Nat), NEW q \in Seq(Nat), IsPrefix(o, q)
  PROVE  Swap(Swap(q, o, n), n, o) = q
<1> DEFINE s == Swap(q, o, n)
           t == Swap(s, n, o)
<1>1. Len(o) \in Nat /\ Len(n) \in Nat /\ Len(q) \in Nat /\ Len(o) <= Len(q)
  BY LenProperties, PrefixOrder
<1>2. /\ s \in Seq(Nat) /\ Len(s) = Len(n) + Len(q) - Len(o) /\ IsPrefix(n, s)
      /\ \A i \in 1..(Len(q) - Len(o)) : s[Len(n) + i] = q[Len(o) + i]
  <2>1. Swaps(s, q, o, n)
    BY SwapDoes
  <2> HIDE DEF s
  <2> QED BY <2>1 DEF Swaps
<1> HIDE DEF s
<1>3. /\ t \in Seq(Nat) /\ Len(t) = Len(o) + Len(s) - Len(n)
      /\ \A i \in 1..Len(o) : t[i] = o[i]
      /\ \A i \in 1..(Len(s) - Len(n)) : t[Len(o) + i] = s[Len(n) + i]
  <2>1. Swaps(t, s, n, o)
    BY <1>2, SwapDoes
  <2> HIDE DEF t
  <2> QED BY <2>1 DEF Swaps
<1> HIDE DEF t
<1>4. Len(t) = Len(q) /\ Len(s) - Len(n) = Len(q) - Len(o)
  BY <1>1, <1>2, <1>3
<1>5. \A i \in 1..Len(o) : q[i] = o[i]
  BY <1>1, PrefixMeans
<1>6. ASSUME NEW i \in 1..Len(q)
      PROVE  t[i] = q[i]
  <2>1. CASE i <= Len(o)
    BY <1>1, <1>3, <1>5, <2>1
  <2>2. CASE ~(i <= Len(o))
    <3> DEFINE j == i - Len(o)
    <3>1. j \in 1..(Len(q) - Len(o)) /\ i = Len(o) + j
      BY <1>1, <2>2
    <3> HIDE DEF j
    <3> QED BY <1>2, <1>3, <1>4, <3>1
  <2> QED BY <2>1, <2>2
<1>7. t = q
  BY <1>3, <1>4, <1>6, SeqEqual
<1> QED BY <1>7 DEF s, t

LEMMA SwapOrder ==
  ASSUME NEW o \in Seq(Nat), NEW n \in Seq(Nat), NEW q \in Seq(Nat), NEW r \in Seq(Nat), IsPrefix(o, q), IsPrefix(q, r)
  PROVE  IsPrefix(o, r) /\ IsPrefix(Swap(q, o, n), Swap(r, o, n))
<1> DEFINE s == Swap(q, o, n)
           t == Swap(r, o, n)
<1>1. Len(o) \in Nat /\ Len(n) \in Nat /\ Len(q) \in Nat /\ Len(r) \in Nat /\ Len(o) <= Len(q) /\ Len(q) <= Len(r)
  BY LenProperties, PrefixOrder
<1>2. IsPrefix(o, r)
  BY PrefixOrder
<1>3. /\ s \in Seq(Nat) /\ Len(s) = Len(n) + Len(q) - Len(o)
      /\ \A i \in 1..Len(n) : s[i] = n[i]
      /\ \A i \in 1..(Len(q) - Len(o)) : s[Len(n) + i] = q[Len(o) + i]
  <2>1. Swaps(s, q, o, n)
    BY SwapDoes
  <2> HIDE DEF s
  <2> QED BY <2>1 DEF Swaps
<1>4. /\ t \in Seq(Nat) /\ Len(t) = Len(n) + Len(r) - Len(o)
      /\ \A i \in 1..Len(n) : t[i] = n[i]
      /\ \A i \in 1..(Len(r) - Len(o)) : t[Len(n) + i] = r[Len(o) + i]
  <2>1. Swaps(t, r, o, n)
    BY <1>2, SwapDoes
  <2> HIDE DEF t
  <2> QED BY <2>1 DEF Swaps
<1> HIDE DEF s, t
<1>5. \A i \in 1..Len(q) : q[i] = r[i]
  BY <1>1, PrefixMeans
<1>6. ASSUME NEW i \in 1..Len(s)
      PROVE  s[i] = t[i]
  <2>1. CASE i <= Len(n)
    BY <1>1, <1>3, <1>4, <2>1
  <2>2. CASE ~(i <= Len(n))
    <3> DEFINE j == i - Len(n)
    <3>1. j \in 1..(Len(q) - Len(o)) /\ j \in 1..(Len(r) - Len(o)) /\ i = Len(n) + j /\ Len(o) + j \in 1..Len(q)
      BY <1>1, <1>3, <2>2
    <3> HIDE DEF j
    <3>2. s[i] = q[Len(o) + j] /\ t[i] = r[Len(o) + j]
      BY <1>3, <1>4, <3>1
    <3> QED BY <1>5, <3>1, <3>2
  <2> QED BY <2>1, <2>2
<1>7. Len(s) <= Len(t)
  BY <1>1, <1>3, <1>4
<1>8. IsPrefix(s, t)
  BY <1>3, <1>4, <1>6, <1>7, PrefixMeans
<1> QED BY <1>2, <1>8 DEF s, t

(* What the proofs use of swapped names                                    *)
LEMMA Swapped ==
  ASSUME NEW o \in Somewhere, NEW n \in Somewhere, Beside(o, n), NEW q \in Somewhere, IsPrefix(o, q)
  PROVE  /\ Swap(q, o, n) \in Somewhere /\ IsPrefix(n, Swap(q, o, n)) /\ ~IsPrefix(o, Swap(q, o, n))
         /\ Swap(Swap(q, o, n), n, o) = q /\ Swap(o, o, n) = n
<1>1. o \in Seq(Nat) /\ n \in Seq(Nat) /\ q \in Seq(Nat) /\ Len(n) \in Nat /\ Len(n) > 0
  BY LenProperties, EmptyPrefix DEF Somewhere
<1> DEFINE s == Swap(q, o, n)
<1>2. s \in Seq(Nat) /\ IsPrefix(n, s)
  BY <1>1, SwapOf
<1>3. Swap(s, n, o) = q
  BY <1>1, SwapBack
<1>4. Swap(o, o, n) = n
  <2>1. IsPrefix(o, o)
    BY <1>1, PrefixOrder
  <2> DEFINE u == Swap(o, o, n)
  <2>2. u \in Seq(Nat) /\ IsPrefix(n, u) /\ Len(u) = Len(n) + Len(o) - Len(o)
    BY <1>1, <2>1, SwapOf
  <2> HIDE DEF u
  <2>3. Len(u) = Len(n)
    BY <1>1, <2>2, LenProperties
  <2>4. u = n
    BY <1>1, <2>2, <2>3, PrefixOrder
  <2> QED BY <2>4 DEF u
<1> HIDE DEF s
<1>5. s # <<>>
  BY <1>1, <1>2, PrefixOrder, EmptyPrefix
<1>6. ~IsPrefix(o, s)
  BY <1>1, <1>2, Comparable DEF Beside
<1> QED BY <1>2, <1>3, <1>4, <1>5, <1>6 DEF s, Somewhere

LEMMA SwappedOrder ==
  ASSUME NEW o \in Somewhere, NEW n \in Somewhere, Beside(o, n), NEW q \in Somewhere, IsPrefix(o, q),
         NEW r \in Somewhere, IsPrefix(q, r)
  PROVE  IsPrefix(o, r) /\ IsPrefix(Swap(q, o, n), Swap(r, o, n))
BY SwapOrder DEF Somewhere

(* What is above a swapped name is above n, or the swapped name of         *)
(* something between.                                                      *)
LEMMA AboveSwapped ==
  ASSUME NEW o \in Somewhere, NEW n \in Somewhere, Beside(o, n), NEW q \in Somewhere, IsPrefix(o, q),
         NEW r \in Somewhere, IsPrefix(r, Swap(q, o, n))
  PROVE  \/ IsPrefix(r, n)
         \/ /\ Swap(r, n, o) \in Somewhere /\ IsPrefix(o, Swap(r, n, o)) /\ IsPrefix(Swap(r, n, o), q)
            /\ r = Swap(Swap(r, n, o), o, n)
<1> SUFFICES ASSUME ~IsPrefix(r, n)
             PROVE  /\ Swap(r, n, o) \in Somewhere /\ IsPrefix(o, Swap(r, n, o)) /\ IsPrefix(Swap(r, n, o), q)
                    /\ r = Swap(Swap(r, n, o), o, n)
  OBVIOUS
<1> DEFINE s == Swap(q, o, n)
<1>1. s \in Somewhere /\ IsPrefix(n, s) /\ Swap(s, n, o) = q
  BY Swapped
<1> HIDE DEF s
<1>2. IsPrefix(r, s)
  BY DEF s
<1>3. IsPrefix(n, r)
  BY <1>1, <1>2, Comparable DEF Somewhere
<1>4. Beside(n, o)
  BY DEF Beside
<1>5. Swap(r, n, o) \in Somewhere /\ IsPrefix(o, Swap(r, n, o)) /\ Swap(Swap(r, n, o), o, n) = r
  BY <1>3, <1>4, Swapped
<1>6. IsPrefix(Swap(r, n, o), Swap(s, n, o))
  BY <1>1, <1>2, <1>3, <1>4, SwappedOrder
<1> QED BY <1>1, <1>5, <1>6

-----------------------------------------------------------------------------
(* tree_node::rename                                                       *)

MovedAll(now, o, n) == {q \in now : ~IsPrefix(o, q)} \cup {Swap(q, o, n) : q \in {x \in now : IsPrefix(o, x)}}

(* The names below o are now below n; o is still there.                    *)
LEMMA MovedBelow ==
  ASSUME NEW f, Closed(DOMAIN f), DOMAIN f \subseteq Somewhere, NEW o \in DOMAIN f, NEW n \in Somewhere, n \notin DOMAIN f,
         Beside(o, n), NEW g,
         DOMAIN g = (DOMAIN f \cup Chain(n) \cup {Swap(r, o, n) : r \in Childs(f, o)}) \ Childs(f, o),
         \A q \in DOMAIN g : g[q] = IF IsPrefix(n, q) THEN f[Swap(q, n, o)] ELSE IF q \in DOMAIN f THEN f[q] ELSE {}
  PROVE  /\ Closed(DOMAIN g) /\ DOMAIN g \subseteq Somewhere /\ o \in DOMAIN g /\ Childs(g, o) = {}
         /\ \A q \in DOMAIN f : ~IsPrefix(o, q) \/ q = o => q \in DOMAIN g /\ g[q] = f[q]
         /\ \A q \in DOMAIN f : IsPrefix(o, q) => Swap(q, o, n) \in DOMAIN g /\ g[Swap(q, o, n)] = f[q]
         /\ \A q \in DOMAIN g : \/ q \in DOMAIN f /\ (~IsPrefix(o, q) \/ q = o)
                                \/ IsStrictPrefix(q, n) /\ q \notin DOMAIN f /\ g[q] = {}
                                \/ \E r \in DOMAIN f : IsPrefix(o, r) /\ q = Swap(r, o, n)
<1>1. o \in Somewhere /\ n \in Chain(n) /\ Swap(o, o, n) = n /\ Chain(n) \subseteq Somewhere /\ IsPrefix(o, o)
  BY PrefixesOf, Swapped
<1>2. \A r : r \in Childs(f, o) <=> r \in DOMAIN f /\ IsPrefix(o, r) /\ r # o
  BY DEF Childs, IsStrictPrefix
<1>3. \A r \in DOMAIN f : IsPrefix(o, r) =>
        /\ Swap(r, o, n) \in Somewhere /\ IsPrefix(n, Swap(r, o, n)) /\ ~IsPrefix(o, Swap(r, o, n))
        /\ Swap(Swap(r, o, n), n, o) = r
  BY <1>1, Swapped
<1>4. \A q \in DOMAIN f : ~IsPrefix(n, q)
  BY DEF Closed
<1>5. \A q \in Chain(n) : ~IsPrefix(o, q)
  <2> TAKE q \in Chain(n)
  <2>1. IsPrefix(q, n) /\ q \in Seq(Nat) /\ o \in Seq(Nat) /\ n \in Seq(Nat)
    BY <1>1, ChainMeans DEF Somewhere
  <2> QED BY <2>1, PrefixOrder DEF Beside
<1>6. \A q \in DOMAIN f : ~IsPrefix(o, q) \/ q = o => q \in DOMAIN g /\ g[q] = f[q]
  BY <1>2, <1>4
<1>7. \A q \in DOMAIN f : IsPrefix(o, q) => Swap(q, o, n) \in DOMAIN g
  <2> TAKE q \in DOMAIN f
  <2> HAVE IsPrefix(o, q)
  <2>1. Swap(q, o, n) \notin Childs(f, o)
    BY <1>2, <1>3
  <2>2. CASE q = o
    BY <1>1, <2>1, <2>2
  <2>3. CASE q # o
    BY <1>2, <2>1, <2>3
  <2> QED BY <2>2, <2>3
<1>8. \A q \in DOMAIN f : IsPrefix(o, q) => Swap(q, o, n) \in DOMAIN g /\ g[Swap(q, o, n)] = f[q]
  BY <1>3, <1>7
<1>9. ASSUME NEW q \in DOMAIN g
      PROVE  \/ q \in DOMAIN f /\ (~IsPrefix(o, q) \/ q = o)
             \/ IsStrictPrefix(q, n) /\ q \notin DOMAIN f /\ g[q] = {}
             \/ \E r \in DOMAIN f : IsPrefix(o, r) /\ q = Swap(r, o, n)
  <2>1. CASE q \in DOMAIN f
    BY <1>2, <2>1
  <2>2. CASE q = n
    BY <1>1, <2>2
  <2>3. CASE q \in Chain(n) /\ q # n /\ q \notin DOMAIN f
    <3>1. IsPrefix(q, n) /\ q \in Somewhere
      BY <2>3, ChainMeans
    <3>2. ~IsPrefix(n, q)
      BY <2>3, <3>1, PrefixOrder, LenProperties DEF Somewhere
    <3> QED BY <2>3, <3>1, <3>2 DEF IsStrictPrefix
  <2>4. CASE q \in {Swap(r, o, n) : r \in Childs(f, o)}
    BY <1>2, <2>4
  <2> QED BY <2>1, <2>2, <2>3, <2>4
<1>10. DOMAIN g \subseteq Somewhere
  BY <1>1, <1>2, <1>3
<1>11. Childs(g, o) = {}
  <2> SUFFICES ASSUME NEW q \in DOMAIN g, IsPrefix(o, q), q # o PROVE FALSE
    BY DEF Childs, IsStrictPrefix
  <2>1. q \notin Chain(n)
    BY <1>5
  <2>2. q \notin Childs(f, o)
    OBVIOUS
  <2> QED BY <1>2, <1>3, <2>1, <2>2
<1>12. ASSUME NEW r \in DOMAIN g, NEW q \in Somewhere, IsPrefix(q, r)
       PROVE  q \in DOMAIN g
  <2>1. CASE r \in DOMAIN f
    <3>1. q \in DOMAIN f
      BY <1>12, <2>1 DEF Closed
    <3>2. IsPrefix(o, q) => IsPrefix(o, r)
      BY <1>1, <1>12, <2>1, PrefixOrder DEF Somewhere
    <3>3. q = o \/ ~IsPrefix(o, q)
      <4>1. r = o \/ ~IsPrefix(o, r)
        BY <1>2, <2>1
      <4>2. r = o /\ IsPrefix(o, q) => q = o
        BY <1>1, <1>12, PrefixOrder, LenProperties DEF Somewhere
      <4> QED BY <3>2, <4>1, <4>2
    <3> QED BY <1>6, <3>1, <3>3
  <2>2. CASE r \in Chain(n)
    <3>1. q \in Chain(n)
      BY <1>12, <2>2, PrefixesOf
    <3> QED BY <1>2, <1>5, <3>1
  <2>3. CASE r \in {Swap(x, o, n) : x \in Childs(f, o)}
    <3>1. PICK x \in Childs(f, o) : r = Swap(x, o, n)
      BY <2>3
    <3>2. x \in DOMAIN f /\ IsPrefix(o, x) /\ x \in Somewhere
      BY <1>2
    <3>3. CASE IsPrefix(q, n)
      <4>1. q \in Chain(n)
        BY <3>3, ChainMeans
      <4> QED BY <1>2, <1>5, <4>1
    <3>4. CASE ~IsPrefix(q, n)
      <4> DEFINE y == Swap(q, n, o)
      <4>1. y \in Somewhere /\ IsPrefix(o, y) /\ IsPrefix(y, x) /\ q = Swap(y, o, n)
        BY <1>1, <1>12, <3>1, <3>2, <3>4, AboveSwapped
      <4> HIDE DEF y
      <4>2. y \in DOMAIN f
        BY <3>2, <4>1 DEF Closed
      <4> QED BY <1>7, <4>1, <4>2
    <3> QED BY <3>3, <3>4
  <2> QED BY <2>1, <2>2, <2>3
<1>13. Closed(DOMAIN g)
  BY <1>12 DEF Closed
<1>14. o \in DOMAIN g
  BY <1>6
<1> QED BY <1>6, <1>8, <1>9, <1>10, <1>11, <1>13, <1>14

LEMMA RenameNodeIs ==
  ASSUME NEW f, DOMAIN f \subseteq Somewhere, NEW o \in DOMAIN f, NEW n \in Somewhere, n \notin DOMAIN f
  PROVE  \E g : /\ DOMAIN g = (DOMAIN f \cup Chain(n) \cup {Swap(r, o, n) : r \in Childs(f, o)}) \ Childs(f, o)
                /\ \A q \in DOMAIN g : g[q] = IF IsPrefix(n, q) THEN f[Swap(q, n, o)] ELSE IF q \in DOMAIN f THEN f[q] ELSE {}
                /\ RenameNode(f, o, n) = Erase(g, o)
<1> DEFINE moved == [q \in DOMAIN Insert(f, n) \cup {n \o SubSeq(r, Len(o) + 1, Len(r)) : r \in Childs(f, o)} |->
                  IF IsPrefix(n, q) THEN f[o \o SubSeq(q, Len(n) + 1, Len(q))] ELSE Insert(f, n)[q]]
           g == Restrict(moved, DOMAIN moved \ Childs(f, o))
<1>1. RenameNode(f, o, n) = Erase(g, o)
  BY DEF RenameNode
<1>2. DOMAIN Insert(f, n) = DOMAIN f \cup Chain(n)
  BY DEF Insert, PutFlags
<1>3. DOMAIN moved = DOMAIN f \cup Chain(n) \cup {Swap(r, o, n) : r \in Childs(f, o)}
  BY <1>2 DEF Swap, Rest
<1>4. \A q \in DOMAIN moved : moved[q] = IF IsPrefix(n, q) THEN f[Swap(q, n, o)] ELSE Insert(f, n)[q]
  BY DEF Swap, Rest
<1>5. \A q \in DOMAIN f : q # n => Insert(f, n)[q] = f[q]
  BY DEF Insert, PutFlags
<1>6. \A q \in Chain(n) : q \notin DOMAIN f => Insert(f, n)[q] = {}
  BY DEF Insert, PutFlags
<1> HIDE DEF moved
<1>7. DOMAIN g = DOMAIN moved \ Childs(f, o) /\ \A q \in DOMAIN g : g[q] = moved[q]
  BY DEF Restrict
<1> HIDE DEF g
<1>8. ASSUME NEW q \in DOMAIN g
      PROVE  g[q] = IF IsPrefix(n, q) THEN f[Swap(q, n, o)] ELSE IF q \in DOMAIN f THEN f[q] ELSE {}
  <2>1. CASE IsPrefix(n, q)
    BY <1>4, <1>7, <2>1
  <2>2. CASE ~IsPrefix(n, q)
    <3>1. g[q] = Insert(f, n)[q]
      BY <1>4, <1>7, <2>2
    <3>2. q \notin DOMAIN f => q \in Chain(n)
      <4>1. \A r \in Childs(f, o) : IsPrefix(n, Swap(r, o, n))
        BY SwapOf DEF Childs, Somewhere, IsStrictPrefix
      <4> QED BY <1>3, <1>7, <2>2, <4>1
    <3> QED BY <1>5, <1>6, <2>2, <3>1, <3>2
  <2> QED BY <2>1, <2>2
<1> QED BY <1>1, <1>3, <1>7, <1>8

LEMMA TracksRenamedNode ==
  ASSUME NEW f, NEW old \in SUBSET Somewhere, NEW now \in SUBSET Somewhere, NEW hot, Tracks(f, old, now, hot),
         Closed(old), Closed(now), NEW o \in DOMAIN f, o \in now, o \notin old, NEW n \in Somewhere, n \notin DOMAIN f, n \notin now,
         Beside(o, n), \A q \in Somewhere : IsStrictPrefix(q, n) => q \in now
  PROVE  /\ Tracks(RenameNode(f, o, n), old, MovedAll(now, o, n), hot)
         /\ DOMAIN RenameNode(f, o, n) \subseteq DOMAIN f \cup Chain(n) \cup {q \in Somewhere : IsPrefix(n, q)}
<1>0. DOMAIN f \subseteq Somewhere /\ Closed(DOMAIN f)
  BY DEF Tracks
<1>1. PICK g : /\ DOMAIN g = (DOMAIN f \cup Chain(n) \cup {Swap(r, o, n) : r \in Childs(f, o)}) \ Childs(f, o)
               /\ \A q \in DOMAIN g : g[q] = IF IsPrefix(n, q) THEN f[Swap(q, n, o)] ELSE IF q \in DOMAIN f THEN f[q] ELSE {}
               /\ RenameNode(f, o, n) = Erase(g, o)
  BY <1>0, RenameNodeIs
<1>2. Closed(DOMAIN g) /\ DOMAIN g \subseteq Somewhere /\ o \in DOMAIN g /\ Childs(g, o) = {}
  BY <1>0, <1>1, MovedBelow
<1>3. \A q \in DOMAIN f : ~IsPrefix(o, q) \/ q = o => q \in DOMAIN g /\ g[q] = f[q]
  BY <1>0, <1>1, MovedBelow
<1>4. \A q \in DOMAIN f : IsPrefix(o, q) => Swap(q, o, n) \in DOMAIN g /\ g[Swap(q, o, n)] = f[q]
  BY <1>0, <1>1, MovedBelow
<1>5. \A q \in DOMAIN g : \/ q \in DOMAIN f /\ (~IsPrefix(o, q) \/ q = o)
                          \/ IsStrictPrefix(q, n) /\ q \notin DOMAIN f /\ g[q] = {}
                          \/ \E r \in DOMAIN f : IsPrefix(o, r) /\ q = Swap(r, o, n)
  BY <1>0, <1>1, MovedBelow
<1> DEFINE new == MovedAll(now, o, n)
           both == new \cup {o}
<1>6. \A q \in old : ~IsPrefix(o, q)
  BY <1>0 DEF Closed
<1>7. \A q \in old : ~IsPrefix(n, q)
  <2>1. n \notin old
    BY DEF Tracks
  <2> QED BY <2>1 DEF Closed
<1>8. \A q \in now : IsPrefix(o, q) => q \in DOMAIN f /\ q \notin old
  BY <1>6 DEF Tracks
<1>9. \A q \in Somewhere : IsPrefix(o, q) => IsPrefix(n, Swap(q, o, n)) /\ Swap(q, o, n) \in Somewhere /\ ~IsPrefix(o, Swap(q, o, n))
  BY <1>0, Swapped
<1>10. \A q \in old : q \in both <=> q \in now
  <2> TAKE q \in old
  <2>1. q # o /\ \A r \in Somewhere : IsPrefix(o, r) => q # Swap(r, o, n)
    BY <1>7, <1>9
  <2>2. q \in new <=> q \in now
    BY <1>6, <2>1 DEF MovedAll
  <2> QED BY <2>1, <2>2
<1>11. \A q \in both \ old : \/ q \in now \ old /\ (~IsPrefix(o, q) \/ q = o)
                             \/ \E r \in now \ old : IsPrefix(o, r) /\ q = Swap(r, o, n)
  BY <1>6 DEF MovedAll
<1>12. \A r \in DOMAIN f : IsPrefix(o, r) => r \in now /\ Swap(r, o, n) \in new
  BY <1>6 DEF MovedAll, Tracks
<1>13. \A q \in now : ~IsPrefix(o, q) => q \in new
  BY DEF MovedAll
<1>14. o \notin new
  <2>1. IsPrefix(o, o)
    BY <1>0, PrefixesOf
  <2> QED BY <1>9, <2>1 DEF MovedAll
<1>15. \A q \in Somewhere : IsStrictPrefix(q, n) => ~IsPrefix(o, q)
  <2> TAKE q \in Somewhere
  <2> HAVE IsStrictPrefix(q, n)
  <2>1. IsPrefix(q, n) /\ q \in Seq(Nat) /\ o \in Seq(Nat) /\ n \in Seq(Nat)
    BY <1>0 DEF IsStrictPrefix, Somewhere
  <2> QED BY <2>1, PrefixOrder DEF Beside
<1> HIDE DEF new
<1>16. Tracks(g, old, both, hot)
  <2>1. DOMAIN g \subseteq old \cup both
    <3> SUFFICES ASSUME NEW q \in DOMAIN g PROVE q \in old \cup both
      OBVIOUS
    <3>1. CASE q \in DOMAIN f /\ (~IsPrefix(o, q) \/ q = o)
      BY <1>13, <3>1 DEF Tracks
    <3>2. CASE IsStrictPrefix(q, n)
      <4>1. q \in now
        BY <1>2, <3>2
      <4> QED BY <1>2, <1>13, <1>15, <3>2, <4>1
    <3>3. CASE \E r \in DOMAIN f : IsPrefix(o, r) /\ q = Swap(r, o, n)
      BY <1>12, <3>3
    <3> QED BY <1>5, <3>1, <3>2, <3>3
  <2>2. \A q \in old \ both : q \in DOMAIN g /\ g[q] = {"DELETED"}
    BY <1>3, <1>6, <1>10 DEF Tracks
  <2>3. \A q \in both \ old : q \in DOMAIN g /\ "CREATED" \in g[q] /\ "DELETED" \notin g[q]
    <3> TAKE q \in both \ old
    <3>1. CASE q \in now \ old /\ (~IsPrefix(o, q) \/ q = o)
      BY <1>3, <3>1 DEF Tracks
    <3>2. CASE \E r \in now \ old : IsPrefix(o, r) /\ q = Swap(r, o, n)
      <4>1. PICK r \in now \ old : IsPrefix(o, r) /\ q = Swap(r, o, n)
        BY <3>2
      <4>2. r \in DOMAIN f /\ "CREATED" \in f[r] /\ "DELETED" \notin f[r]
        BY DEF Tracks
      <4> QED BY <1>4, <4>1, <4>2
    <3> QED BY <1>11, <3>1, <3>2
  <2>4. ASSUME NEW q \in old, q \in both
        PROVE  /\ q \in DOMAIN g => g[q] \cap Only = {}
               /\ q \in hot => q \in DOMAIN g /\ g[q] # {}
    <3>1. q \in now /\ ~IsPrefix(o, q)
      BY <1>6, <1>10, <2>4
    <3>2. CASE q \in DOMAIN f
      BY <1>3, <3>1, <3>2 DEF Tracks
    <3>3. CASE q \notin DOMAIN f
      <4>1. q \notin hot
        BY <3>1, <3>3 DEF Tracks
      <4>2. ~\E r \in DOMAIN f : IsPrefix(o, r) /\ q = Swap(r, o, n)
        BY <1>0, <1>7, <1>9
      <4>3. q \in DOMAIN g => g[q] = {}
        BY <1>5, <3>3, <4>2
      <4> QED BY <4>1, <4>3
    <3> QED BY <3>2, <3>3
  <2> QED BY <1>2, <2>1, <2>2, <2>3, <2>4 DEF Tracks
<1>17. Tracks(Erase(g, o), old, both \ {o}, hot)
  BY <1>2, <1>16, TracksErased
<1>18. both \ {o} = new
  BY <1>14
<1>19. DOMAIN Erase(g, o) \subseteq DOMAIN g
  BY <1>2, EraseMeans
<1>20. DOMAIN g \subseteq DOMAIN f \cup Chain(n) \cup {q \in Somewhere : IsPrefix(n, q)}
  BY <1>0, <1>1, <1>9 DEF Childs, IsStrictPrefix
<1> QED BY <1>1, <1>17, <1>18, <1>19, <1>20 DEF new

-----------------------------------------------------------------------------
(* process_rename of what no command has touched yet                       *)

LEMMA RestInOrder ==
  ASSUME NEW o \in Seq(Nat), NEW q \in Seq(Nat), IsPrefix(o, q)
  PROVE  /\ o \o Rest(q, o) = q
         /\ \A r \in Seq(Nat) : IsPrefix(q, r) => IsPrefix(Rest(q, o), Rest(r, o))
         /\ \A r \in Seq(Nat) : IsPrefix(o, r) /\ Rest(q, o) = Rest(r, o) => q = r
<1>1. Len(o) \in Nat /\ Len(q) \in Nat /\ Len(o) <= Len(q)
  BY LenProperties, PrefixOrder
<1>2. ASSUME NEW x \in Seq(Nat), IsPrefix(o, x)
      PROVE  o \o Rest(x, o) = x
  <2> DEFINE s == Swap(x, o, o)
  <2>1. Len(x) \in Nat /\ Len(o) <= Len(x)
    BY <1>2, LenProperties, PrefixOrder
  <2>2. /\ s \in Seq(Nat) /\ Len(s) = Len(o) + Len(x) - Len(o) /\ \A i \in 1..Len(o) : s[i] = o[i]
        /\ \A i \in 1..(Len(x) - Len(o)) : s[Len(o) + i] = x[Len(o) + i]
    BY <1>2, SwapOf
  <2> HIDE DEF s
  <2>3. \A i \in 1..Len(o) : o[i] = x[i]
    BY <1>1, <1>2, PrefixMeans
  <2>4. ASSUME NEW i \in 1..Len(x)
        PROVE  s[i] = x[i]
    <3>1. CASE i <= Len(o)
      BY <1>1, <2>2, <2>3, <3>1
    <3>2. CASE ~(i <= Len(o))
      <4> DEFINE j == i - Len(o)
      <4>1. j \in 1..(Len(x) - Len(o)) /\ i = Len(o) + j
        BY <1>1, <2>1, <3>2
      <4> HIDE DEF j
      <4> QED BY <2>2, <4>1
    <3> QED BY <3>1, <3>2
  <2>5. Len(s) = Len(x)
    BY <1>1, <2>1, <2>2
  <2>6. s = x
    BY <2>2, <2>4, <2>5, SeqEqual
  <2> QED BY <2>6 DEF s, Swap
<1>3. ASSUME NEW r \in Seq(Nat), IsPrefix(q, r)
      PROVE  IsPrefix(Rest(q, o), Rest(r, o))
  <2>1. <<>> \in Seq(Nat)
    BY EmptySeq
  <2>2. IsPrefix(o, r) /\ IsPrefix(Swap(q, o, <<>>), Swap(r, o, <<>>))
    BY <1>3, <2>1, SwapOrder
  <2>3. Rest(q, o) \in Seq(Nat) /\ Rest(r, o) \in Seq(Nat)
    BY <2>2, RestOf
  <2>4. Swap(q, o, <<>>) = Rest(q, o) /\ Swap(r, o, <<>>) = Rest(r, o)
    BY <2>3, ConcatEmptySeq DEF Swap
  <2> QED BY <2>2, <2>4
<1>4. ASSUME NEW r \in Seq(Nat), IsPrefix(o, r), Rest(q, o) = Rest(r, o)
      PROVE  q = r
  <2>1. o \o Rest(q, o) = q /\ o \o Rest(r, o) = r
    BY <1>2, <1>4
  <2> QED BY <1>4, <2>1
<1>5. o \o Rest(q, o) = q
  BY <1>2
<1> QED BY <1>3, <1>4, <1>5

(* Name by name, what is above others first                                *)
Untouched(f, o, n, old, N, at, r) ==
  /\ at[0] = o
  /\ \A i \in 0..N : at[i] \in old /\ IsPrefix(o, at[i])
  /\ \A p \in old : IsPrefix(o, p) => \E i \in 0..N : at[i] = p
  /\ \A i, k \in 0..N : IsPrefix(at[k], at[i]) => k <= i
  /\ r[0] = Created(Deleted(f, at[0]), Swap(at[0], o, n))
  /\ \A i \in 1..N : r[i] = Created(Deleted(r[i - 1], at[i]), Swap(at[i], o, n))

LEMMA UntouchedIs ==
  ASSUME NEW f, NEW old \in SUBSET Somewhere, IsFiniteSet(old), DOMAIN TreeOf(pre) = old,
         NEW o \in old, NEW n \in Somewhere, Beside(o, n)
  PROVE  \E N \in Nat : \E at : \E r : Untouched(f, o, n, old, N, at, r) /\ RenameUntouched(f, o, n) = r[N]
<1> DEFINE P == {SubSeq(p, Len(o) + 1, Len(p)) : p \in Below(TreeOf(pre), o)}
           below == InOrder(P)
           N == Len(below)
           r == CHOOSE x : RenamedUpTo(f, o, n, below, N, x)
           at == [i \in 0..N |-> IF i = 0 THEN o ELSE o \o below[i]]
<1>1. RenameUntouched(f, o, n) = r[N]
  BY DEF RenameUntouched, RenamedUpTo
<1>0. o \in Seq(Nat) /\ n \in Seq(Nat) /\ o \in Somewhere /\ IsPrefix(o, o) /\ <<>> \in Seq(Nat)
  BY EmptySeq, PrefixOrder DEF Somewhere
<1>2. \A q : q \in P <=> \E p \in old : IsStrictPrefix(o, p) /\ q = Rest(p, o)
  BY DEF Below, Rest
<1>3. P \subseteq Seq(Nat) /\ IsFiniteSet(P)
  <2> DEFINE h == [p \in old |-> Rest(p, o)]
  <2>1. \A q \in P : \E p \in old : q = h[p]
    BY <1>2
  <2>2. \A p \in old : h[p] \in Seq(Nat)
    BY <1>0, RestIsPath DEF Somewhere
  <2> HIDE DEF h, P
  <2>3. IsFiniteSet(P)
    BY <2>1, ImageFinite
  <2> QED BY <2>1, <2>2, <2>3
<1> HIDE DEF P
<1>4. /\ N \in Nat /\ below \in Seq(P) /\ \A i \in 1..N : below[i] \in P
      /\ \A p \in P : \E i \in 1..N : below[i] = p
      /\ \A i, j \in 1..N : i < j => Before(below[i], below[j])
  <2> DEFINE C == Cardinality(P)
  <2>1. /\ C \in Nat /\ below \in [1..C -> P] /\ below \in Seq(P) /\ N = C
        /\ \A p \in P : \E i \in 1..C : below[i] = p
        /\ \A i, j \in 1..C : i < j => Before(below[i], below[j])
    BY <1>3, InOrderEnumerates
  <2> HIDE DEF C, below
  <2> QED BY <2>1
<1> HIDE DEF below, N
<1>5. RenamedUpTo(f, o, n, below, N, r)
  BY <1>4, RenamedThere
<1> HIDE DEF r
<1>6. \A i \in 0..N : r[i] = RenamedAt(f, o, n, below, r, i)
  BY <1>4, <1>5, RenamedMeans
<1>7. ASSUME NEW i \in 1..N
      PROVE  /\ at[i] \in old /\ IsStrictPrefix(o, at[i]) /\ IsPrefix(o, at[i]) /\ Rest(at[i], o) = below[i]
             /\ o \o below[i] = at[i] /\ n \o below[i] = Swap(at[i], o, n)
  <2>1. at[i] = o \o below[i]
    BY <1>4
  <2>2. PICK p \in old : IsStrictPrefix(o, p) /\ below[i] = Rest(p, o)
    BY <1>2, <1>4
  <2>3. IsPrefix(o, p) /\ p \in Seq(Nat)
    BY <2>2 DEF IsStrictPrefix, Somewhere
  <2>4. o \o Rest(p, o) = p
    BY <1>0, <2>3, RestInOrder
  <2>5. at[i] = p
    BY <2>1, <2>2, <2>4
  <2> HIDE DEF at
  <2> QED BY <2>1, <2>2, <2>3, <2>5 DEF Swap
<1>8. at[0] = o
  BY <1>4
<1> HIDE DEF at
<1>9. \A i \in 0..N : at[i] \in old /\ IsPrefix(o, at[i])
  BY <1>0, <1>7, <1>8
<1>10. ASSUME NEW p \in old, IsPrefix(o, p)
       PROVE  \E i \in 0..N : at[i] = p
  <2>1. CASE p = o
    BY <1>4, <1>8, <2>1
  <2>2. CASE p # o
    <3>1. Rest(p, o) \in P
      BY <1>2, <1>10, <2>2 DEF IsStrictPrefix
    <3>2. PICK i \in 1..N : below[i] = Rest(p, o)
      BY <1>4, <3>1
    <3>3. at[i] \in Seq(Nat) /\ p \in Seq(Nat)
      BY <1>7 DEF Somewhere
    <3>4. at[i] = p
      BY <1>0, <1>7, <1>10, <3>2, <3>3, RestInOrder
    <3> QED BY <1>4, <3>4
  <2> QED BY <2>1, <2>2
<1>11. ASSUME NEW i \in 0..N, NEW k \in 0..N, IsPrefix(at[k], at[i])
       PROVE  k <= i
  <2>1. i \in Nat /\ k \in Nat /\ at[i] \in Seq(Nat) /\ at[k] \in Seq(Nat)
    BY <1>4, <1>9 DEF Somewhere
  <2>2. CASE k = 0
    BY <2>1, <2>2
  <2>3. CASE k # 0 /\ i = 0
    <3>1. k \in 1..N
      BY <1>4, <2>3
    <3>2. IsStrictPrefix(o, at[k]) /\ IsPrefix(at[k], o)
      BY <1>7, <1>8, <1>11, <2>3, <3>1
    <3> QED BY <1>0, <2>1, <3>2, PrefixOrder, LenProperties DEF IsStrictPrefix
  <2>4. CASE k # 0 /\ i # 0
    <3>1. k \in 1..N /\ i \in 1..N
      BY <1>4, <2>4
    <3>2. Rest(at[k], o) = below[k] /\ Rest(at[i], o) = below[i] /\ IsPrefix(o, at[k])
      BY <1>7, <3>1
    <3>3. IsPrefix(Rest(at[k], o), Rest(at[i], o))
      BY <1>0, <1>11, <2>1, <3>2, RestInOrder
    <3>4. IsPrefix(below[k], below[i]) /\ below[k] \in Seq(Nat) /\ below[i] \in Seq(Nat)
      BY <1>3, <1>4, <3>1, <3>2, <3>3
    <3> SUFFICES ASSUME i < k PROVE FALSE
      BY <2>1
    <3>5. Before(below[i], below[k])
      BY <1>4, <3>1
    <3>6. below[i] # below[k]
      BY <3>4, <3>5, BeforeOrders
    <3>7. IsStrictPrefix(below[k], below[i])
      BY <3>4, <3>6 DEF IsStrictPrefix
    <3> QED BY <3>4, <3>5, <3>7, AboveComesBefore
  <2> QED BY <2>2, <2>3, <2>4
<1>12. r[0] = Created(Deleted(f, at[0]), Swap(at[0], o, n))
  <2>1. r[0] = RenamedOnce(f, o, n, <<>>)
    <3>1. 0 \in 0..N
      BY <1>4
    <3>2. r[0] = RenamedAt(f, o, n, below, r, 0)
      BY ONLY <1>6, <3>1
    <3> QED BY <3>2 DEF RenamedAt
  <2>2. o \o <<>> = o /\ n \o <<>> = n
    BY <1>0, ConcatEmptySeq
  <2>3. Swap(o, o, n) = n
    BY <1>0, Swapped
  <2> QED BY <1>8, <2>1, <2>2, <2>3 DEF RenamedOnce
<1>13. ASSUME NEW i \in 1..N
       PROVE  r[i] = Created(Deleted(r[i - 1], at[i]), Swap(at[i], o, n))
  <2>1. r[i] = RenamedOnce(r[i - 1], o, n, below[i])
    BY <1>4, <1>6 DEF RenamedAt
  <2> QED BY <1>7, <2>1 DEF RenamedOnce
<1>14. Untouched(f, o, n, old, N, at, r)
  BY <1>8, <1>9, <1>10, <1>11, <1>12, <1>13 DEF Untouched
<1> QED BY <1>1, <1>4, <1>14

LEMMA CreatedGrows ==
  ASSUME NEW f, NEW p
  PROVE  DOMAIN Created(f, p) \subseteq DOMAIN f \cup Chain(p)
BY DEF Created, Retouch, PutFlags

LEMMA DeletedGrows ==
  ASSUME NEW f, NEW p
  PROVE  DOMAIN Deleted(f, p) \subseteq DOMAIN f \cup Chain(p)
<1> DEFINE above == {q \in Chain(p) \ {p} :
                       \A r \in Childs(f, q) \cup {q} : IsPrefix(r, p) /\ (r # p => f[r] = {})}
           D == DOMAIN f \ (above \cup {p})
<1>1. Erase(f, p) \in {f, [f EXCEPT ![p] = {}], Restrict(f, D)}
  BY DEF Erase
<1>2. DOMAIN Restrict(f, D) = D
  BY DEF Restrict
<1>3. DOMAIN [f EXCEPT ![p] = {}] = DOMAIN f
  OBVIOUS
<1>4. D \subseteq DOMAIN f
  OBVIOUS
<1> HIDE DEF D
<1>5. DOMAIN Erase(f, p) \subseteq DOMAIN f
  BY <1>1, <1>2, <1>3, <1>4
<1>6. DOMAIN PutFlags(f, p, {"DELETED"}) = DOMAIN f \cup Chain(p)
  BY DEF PutFlags
<1> QED BY <1>5, <1>6 DEF Deleted

UpToHere(now, o, n, at, i) ==
  (now \ {at[k] : k \in 0..i}) \cup {Swap(at[k], o, n) : k \in 0..i}
Near(f, g, o, n) ==
  \A q \in DOMAIN g \ DOMAIN f : IsPrefix(q, o) \/ IsPrefix(o, q) \/ IsPrefix(q, n) \/ IsPrefix(n, q)

(* One name                                                                *)
LEMMA TracksOnce ==
  ASSUME NEW f, NEW old \in SUBSET Somewhere, NEW now \in SUBSET Somewhere, NEW hot, Tracks(f, old, now, hot), Closed(old),
         NEW p \in old, p \notin DOMAIN f, NEW q \in Somewhere, q \notin now, q # p,
         \A r \in Somewhere : IsStrictPrefix(r, q) => r \in now /\ r # p
  PROVE  Tracks(Created(Deleted(f, p), q), old, (now \ {p}) \cup {q}, hot \cup {q})
<1> DEFINE g == Deleted(f, p)
           new == now \ {p}
<1>1. Tracks(g, old, new, hot)
  BY TracksDeleted
<1>2. q \notin new /\ \A r \in Somewhere : IsStrictPrefix(r, q) => r \in new
  OBVIOUS
<1> HIDE DEF g, new
<1>3. Tracks(Created(g, q), old, new \cup {q}, hot \cup {q})
  BY <1>1, <1>2, TracksCreated
<1> QED BY <1>3 DEF g, new

LEMMA TracksLess ==
  ASSUME NEW f, NEW old, NEW now, NEW hot, Tracks(f, old, now, hot), NEW less, \A q \in less : q \in old \cap now => q \in hot
  PROVE  Tracks(f, old, now, less)
BY DEF Tracks

LEMMA TracksUntouched ==
  ASSUME NEW f, NEW old \in SUBSET Somewhere, NEW now \in SUBSET Somewhere, NEW hot, Tracks(f, old, now, hot),
         Closed(old), Closed(now), IsFiniteSet(old), DOMAIN TreeOf(pre) = old,
         NEW o \in now, o \notin DOMAIN f, NEW n \in Somewhere, n \notin now,
         Beside(o, n), \A q \in Somewhere : IsStrictPrefix(q, n) => q \in now
  PROVE  /\ Tracks(RenameUntouched(f, o, n), old, MovedAll(now, o, n), hot \cup {q \in Somewhere : IsPrefix(n, q)})
         /\ Near(f, RenameUntouched(f, o, n), o, n)
<1>1. o \in old /\ o \in Somewhere /\ IsPrefix(o, o) /\ Closed(DOMAIN f) /\ DOMAIN f \subseteq Somewhere
  BY PrefixesOf DEF Tracks
<1>2. \A q \in Somewhere : IsPrefix(o, q) => q \notin DOMAIN f
  BY <1>1 DEF Closed
<1>3. \A q \in Somewhere : IsPrefix(o, q) => (q \in old <=> q \in now)
  BY <1>2 DEF Tracks
<1>4. \A q \in now : ~IsPrefix(n, q)
  BY DEF Closed
<1>5. \A q \in Somewhere : IsPrefix(o, q) => IsPrefix(n, Swap(q, o, n)) /\ Swap(q, o, n) \in Somewhere /\ ~IsPrefix(o, Swap(q, o, n))
  BY <1>1, Swapped
<1>6. \A q, r \in Somewhere : IsPrefix(o, q) /\ IsPrefix(o, r) /\ Swap(q, o, n) = Swap(r, o, n) => q = r
  <2> TAKE q, r \in Somewhere
  <2> HAVE IsPrefix(o, q) /\ IsPrefix(o, r) /\ Swap(q, o, n) = Swap(r, o, n)
  <2>1. Swap(Swap(q, o, n), n, o) = q
    BY <1>1, Swapped
  <2>2. Swap(Swap(r, o, n), n, o) = r
    BY <1>1, Swapped
  <2> QED BY <2>1, <2>2
<1>7. PICK N \in Nat : \E at : \E r : Untouched(f, o, n, old, N, at, r) /\ RenameUntouched(f, o, n) = r[N]
  BY <1>1, UntouchedIs
<1>8. PICK at : \E r : Untouched(f, o, n, old, N, at, r) /\ RenameUntouched(f, o, n) = r[N]
  BY <1>7
<1>9. PICK r : Untouched(f, o, n, old, N, at, r) /\ RenameUntouched(f, o, n) = r[N]
  BY <1>8
<1>10. /\ at[0] = o
       /\ \A i \in 0..N : at[i] \in old /\ IsPrefix(o, at[i])
       /\ \A p \in old : IsPrefix(o, p) => \E i \in 0..N : at[i] = p
       /\ \A i, k \in 0..N : IsPrefix(at[k], at[i]) => k <= i
       /\ r[0] = Created(Deleted(f, at[0]), Swap(at[0], o, n))
       /\ \A i \in 1..N : r[i] = Created(Deleted(r[i - 1], at[i]), Swap(at[i], o, n))
  BY <1>9 DEF Untouched
<1> DEFINE to(i) == Swap(at[i], o, n)
           more == hot \cup {q \in Somewhere : IsPrefix(n, q)}
           B(i) == UpToHere(now, o, n, at, i)
           Good(i) == /\ Tracks(r[i], old, B(i), more)
                      /\ Near(f, r[i], o, n)
                      /\ \A k \in 0..N : k > i => at[k] \notin DOMAIN r[i]
           Step(g, b, i) == /\ Tracks(g, old, b, more) /\ Near(f, g, o, n) /\ b \subseteq Somewhere
                            /\ at[i] \notin DOMAIN g /\ at[i] \in b /\ to(i) \notin b
                            /\ \A q \in Somewhere : IsStrictPrefix(q, to(i)) => q \in b /\ q # at[i]
<1>11. \A i \in 0..N : /\ at[i] \in Somewhere /\ at[i] \in old /\ IsPrefix(o, at[i]) /\ at[i] \in now
                       /\ to(i) \in Somewhere /\ IsPrefix(n, to(i)) /\ ~IsPrefix(o, to(i)) /\ to(i) \notin now
  BY <1>3, <1>4, <1>5, <1>10
<1>12. \A i, k \in 0..N : at[i] = at[k] => i = k
  <2> TAKE i, k \in 0..N
  <2> HAVE at[i] = at[k]
  <2>1. IsPrefix(at[i], at[k]) /\ IsPrefix(at[k], at[i])
    BY <1>11, PrefixesOf
  <2>2. i <= k /\ k <= i
    BY <1>10, <2>1
  <2> QED BY <2>2
<1>13. ASSUME NEW i \in 0..N, NEW q \in Somewhere, IsStrictPrefix(q, to(i))
       PROVE  \/ q \in now /\ ~IsPrefix(o, q)
              \/ \E k \in 0..N : k < i /\ q = to(k)
  <2>1. IsPrefix(q, Swap(at[i], o, n)) /\ q # Swap(at[i], o, n)
    BY <1>13 DEF IsStrictPrefix
  <2>2. CASE IsStrictPrefix(q, n)
    <3>1. q \in now /\ IsPrefix(q, n)
      BY <2>2 DEF IsStrictPrefix
    <3>2. ~IsPrefix(o, q)
      <4>1. q \in Seq(Nat) /\ o \in Seq(Nat) /\ n \in Seq(Nat)
        BY <1>1 DEF Somewhere
      <4> QED BY <3>1, <4>1, PrefixOrder DEF Beside
    <3> QED BY <3>1, <3>2
  <2>3. CASE q = n
    <3>1. Swap(o, o, n) = n
      BY <1>1, Swapped
    <3>2. i # 0
      BY <1>10, <2>1, <2>3, <3>1
    <3> QED BY <1>10, <2>3, <3>1, <3>2
  <2>4. CASE ~IsPrefix(q, n)
    <3> DEFINE y == Swap(q, n, o)
    <3>1. y \in Somewhere /\ IsPrefix(o, y) /\ IsPrefix(y, at[i]) /\ q = Swap(y, o, n)
      BY <1>1, <1>11, <2>1, <2>4, AboveSwapped
    <3> HIDE DEF y
    <3>2. y \in old
      BY <1>11, <3>1 DEF Closed
    <3>3. PICK k \in 0..N : at[k] = y
      BY <1>10, <3>1, <3>2
    <3>4. k <= i /\ k # i
      BY <1>10, <2>1, <3>1, <3>3
    <3> QED BY <3>1, <3>3, <3>4
  <2> QED BY <2>2, <2>3, <2>4 DEF IsStrictPrefix
<1>14. ASSUME NEW g, NEW b, NEW i \in 0..N, Step(g, b, i), NEW h, h = Created(Deleted(g, at[i]), to(i))
       PROVE  Tracks(h, old, (b \ {at[i]}) \cup {to(i)}, more) /\ Near(f, h, o, n)
              /\ DOMAIN h \subseteq DOMAIN g \cup Chain(at[i]) \cup Chain(to(i))
  <2>1. at[i] # to(i) /\ at[i] \in old /\ to(i) \in Somewhere /\ b \in SUBSET Somewhere
    BY <1>11, <1>14
  <2>2. Tracks(h, old, (b \ {at[i]}) \cup {to(i)}, more \cup {to(i)})
    BY <1>14, <2>1, TracksOnce
  <2>3. to(i) \in more
    BY <1>11
  <2>4. DOMAIN h \subseteq DOMAIN g \cup Chain(at[i]) \cup Chain(to(i))
    <3> DEFINE d == Deleted(g, at[i])
    <3>1. DOMAIN d \subseteq DOMAIN g \cup Chain(at[i])
      BY DeletedGrows
    <3> HIDE DEF d
    <3>2. DOMAIN Created(d, to(i)) \subseteq DOMAIN d \cup Chain(to(i))
      BY CreatedGrows
    <3> QED BY <1>14, <3>1, <3>2 DEF d
  <2>5. \A q \in Chain(at[i]) : IsPrefix(q, o) \/ IsPrefix(o, q)
    <3> TAKE q \in Chain(at[i])
    <3>1. q \in Somewhere /\ IsPrefix(q, at[i]) /\ IsPrefix(o, at[i])
      BY <1>11, ChainMeans
    <3> QED BY <1>1, <1>11, <3>1, Comparable DEF Somewhere
  <2>6. \A q \in Chain(to(i)) : IsPrefix(q, n) \/ IsPrefix(n, q)
    <3> TAKE q \in Chain(to(i))
    <3>1. q \in Somewhere /\ IsPrefix(q, to(i)) /\ IsPrefix(n, to(i)) /\ to(i) \in Somewhere
      BY <1>11, ChainMeans
    <3> HIDE DEF to
    <3> QED BY <3>1, Comparable DEF Somewhere
  <2>7. Near(f, h, o, n)
    BY <1>14, <2>4, <2>5, <2>6 DEF Near
  <2>8. more \cup {to(i)} = more
    BY <2>3
  <2> HIDE DEF more
  <2> QED BY <2>2, <2>4, <2>7, <2>8
<1>15. ASSUME NEW i \in 0..N, NEW k \in 0..N, k > i
       PROVE  at[k] \notin Chain(at[i]) /\ at[k] \notin Chain(to(i))
  <2>1. at[k] \notin Chain(at[i])
    <3>1. ~(k <= i)
      BY <1>15
    <3>2. ~IsPrefix(at[k], at[i])
      BY <1>10, <3>1
    <3> QED BY <1>11, <3>2, ChainMeans
  <2>2. at[k] \notin Chain(to(i))
    <3> SUFFICES ASSUME IsPrefix(at[k], to(i)) PROVE FALSE
      BY <1>11, ChainMeans
    <3>1. IsPrefix(o, to(i))
      BY <1>1, <1>11, PrefixOrder DEF Somewhere
    <3> QED BY <1>11, <3>1
  <2> QED BY <2>1, <2>2
<1>16. Good(0)
  <2>1. Tracks(f, old, now, more)
    <3>1. \A q \in more : q \in old \cap now => q \in hot
      BY <1>4
    <3> HIDE DEF more
    <3> QED BY <3>1, TracksLess
  <2>2. 0 \in 0..N
    BY <1>7
  <2>3. \A q \in Somewhere : IsStrictPrefix(q, to(0)) => q \in now /\ q # at[0]
    <3> TAKE q \in Somewhere
    <3> HAVE IsStrictPrefix(q, to(0))
    <3>1. q \in now /\ ~IsPrefix(o, q)
      BY <1>13, <2>2
    <3> QED BY <1>1, <1>10, <3>1
  <2>4. Step(f, now, 0)
    BY <1>10, <1>11, <2>1, <2>2, <2>3 DEF Near
  <2>5. r[0] = Created(Deleted(f, at[0]), to(0))
    BY <1>10
  <2> HIDE DEF more, Step
  <2>6. /\ Tracks(r[0], old, (now \ {at[0]}) \cup {to(0)}, more) /\ Near(f, r[0], o, n)
        /\ DOMAIN r[0] \subseteq DOMAIN f \cup Chain(at[0]) \cup Chain(to(0))
    BY <1>14, <2>2, <2>4, <2>5
  <2>7. B(0) = (now \ {at[0]}) \cup {to(0)}
    BY DEF UpToHere
  <2>8. \A k \in 0..N : k > 0 => at[k] \notin DOMAIN r[0]
    BY <1>2, <1>11, <1>15, <2>2, <2>6
  <2> QED BY <2>6, <2>7, <2>8
<1>17. ASSUME NEW i \in 1..N, Good(i - 1)
       PROVE  Good(i)
  <2>1. i \in 0..N /\ i - 1 \in 0..N /\ i > i - 1 /\ 0..i = (0..(i-1)) \cup {i} /\ \A k \in 0..(i-1) : k \in 0..N /\ k < i
    BY <1>7
  <2>2. at[i] \in B(i - 1)
    <3>1. \A k \in 0..(i-1) : at[k] # at[i]
      BY <1>12, <2>1
    <3> QED BY <1>11, <2>1, <3>1 DEF UpToHere
  <2>3. to(i) \notin B(i - 1)
    <3>1. \A k \in 0..(i-1) : to(k) # to(i)
      <4> TAKE k \in 0..(i-1)
      <4>1. at[k] # at[i]
        BY <1>12, <2>1
      <4> QED BY <1>6, <1>11, <2>1, <4>1
    <3>2. to(i) \notin now
      BY <1>11, <2>1
    <3> QED BY <3>1, <3>2 DEF UpToHere
  <2>4. \A q \in Somewhere : IsStrictPrefix(q, to(i)) => q \in B(i - 1) /\ q # at[i]
    <3> TAKE q \in Somewhere
    <3> HAVE IsStrictPrefix(q, to(i))
    <3>1. CASE q \in now /\ ~IsPrefix(o, q)
      BY <1>11, <2>1, <3>1 DEF UpToHere
    <3>2. CASE \E k \in 0..N : k < i /\ q = to(k)
      <4>1. PICK k \in 0..N : k < i /\ q = to(k)
        BY <3>2
      <4>2. k \in 0..(i-1)
        BY <2>1, <4>1
      <4> QED BY <1>11, <2>1, <4>1, <4>2 DEF UpToHere
    <3> QED BY <1>13, <2>1, <3>1, <3>2
  <2>5. B(i - 1) \subseteq Somewhere
    BY <1>11, <2>1 DEF UpToHere
  <2>6. Step(r[i - 1], B(i - 1), i)
    BY <1>17, <2>1, <2>2, <2>3, <2>4, <2>5
  <2>7. r[i] = Created(Deleted(r[i - 1], at[i]), to(i))
    BY <1>10
  <2> HIDE DEF more, Step
  <2>8. /\ Tracks(r[i], old, (B(i - 1) \ {at[i]}) \cup {to(i)}, more) /\ Near(f, r[i], o, n)
        /\ DOMAIN r[i] \subseteq DOMAIN r[i - 1] \cup Chain(at[i]) \cup Chain(to(i))
    BY <1>14, <2>1, <2>6, <2>7
  <2>9. B(i) = (B(i - 1) \ {at[i]}) \cup {to(i)}
    <3>1. \A k \in 0..(i-1) : to(k) # at[i]
      BY <1>11, <2>1
    <3> HIDE DEF to
    <3>2. {at[k] : k \in 0..i} = {at[k] : k \in 0..(i-1)} \cup {at[i]}
      BY ONLY <2>1
    <3>3. {to(k) : k \in 0..i} = {to(k) : k \in 0..(i-1)} \cup {to(i)}
      BY ONLY <2>1
    <3>4. B(i) = (now \ {at[k] : k \in 0..i}) \cup {to(k) : k \in 0..i}
      BY DEF UpToHere, to
    <3>5. B(i - 1) = (now \ {at[k] : k \in 0..(i-1)}) \cup {to(k) : k \in 0..(i-1)}
      BY DEF UpToHere, to
    <3> QED BY ONLY <3>1, <3>2, <3>3, <3>4, <3>5
  <2>10. \A k \in 0..N : k > i => at[k] \notin DOMAIN r[i]
    <3> TAKE k \in 0..N
    <3> HAVE k > i
    <3>1. at[k] \notin DOMAIN r[i - 1]
      BY <1>17, <2>1
    <3> QED BY <1>15, <2>1, <2>8, <3>1
  <2> QED BY <2>8, <2>9, <2>10
<1>18. Good(N)
  <2> HIDE DEF Good
  <2> DEFINE Bad == {i \in 0..N : ~Good(i)}
  <2>1. Bad = {}
    <3> SUFFICES ASSUME Bad # {} PROVE FALSE
      OBVIOUS
    <3>1. PICK i \in Bad : \A j \in Bad : i <= j
      <4>1. Bad \in SUBSET Nat
        BY <1>7
      <4> HIDE DEF Bad
      <4> QED BY <4>1, LeastNumber
    <3>2. i \in 0..N /\ ~Good(i)
      BY <3>1
    <3>3. i # 0
      BY <1>16, <3>2
    <3>4. i - 1 \in 0..N /\ i - 1 \notin Bad
      <4> HIDE DEF Bad
      <4> QED BY <1>7, <3>1, <3>2, <3>3
    <3>5. i \in 1..N /\ Good(i - 1)
      BY <1>7, <3>2, <3>3, <3>4
    <3> QED BY <1>17, <3>2, <3>5
  <2> QED BY <1>7, <2>1
<1>19. B(N) = MovedAll(now, o, n)
  <2>1. {at[k] : k \in 0..N} = {q \in now : IsPrefix(o, q)}
    <3>1. \A q \in now : IsPrefix(o, q) => \E k \in 0..N : at[k] = q
      BY <1>3, <1>10
    <3> QED BY <1>11, <3>1
  <2>2. {Swap(at[k], o, n) : k \in 0..N} = {Swap(q, o, n) : q \in {x \in now : IsPrefix(o, x)}}
    BY <2>1
  <2>3. now \ {q \in now : IsPrefix(o, q)} = {q \in now : ~IsPrefix(o, q)}
    OBVIOUS
  <2> QED BY <2>1, <2>2, <2>3 DEF UpToHere, MovedAll
<1>20. Tracks(r[N], old, B(N), more) /\ Near(f, r[N], o, n)
  BY <1>18
<1> QED BY <1>9, <1>19, <1>20

(* erase of a name that is in neither tree afterwards, or was there only   *)
LEMMA TracksDeletes ==
  ASSUME NEW f, NEW old \in SUBSET Somewhere, NEW now \in SUBSET Somewhere, NEW hot, Tracks(f, old, now, hot), Closed(old),
         NEW p \in now, p \in DOMAIN f => p \notin old, Childs(f, p) = {} \/ p \notin DOMAIN f
  PROVE  Tracks(Deleted(f, p), old, now \ {p}, hot)
<1>1. DOMAIN f \subseteq Somewhere
  BY DEF Tracks
<1>2. CASE p \in DOMAIN f
  <2>1. Deleted(f, p) = Erase(f, p)
    BY <1>2 DEF Deleted
  <2>2. Tracks(Erase(f, p), old, now \ {p}, hot)
    BY <1>1, <1>2, TracksErased
  <2> QED BY <2>1, <2>2
<1>3. CASE p \notin DOMAIN f
  <2>1. p \in old
    BY <1>3 DEF Tracks
  <2> QED BY <1>3, <2>1, TracksDeleted
<1> QED BY <1>2, <1>3

LEMMA MergeOfNothing ==
  ASSUME NEW f, NEW tmp, DOMAIN tmp = {}, NEW to
  PROVE  DOMAIN Merge(f, tmp, to) = DOMAIN f /\ \A q \in DOMAIN f : Merge(f, tmp, to)[q] = f[q]
<1> DEFINE from == [x \in {MergedName(to, q) : q \in DOMAIN tmp} |->
                 CHOOSE q \in DOMAIN tmp : MergedName(to, q) = x]
           new == (UNION {Chain(x) : x \in DOMAIN from}) \ DOMAIN f
           m == [x \in DOMAIN f \cup new |->
         IF x \in new THEN IF x \in DOMAIN from THEN tmp[from[x]] ELSE {}
         ELSE IF x \in DOMAIN from THEN Retouch(f, x)[x] ELSE f[x]]
<1>1. Merge(f, tmp, to) = m
  BY DEF Merge
<1>2. DOMAIN from = {}
  OBVIOUS
<1> HIDE DEF from
<1>3. new = {}
  BY <1>2
<1> HIDE DEF new
<1>4. DOMAIN m = DOMAIN f /\ \A q \in DOMAIN f : m[q] = f[q]
  BY <1>2, <1>3
<1> QED BY <1>1, <1>4

LEMMA TracksEqual ==
  ASSUME NEW f, NEW old, NEW now, NEW hot, Tracks(f, old, now, hot), NEW g, DOMAIN g = DOMAIN f, \A q \in DOMAIN f : g[q] = f[q]
  PROVE  Tracks(g, old, now, hot)
BY DEF Tracks

(* process_rename, where it works: a name that commands have touched is    *)
(* not one of the first tree, and nothing below it has to be merged.       *)
LEMMA TracksRenamed ==
  ASSUME NEW f, NEW old \in SUBSET Somewhere, NEW now \in SUBSET Somewhere, NEW hot, Tracks(f, old, now, hot),
         Closed(old), Closed(now), IsFiniteSet(old), DOMAIN TreeOf(pre) = old,
         NEW o \in now, NEW n \in Somewhere, n \notin now,
         Beside(o, n), \A q \in Somewhere : IsStrictPrefix(q, n) => q \in now,
         o \in DOMAIN f => o \notin old,
         o \in DOMAIN f /\ n \in DOMAIN f => Childs(f, o) = {}
  PROVE  /\ Tracks(ProcessRename(f, o, n), old, MovedAll(now, o, n), hot \cup {q \in Somewhere : IsPrefix(n, q)})
         /\ Near(f, ProcessRename(f, o, n), o, n)
<1> DEFINE more == hot \cup {q \in Somewhere : IsPrefix(n, q)}
<1>0. Closed(DOMAIN f) /\ DOMAIN f \subseteq Somewhere /\ o \in Somewhere
  BY DEF Tracks
<1>1. CASE o \notin DOMAIN f
  <2>1. ProcessRename(f, o, n) = RenameUntouched(f, o, n)
    BY <1>1 DEF ProcessRename
  <2> QED BY <1>1, <2>1, TracksUntouched
<1>2. \A q \in now : ~IsPrefix(n, q)
  BY DEF Closed
<1>3. \A q \in MovedAll(now, o, n) : q \in more => q \in hot \/ IsPrefix(n, q)
  OBVIOUS
<1>4. CASE o \in DOMAIN f /\ n \notin DOMAIN f
  <2>1. ProcessRename(f, o, n) = RenameNode(f, o, n)
    BY <1>4 DEF ProcessRename
  <2>2. /\ Tracks(RenameNode(f, o, n), old, MovedAll(now, o, n), hot)
        /\ DOMAIN RenameNode(f, o, n) \subseteq DOMAIN f \cup Chain(n) \cup {q \in Somewhere : IsPrefix(n, q)}
    BY <1>4, TracksRenamedNode
  <2> DEFINE g == RenameNode(f, o, n)
             new == MovedAll(now, o, n)
  <2>3. \A q \in old : ~IsPrefix(n, q)
    <3>1. n \notin old
      BY <1>4 DEF Tracks
    <3> QED BY <3>1 DEF Closed
  <2>4. \A q \in more : q \in old \cap new => q \in hot
    BY <2>3
  <2>5. Near(f, g, o, n)
    BY <2>2, ChainMeans DEF Near
  <2> HIDE DEF g, new, more
  <2>6. Tracks(g, old, new, more)
    BY <2>2, <2>4, TracksLess DEF g, new
  <2> QED BY <2>1, <2>5, <2>6 DEF g, new, more
<1>5. CASE o \in DOMAIN f /\ n \in DOMAIN f
  <2> DEFINE Q == {SubSeq(r, Len(o) + 1, Len(r)) : r \in Childs(f, o)}
             tmp == [q \in Q |-> f[o \o q]]
             bare == Restrict(f, DOMAIN f \ Childs(f, o))
             d == Deleted(bare, o)
             c == Created(d, n)
             m == Merge(c, tmp, n)
             less == now \ {o}
  <2>1. ProcessRename(f, o, n) = m
    BY <1>5 DEF ProcessRename
  <2>2. Childs(f, o) = {} /\ o \notin old
    BY <1>5
  <2>3. DOMAIN tmp = {}
    BY <2>2
  <2> HIDE DEF tmp
  <2>4. DOMAIN bare = DOMAIN f /\ \A q \in DOMAIN f : bare[q] = f[q]
    BY <2>2 DEF Restrict
  <2> HIDE DEF bare
  <2>5. Tracks(bare, old, now, hot)
    BY <2>4, TracksEqual
  <2>6. Childs(bare, o) = {}
    BY <2>2, <2>4 DEF Childs
  <2>7. Tracks(d, old, less, hot)
    BY <2>2, <2>5, <2>6, TracksDeletes
  <2>8. DOMAIN d \subseteq DOMAIN bare \cup Chain(o)
    BY DeletedGrows
  <2> HIDE DEF d
  <2>9. n \notin less /\ \A q \in Somewhere : IsStrictPrefix(q, n) => q \in less
    <3>1. ~IsStrictPrefix(o, n)
      BY DEF Beside, IsStrictPrefix
    <3> QED BY <3>1
  <2> HIDE DEF less
  <2>10. Tracks(c, old, less \cup {n}, hot \cup {n})
    BY <2>7, <2>9, TracksCreated
  <2>11. DOMAIN c \subseteq DOMAIN d \cup Chain(n)
    BY CreatedGrows
  <2> HIDE DEF c
  <2>12. DOMAIN m = DOMAIN c /\ \A q \in DOMAIN c : m[q] = c[q]
    BY <2>3, MergeOfNothing
  <2> HIDE DEF m
  <2>13. Tracks(m, old, less \cup {n}, hot \cup {n})
    BY <2>10, <2>12, TracksEqual
  <2>14. less \cup {n} = MovedAll(now, o, n)
    <3>1. \A q \in now : IsPrefix(o, q) => q = o
      <4> TAKE q \in now
      <4> HAVE IsPrefix(o, q)
      <4>1. q \notin old
        BY <1>0, <2>2 DEF Closed
      <4>2. q \in DOMAIN f
        BY <4>1 DEF Tracks
      <4> QED BY <2>2, <4>2 DEF Childs, IsStrictPrefix
    <3>2. IsPrefix(o, o) /\ Swap(o, o, n) = n
      BY <1>0, PrefixesOf, Swapped
    <3>3. {x \in now : IsPrefix(o, x)} = {o}
      BY <3>1, <3>2
    <3>4. {q \in now : ~IsPrefix(o, q)} = less
      BY <3>1, <3>2 DEF less
    <3> QED BY <3>2, <3>3, <3>4 DEF MovedAll
  <2>15. Near(f, m, o, n)
    BY <1>0, <2>4, <2>8, <2>11, <2>12, ChainMeans DEF Near
  <2>16. \A q \in more : q \in old \cap MovedAll(now, o, n) => q \in hot \cup {n}
    <3> TAKE q \in more
    <3> HAVE q \in old \cap MovedAll(now, o, n)
    <3>1. q \in less \cup {n}
      BY <2>14
    <3> QED BY <1>2, <3>1 DEF less
  <2> DEFINE new == MovedAll(now, o, n)
  <2> HIDE DEF new, more
  <2>17. Tracks(m, old, new, hot \cup {n})
    BY <2>13, <2>14 DEF new
  <2>18. Tracks(m, old, new, more)
    BY <2>16, <2>17, TracksLess DEF new
  <2> QED BY <2>1, <2>15, <2>18 DEF new, more
<1> QED BY <1>1, <1>4, <1>5

-----------------------------------------------------------------------------
(* Names of files whose directories have lower numbers                     *)

OneEach(t) == \A i, j \in DOMAIN t : t[i].up = t[j].up /\ t[i].name = t[j].name => i = j
Regular(t) == Forest(t) /\ Ordered(t) /\ OneEach(t)
NamesOf(t) == {PathOf(t, i) : i \in DOMAIN t}

LEMMA ForestFacts ==
  ASSUME NEW t, Forest(t)
  PROVE  /\ DOMAIN t \subseteq Nat \ {0} /\ PathOf(t, 0) = <<>> /\ <<>> \in Seq(Nat)
         /\ \A i \in DOMAIN t : /\ t[i].up \in DOMAIN t \cup {0} /\ t[i].name \in Nat
                                /\ PathOf(t, t[i].up) \in Seq(Nat) /\ PathOf(t, i) \in Somewhere
                                /\ PathOf(t, i) = Append(PathOf(t, t[i].up), t[i].name)
                                /\ Front(PathOf(t, i)) = PathOf(t, t[i].up)
<1>1. DOMAIN t \subseteq Nat \ {0} /\ <<>> \in Seq(Nat)
  BY SendStreamConstants, EmptySeq DEF Forest
<1>0. PICK bound \in Nat : \E depth \in [DOMAIN t -> 0..bound] : Deep(t, depth, bound)
  BY DEF Forest
<1>2. PICK depth \in [DOMAIN t -> 0..bound] : Deep(t, depth, bound)
  BY <1>0
<1>3. ASSUME NEW i \in DOMAIN t
      PROVE  /\ t[i].up \in DOMAIN t \cup {0} /\ t[i].name \in Nat
             /\ PathOf(t, t[i].up) \in Seq(Nat) /\ PathOf(t, i) \in Somewhere
             /\ PathOf(t, i) = Append(PathOf(t, t[i].up), t[i].name)
             /\ Front(PathOf(t, i)) = PathOf(t, t[i].up)
  <2>1. t[i].up \in DOMAIN t \cup {0} /\ t[i].name \in Nat
    BY <1>2 DEF Forest, Deep
  <2>2. /\ PathOf(t, t[i].up) \in Seq(Nat) /\ PathOf(t, i) \in Somewhere
        /\ PathOf(t, i) = Append(PathOf(t, t[i].up), t[i].name)
    BY NamesInForest
  <2> DEFINE u == PathOf(t, t[i].up)
             x == t[i].name
  <2>3. u \in Seq(Nat) /\ x \in Nat
    BY <2>1, <2>2
  <2> HIDE DEF u, x
  <2>4. Front(Append(u, x)) = u
    BY <2>3, AppendPath
  <2> QED BY <2>1, <2>2, <2>4 DEF u, x
<1> QED BY <1>1, <1>3, NamesInForest

LEMMA AppendEqual ==
  ASSUME NEW u \in Seq(Nat), NEW x \in Nat, NEW v \in Seq(Nat), NEW y \in Nat, Append(u, x) = Append(v, y)
  PROVE  u = v /\ x = y
<1>1. Front(Append(u, x)) = u /\ Front(Append(v, y)) = v
  BY AppendPath
<1>2. u = v
  BY <1>1
<1>3. Append(u, x)[Len(u) + 1] = x /\ Append(v, y)[Len(v) + 1] = y
  BY AppendProperties
<1> QED BY <1>2, <1>3

LEMMA PathIsOne ==
  ASSUME NEW t, Regular(t)
  PROVE  \A i, j \in DOMAIN t \cup {0} : PathOf(t, i) = PathOf(t, j) => i = j
<1>1. Forest(t) /\ Ordered(t) /\ OneEach(t)
  BY DEF Regular
<1> DEFINE D == DOMAIN t \cup {0}
           Bad == {i \in D : \E j \in D : i # j /\ PathOf(t, i) = PathOf(t, j)}
<1>2. \A i \in DOMAIN t : PathOf(t, i) # <<>>
  BY <1>1, ForestFacts DEF Somewhere
<1>3. Bad = {}
  <2> SUFFICES ASSUME Bad # {} PROVE FALSE
    OBVIOUS
  <2>1. PICK i \in Bad : \A j \in Bad : i <= j
    <3>1. Bad \in SUBSET Nat
      BY <1>1, ForestFacts
    <3> HIDE DEF Bad
    <3> QED BY <3>1, LeastNumber
  <2>2. i \in D /\ \E j \in D : i # j /\ PathOf(t, i) = PathOf(t, j)
    BY <2>1
  <2>3. PICK j \in D : i # j /\ PathOf(t, i) = PathOf(t, j)
    BY <2>2
  <2>4. i \in DOMAIN t /\ j \in DOMAIN t
    BY <1>1, <1>2, <2>2, <2>3, ForestFacts
  <2>5. t[i].up \in D /\ t[j].up \in D /\ t[i].name \in Nat /\ t[j].name \in Nat
        /\ PathOf(t, t[i].up) \in Seq(Nat) /\ PathOf(t, t[j].up) \in Seq(Nat)
        /\ Append(PathOf(t, t[i].up), t[i].name) = Append(PathOf(t, t[j].up), t[j].name)
    <3>1. PathOf(t, i) = Append(PathOf(t, t[i].up), t[i].name)
      BY <1>1, <2>4, ForestFacts
    <3>2. PathOf(t, j) = Append(PathOf(t, t[j].up), t[j].name)
      BY <1>1, <2>4, ForestFacts
    <3> QED BY <1>1, <2>3, <2>4, <3>1, <3>2, ForestFacts
  <2>6. PathOf(t, t[i].up) = PathOf(t, t[j].up) /\ t[i].name = t[j].name
    BY <2>5, AppendEqual
  <2>7. t[i].up # t[j].up
    BY <1>1, <2>3, <2>4, <2>6 DEF OneEach
  <2>8. t[i].up \in Bad
    BY <2>5, <2>6, <2>7
  <2>9. t[i].up < i /\ t[i].up \in Nat /\ i \in Nat
    <3>1. t[i].up < i
      BY <1>1, <2>4 DEF Ordered
    <3>2. DOMAIN t \subseteq Nat \ {0}
      BY <1>1, ForestFacts
    <3>3. t[i].up \in DOMAIN t \cup {0}
      BY <2>5
    <3> QED BY <2>4, <3>1, <3>2, <3>3
  <2>10. i <= t[i].up
    BY <2>1, <2>8
  <2> QED BY <2>9, <2>10
<1> QED BY <1>3

LEMMA PathAbove ==
  ASSUME NEW t, Regular(t), NEW j \in DOMAIN t, NEW q \in Somewhere, IsStrictPrefix(q, PathOf(t, j))
  PROVE  \E a \in DOMAIN t : a < j /\ PathOf(t, a) = q
<1>1. Forest(t) /\ Ordered(t)
  BY DEF Regular
<1> DEFINE Bad == {i \in DOMAIN t : IsStrictPrefix(q, PathOf(t, i)) /\ ~\E a \in DOMAIN t : a < i /\ PathOf(t, a) = q}
<1> SUFFICES ASSUME Bad # {} PROVE FALSE
  OBVIOUS
<1>2. PICK i \in Bad : \A k \in Bad : i <= k
  <2>1. Bad \in SUBSET Nat
    BY <1>1, ForestFacts
  <2> HIDE DEF Bad
  <2> QED BY <2>1, LeastNumber
<1>3. i \in DOMAIN t /\ IsStrictPrefix(q, PathOf(t, i)) /\ ~\E a \in DOMAIN t : a < i /\ PathOf(t, a) = q
  BY <1>2
<1> DEFINE u == t[i].up
           p == PathOf(t, i)
           w == PathOf(t, u)
<1>4. u \in DOMAIN t \cup {0} /\ w \in Seq(Nat) /\ p \in Seq(Nat) /\ p # <<>> /\ Front(p) = w /\ q \in Seq(Nat) /\ q # <<>>
  BY <1>1, <1>3, ForestFacts DEF Somewhere
<1>5. u < i /\ u \in Nat /\ i \in Nat
  <2>1. u < i
    BY <1>1, <1>3 DEF Ordered
  <2>2. DOMAIN t \subseteq Nat \ {0}
    BY <1>1, ForestFacts
  <2> QED BY <1>3, <1>4, <2>1, <2>2
<1>6. IsStrictPrefix(q, p)
  BY <1>3
<1>7. u = 0 => w = <<>>
  BY <1>1, ForestFacts
<1>8. u \in DOMAIN t => u \notin Bad
  BY <1>2, <1>5
<1>9. w # q
  <2>1. w = q => u \in DOMAIN t
    BY <1>4, <1>7
  <2> QED BY <1>3, <1>5, <2>1
<1> HIDE DEF p, w
<1>10. IsPrefix(q, w)
  BY <1>4, <1>6, FrontProperties
<1>11. u # 0
  <2> SUFFICES ASSUME u = 0 PROVE FALSE
    OBVIOUS
  <2>1. IsPrefix(q, <<>>) /\ <<>> \in Seq(Nat) /\ Len(q) > 0 /\ Len(<<>>) = 0
    BY <1>4, <1>7, <1>10, EmptyPrefix
  <2>2. Len(q) <= Len(<<>>)
    BY ONLY <1>4, <2>1, PrefixOrder
  <2> QED BY <2>1, <2>2
<1>12. IsStrictPrefix(q, w)
  BY <1>9, <1>10 DEF IsStrictPrefix
<1>13. \E a \in DOMAIN t : a < u /\ PathOf(t, a) = q
  BY <1>4, <1>8, <1>11, <1>12 DEF w
<1>14. PICK a \in DOMAIN t : a < u /\ PathOf(t, a) = q
  BY <1>13
<1>15. a \in Nat /\ a < i
  BY <1>1, <1>5, <1>14, ForestFacts
<1> QED BY <1>3, <1>14, <1>15

LEMMA NamesAreClosed ==
  ASSUME NEW t, Regular(t)
  PROVE  NamesOf(t) \subseteq Somewhere /\ Closed(NamesOf(t)) /\ NamesOK(NamesOf(t))
<1>1. Forest(t)
  BY DEF Regular
<1>2. NamesOf(t) \subseteq Somewhere
  BY <1>1, ForestFacts DEF NamesOf
<1>3. ASSUME NEW p \in NamesOf(t), NEW q \in Somewhere, IsPrefix(q, p)
      PROVE  q \in NamesOf(t)
  <2>1. PICK i \in DOMAIN t : p = PathOf(t, i)
    BY DEF NamesOf
  <2>2. CASE q = p
    BY <2>2
  <2>3. CASE q # p
    <3>1. IsStrictPrefix(q, PathOf(t, i))
      BY <1>3, <2>1, <2>3 DEF IsStrictPrefix
    <3> QED BY <3>1, PathAbove DEF NamesOf
  <2> QED BY <2>2, <2>3
<1>4. IsFiniteSet(NamesOf(t))
  <2> DEFINE g == [i \in DOMAIN t |-> PathOf(t, i)]
  <2>1. IsFiniteSet(DOMAIN t)
    BY <1>1, SendStreamConstants, FS_Subset DEF Forest
  <2>2. \A y \in NamesOf(t) : \E i \in DOMAIN t : y = g[i]
    BY DEF NamesOf
  <2> HIDE DEF g
  <2> QED BY <2>1, <2>2, ImageFinite
<1> QED BY <1>2, <1>3, <1>4 DEF Closed, NamesOK

(* A file whose name is in front of another one's has a lower number, and  *)
(* the directory the other one is in is below it or is it.                 *)
LEMMA InFrontIsAbove ==
  ASSUME NEW t, Regular(t), NEW i \in DOMAIN t, NEW j \in DOMAIN t, IsPrefix(PathOf(t, i), PathOf(t, j)), i # j
  PROVE  /\ i < j /\ t[j].up \in DOMAIN t
         /\ IsPrefix(PathOf(t, i), PathOf(t, t[j].up))
<1>1. Forest(t)
  BY DEF Regular
<1> DEFINE p == PathOf(t, i)
           q == PathOf(t, j)
           w == PathOf(t, t[j].up)
<1>2. p \in Somewhere /\ q \in Somewhere /\ w \in Seq(Nat) /\ Front(q) = w /\ t[j].up \in DOMAIN t \cup {0}
  BY <1>1, ForestFacts
<1>3. p # q
  BY PathIsOne
<1>4. IsStrictPrefix(p, q)
  BY <1>3 DEF IsStrictPrefix
<1>5. i < j
  <2>1. PICK a \in DOMAIN t : a < j /\ PathOf(t, a) = p
    BY <1>2, <1>4, PathAbove
  <2> QED BY <2>1, PathIsOne
<1>6. t[j].up = 0 => w = <<>>
  BY <1>1, ForestFacts
<1> HIDE DEF p, q, w
<1>7. IsPrefix(p, w)
  BY <1>2, <1>4, FrontProperties DEF Somewhere
<1>8. t[j].up # 0
  <2> SUFFICES ASSUME w = <<>> PROVE FALSE
    BY <1>6
  <2>1. Len(p) > 0 /\ Len(<<>>) = 0 /\ <<>> \in Seq(Nat) /\ p \in Seq(Nat)
    BY <1>2, EmptyPrefix DEF Somewhere
  <2>2. Len(p) <= Len(<<>>)
    BY <1>7, <2>1, PrefixOrder
  <2> QED BY <2>1, <2>2
<1> QED BY <1>2, <1>5, <1>7, <1>8 DEF p, w

-----------------------------------------------------------------------------
(* What a step does to the names of all files                              *)

LEMMA SwapAppend ==
  ASSUME NEW o \in Seq(Nat), NEW n \in Seq(Nat), NEW q \in Seq(Nat), IsPrefix(o, q), NEW x \in Nat
  PROVE  IsPrefix(o, Append(q, x)) /\ Swap(Append(q, x), o, n) = Append(Swap(q, o, n), x)
<1> DEFINE a == Append(q, x)
           s == Swap(q, o, n)
           l == Swap(a, o, n)
           r == Append(s, x)
<1>1. Len(o) \in Nat /\ Len(n) \in Nat /\ Len(q) \in Nat /\ Len(o) <= Len(q)
  BY LenProperties, PrefixOrder
<1>2. a \in Seq(Nat) /\ Len(a) = Len(q) + 1 /\ IsPrefix(q, a)
  BY AppendPath, AppendProperties
<1>3. (\A i \in 1..Len(q) : a[i] = q[i]) /\ a[Len(q) + 1] = x
  BY AppendProperties
<1> HIDE DEF a
<1>4. IsPrefix(o, a)
  BY <1>2, PrefixOrder
<1>5. /\ s \in Seq(Nat) /\ Len(s) = Len(n) + Len(q) - Len(o)
      /\ \A i \in 1..Len(n) : s[i] = n[i]
      /\ \A i \in 1..(Len(q) - Len(o)) : s[Len(n) + i] = q[Len(o) + i]
  <2>1. Swaps(s, q, o, n)
    BY SwapDoes
  <2> HIDE DEF s
  <2> QED BY <2>1 DEF Swaps
<1>6. /\ l \in Seq(Nat) /\ Len(l) = Len(n) + Len(a) - Len(o)
      /\ \A i \in 1..Len(n) : l[i] = n[i]
      /\ \A i \in 1..(Len(a) - Len(o)) : l[Len(n) + i] = a[Len(o) + i]
  <2>1. Swaps(l, a, o, n)
    BY <1>2, <1>4, SwapDoes
  <2> HIDE DEF l
  <2> QED BY <2>1 DEF Swaps
<1> HIDE DEF s, l
<1>7. /\ r \in Seq(Nat) /\ Len(r) = Len(s) + 1
      /\ (\A i \in 1..Len(s) : r[i] = s[i]) /\ r[Len(s) + 1] = x
  <2>1. s \in Seq(Nat) /\ x \in Nat
    BY <1>5
  <2>2. r \in Seq(Nat) /\ Len(r) = Len(s) + 1
    BY ONLY <2>1, AppendProperties
  <2>3. \A i \in 1..Len(s) : r[i] = s[i]
    BY ONLY <2>1, AppendProperties
  <2>4. r[Len(s) + 1] = x
    BY ONLY <2>1, AppendProperties
  <2> QED BY <2>2, <2>3, <2>4
<1> HIDE DEF r
<1>8. Len(l) = Len(r)
  BY <1>1, <1>2, <1>5, <1>6, <1>7
<1>9. ASSUME NEW i \in 1..Len(l)
      PROVE  l[i] = r[i]
  <2>1. CASE i <= Len(n)
    <3>1. i \in 1..Len(n) /\ i \in 1..Len(s)
      BY <1>1, <1>5, <2>1
    <3> QED BY <1>5, <1>6, <1>7, <3>1
  <2>2. CASE i > Len(n) /\ i < Len(l)
    <3> DEFINE j == i - Len(n)
    <3>0. i \in Int /\ Len(a) \in Nat /\ Len(s) \in Nat
      BY <1>1, <1>2, <1>5
    <3>1. j \in 1..(Len(q) - Len(o)) /\ j \in 1..(Len(a) - Len(o)) /\ i = Len(n) + j /\ i \in 1..Len(s)
          /\ Len(o) + j \in 1..Len(q)
      <4>1. Len(o) \in Nat /\ Len(n) \in Nat /\ Len(q) \in Nat /\ Len(a) = Len(q) + 1 /\ Len(s) = Len(n) + Len(q) - Len(o)
            /\ Len(l) = Len(n) + Len(a) - Len(o)
        BY <1>1, <1>2, <1>5, <1>6
      <4>2. i \in Int /\ i > Len(n) /\ i < Len(l)
        BY <2>2, <3>0
      <4> QED BY ONLY <4>1, <4>2
    <3> HIDE DEF j
    <3> QED BY <1>3, <1>5, <1>6, <1>7, <3>1
  <2>3. CASE i > Len(n) /\ i = Len(l)
    <3> DEFINE j == i - Len(n)
    <3>1. j \in 1..(Len(a) - Len(o)) /\ i = Len(n) + j /\ i = Len(s) + 1 /\ Len(o) + j = Len(q) + 1
      BY <1>1, <1>2, <1>5, <1>6, <2>3
    <3> HIDE DEF j
    <3> QED BY <1>3, <1>6, <1>7, <3>1
  <2>4. Len(l) \in Nat
    BY <1>6, LenProperties
  <2> QED BY <1>1, <2>1, <2>2, <2>3, <2>4
<1>10. l = r
  BY <1>6, <1>7, <1>8, <1>9, SeqEqual
<1> QED BY <1>4, <1>10 DEF a, l, r, s

(* Files in the same places have the same names.                           *)
LEMMA PathsKept ==
  ASSUME NEW t, Forest(t), Ordered(t), NEW s, Forest(s), DOMAIN s \subseteq DOMAIN t,
         \A j \in DOMAIN s : s[j].up = t[j].up /\ s[j].name = t[j].name
  PROVE  \A j \in DOMAIN s \cup {0} : PathOf(s, j) = PathOf(t, j)
<1>1. PathOf(s, 0) = PathOf(t, 0)
  BY ForestFacts
<1> DEFINE Bad == {j \in DOMAIN s : PathOf(s, j) # PathOf(t, j)}
<1>2. Bad = {}
  <2> SUFFICES ASSUME Bad # {} PROVE FALSE
    OBVIOUS
  <2>1. PICK j \in Bad : \A k \in Bad : j <= k
    <3>1. Bad \in SUBSET Nat
      BY ForestFacts
    <3> HIDE DEF Bad
    <3> QED BY <3>1, LeastNumber
  <2>2. j \in DOMAIN s /\ PathOf(s, j) # PathOf(t, j) /\ j \in DOMAIN t
    BY <2>1
  <2>3. s[j].up \in DOMAIN s \cup {0} /\ PathOf(s, j) = Append(PathOf(s, s[j].up), s[j].name)
    BY <2>2, ForestFacts
  <2>4. PathOf(t, j) = Append(PathOf(t, t[j].up), t[j].name)
    BY <2>2, ForestFacts
  <2>5. PathOf(s, s[j].up) # PathOf(t, s[j].up)
    BY <2>2, <2>3, <2>4
  <2>6. s[j].up \in Bad
    BY <1>1, <2>3, <2>5
  <2>7. s[j].up < j
    BY <2>2 DEF Ordered
  <2>8. DOMAIN s \subseteq Nat
    BY ForestFacts
  <2>9. s[j].up \in DOMAIN s
    BY <2>6
  <2> HIDE DEF Bad
  <2>10. j <= s[j].up
    BY <2>1, <2>6
  <2> QED BY <2>2, <2>7, <2>8, <2>9, <2>10
<1> QED BY <1>1, <1>2

(* A file goes into another directory, and all that is below it with it.   *)
Moves(t, s, i, up, name, from, to) ==
  /\ from = PathOf(t, i) /\ to = Append(PathOf(t, up), name)
  /\ Regular(t) /\ Regular(s) /\ i \in DOMAIN t /\ up \in DOMAIN t \cup {0} /\ name \in Nat
  /\ up # 0 => ~IsPrefix(PathOf(t, i), PathOf(t, up))
  /\ \A j \in DOMAIN t : t[j].up # up \/ t[j].name # name
  /\ DOMAIN s = DOMAIN t /\ s[i].up = up /\ s[i].name = name
  /\ \A j \in DOMAIN t : j # i => s[j] = t[j]

LEMMA PathMoved ==
  ASSUME NEW t, NEW s, NEW i, NEW up, NEW name, NEW from, NEW to, Moves(t, s, i, up, name, from, to)
  PROVE  /\ from \in Somewhere /\ to \in Somewhere /\ Beside(from, to)
         /\ from \in NamesOf(t) /\ to \notin NamesOf(t)
         /\ \A q \in Somewhere : IsStrictPrefix(q, to) => q \in NamesOf(t)
         /\ PathOf(s, i) = to
         /\ \A j \in DOMAIN t : PathOf(s, j) = IF IsPrefix(from, PathOf(t, j)) THEN Swap(PathOf(t, j), from, to)
                                               ELSE PathOf(t, j)
<1>1. /\ Regular(t) /\ Forest(t) /\ Ordered(t) /\ Forest(s) /\ Ordered(s)
      /\ i \in DOMAIN t /\ up \in DOMAIN t \cup {0} /\ name \in Nat
      /\ DOMAIN s = DOMAIN t /\ s[i].up = up /\ s[i].name = name
      /\ from = PathOf(t, i) /\ to = Append(PathOf(t, up), name)
  BY DEF Moves, Regular
<1> DEFINE w == PathOf(t, up)
<1>2. from \in Somewhere /\ from \in Seq(Nat) /\ from \in NamesOf(t)
  BY <1>1, ForestFacts DEF NamesOf, Somewhere
<1>3. w \in Seq(Nat)
  BY <1>1, ForestFacts DEF Somewhere
<1>4. to \in Somewhere /\ to \in Seq(Nat) /\ Front(to) = w /\ to = Append(w, name)
  BY <1>1, <1>3, AppendPath DEF Somewhere
<1>5. to \notin NamesOf(t)
  <2> SUFFICES ASSUME NEW j \in DOMAIN t, PathOf(t, j) = to PROVE FALSE
    BY DEF NamesOf
  <2>1. PathOf(t, j) = Append(PathOf(t, t[j].up), t[j].name) /\ PathOf(t, t[j].up) \in Seq(Nat)
        /\ t[j].name \in Nat /\ t[j].up \in DOMAIN t \cup {0}
    BY <1>1, ForestFacts
  <2>2. PathOf(t, t[j].up) = w /\ t[j].name = name
    <3> DEFINE v == PathOf(t, t[j].up)
               y == t[j].name
    <3>1. v \in Seq(Nat) /\ y \in Nat /\ Append(v, y) = Append(w, name)
      BY <1>4, <2>1
    <3> HIDE DEF v, y, w
    <3>2. v = w /\ y = name
      BY <1>1, <1>3, <3>1, AppendEqual
    <3> QED BY <3>2 DEF v, y
  <2>3. t[j].up = up
    BY <1>1, <2>1, <2>2, PathIsOne
  <2> QED BY <2>2, <2>3 DEF Moves
<1>6. up = 0 => w = <<>>
  BY <1>1, ForestFacts
<1>7. up # 0 => w \in NamesOf(t)
  BY <1>1 DEF NamesOf
<1>8. up # 0 => ~IsPrefix(from, w)
  BY DEF Moves
<1> HIDE DEF w
<1>9. ~IsPrefix(from, w)
  <2>1. up = 0 => ~IsPrefix(from, w)
    <3> SUFFICES ASSUME w = <<>>, IsPrefix(from, <<>>) PROVE FALSE
      BY <1>6
    <3>1. Len(from) > 0 /\ Len(<<>>) = 0 /\ <<>> \in Seq(Nat)
      BY <1>2, EmptyPrefix DEF Somewhere
    <3>2. Len(from) <= Len(<<>>)
      BY <1>2, <3>1, PrefixOrder
    <3> QED BY <3>1, <3>2
  <2> QED BY <1>8, <2>1
<1>10. ASSUME NEW q \in Somewhere, IsStrictPrefix(q, to)
       PROVE  IsPrefix(q, w) /\ q \in NamesOf(t)
  <2>1. q \in Seq(Nat) /\ q # <<>> /\ to # <<>>
    BY <1>4 DEF Somewhere
  <2>2. IsPrefix(q, w)
    BY <1>4, <1>10, <2>1, FrontProperties
  <2>3. up # 0
    <3> SUFFICES ASSUME w = <<>> PROVE FALSE
      BY <1>6
    <3>1. Len(q) > 0 /\ Len(<<>>) = 0 /\ <<>> \in Seq(Nat)
      BY <2>1, EmptyPrefix
    <3>2. Len(q) <= Len(<<>>)
      BY <2>1, <2>2, <3>1, PrefixOrder
    <3> QED BY <3>1, <3>2
  <2>4. Closed(NamesOf(t))
    BY <1>1, NamesAreClosed
  <2> QED BY <1>7, <2>2, <2>3, <2>4 DEF Closed
<1>11. ~IsPrefix(from, to)
  <2> SUFFICES ASSUME IsPrefix(from, to) PROVE FALSE
    OBVIOUS
  <2>1. from # to
    BY <1>2, <1>5
  <2>2. IsStrictPrefix(from, to)
    BY <2>1 DEF IsStrictPrefix
  <2> QED BY <1>2, <1>9, <1>10, <2>2
<1>12. ~IsPrefix(to, from)
  <2>1. Closed(NamesOf(t))
    BY <1>1, NamesAreClosed
  <2> QED BY <1>2, <1>4, <1>5, <2>1 DEF Closed
<1>13. Beside(from, to)
  BY <1>11, <1>12 DEF Beside
<1> DEFINE Went(p) == IF IsPrefix(from, p) THEN Swap(p, from, to) ELSE p
           Bad == {j \in DOMAIN t : PathOf(s, j) # Went(PathOf(t, j))}
<1>14. PathOf(s, 0) = <<>> /\ PathOf(t, 0) = <<>> /\ ~IsPrefix(from, <<>>)
  <2>1. PathOf(s, 0) = <<>> /\ PathOf(t, 0) = <<>>
    BY <1>1, ForestFacts
  <2>2. Len(from) > 0 /\ Len(<<>>) = 0 /\ <<>> \in Seq(Nat)
    BY <1>2, EmptyPrefix DEF Somewhere
  <2>3. IsPrefix(from, <<>>) => Len(from) <= Len(<<>>)
    BY <1>2, <2>2, PrefixOrder
  <2> QED BY <2>1, <2>2, <2>3
<1>15. Swap(from, from, to) = to /\ IsPrefix(from, from)
  BY <1>2, <1>4, <1>13, Swapped, PrefixOrder
<1>16. Bad = {}
  <2> SUFFICES ASSUME Bad # {} PROVE FALSE
    OBVIOUS
  <2>1. PICK j \in Bad : \A k \in Bad : j <= k
    <3>1. Bad \in SUBSET Nat
      BY <1>1, ForestFacts
    <3> HIDE DEF Bad
    <3> QED BY <3>1, LeastNumber
  <2>2. j \in DOMAIN t /\ PathOf(s, j) # Went(PathOf(t, j)) /\ j \in DOMAIN s
    BY <1>1, <2>1
  <2> DEFINE u == s[j].up
  <2>3. u \in DOMAIN s \cup {0} /\ PathOf(s, j) = Append(PathOf(s, u), s[j].name) /\ u < j
    <3>1. u < j
      BY <1>1, <2>2 DEF Ordered
    <3> QED BY <1>1, <2>2, <3>1, ForestFacts
  <2>4. u \notin Bad
    <3>1. DOMAIN t \subseteq Nat
      BY <1>1, ForestFacts
    <3>2. j \in Nat
      BY <2>2, <3>1
    <3>3. u \in Bad => u \in Nat /\ j <= u
      BY <2>1, <3>1
    <3> QED BY <2>3, <3>2, <3>3
  <2>5. PathOf(s, u) = Went(PathOf(t, u))
    BY <1>1, <1>14, <2>3, <2>4
  <2>6. CASE j = i
    <3>1. PathOf(s, u) = w
      BY <1>1, <1>9, <2>5, <2>6 DEF w
    <3>2. PathOf(s, j) = to
      BY <1>1, <2>3, <2>6, <3>1 DEF w
    <3>3. Went(PathOf(t, j)) = to
      BY <1>1, <1>15, <2>6
    <3> QED BY <2>2, <3>2, <3>3
  <2>7. CASE j # i
    <3>1. s[j] = t[j]
      BY <2>2, <2>7 DEF Moves
    <3> DEFINE a == PathOf(t, u)
               p == PathOf(t, j)
               x == s[j].name
    <3>2. p = Append(a, x) /\ a \in Seq(Nat) /\ x \in Nat /\ p \in Seq(Nat)
      <4>1. /\ t[j].name \in Nat /\ PathOf(t, t[j].up) \in Seq(Nat) /\ PathOf(t, j) \in Somewhere
            /\ PathOf(t, j) = Append(PathOf(t, t[j].up), t[j].name)
        BY <1>1, <2>2, ForestFacts
      <4>2. s[j].name = t[j].name /\ u = t[j].up
        BY <2>2, <2>3, <3>1
      <4> QED BY <4>1, <4>2 DEF Somewhere
    <3>3. PathOf(s, j) = Append(Went(a), x)
      BY <2>3, <2>5
    <3>4. p # from
      BY <1>1, <2>2, <2>7, PathIsOne
    <3>5. PathOf(s, j) # Went(p)
      BY <2>2
    <3> HIDE DEF a, p, x
    <3>6. CASE IsPrefix(from, a)
      <4>1. IsPrefix(from, Append(a, x)) /\ Swap(Append(a, x), from, to) = Append(Swap(a, from, to), x)
        <5>1. from \in Seq(Nat) /\ to \in Seq(Nat) /\ a \in Seq(Nat) /\ IsPrefix(from, a) /\ x \in Nat
          BY <1>2, <1>4, <3>2, <3>6
        <5> QED BY ONLY <5>1, SwapAppend
      <4> QED BY <3>2, <3>3, <3>5, <3>6, <4>1
    <3>7. CASE ~IsPrefix(from, a)
      <4>1. Front(p) = a /\ p # <<>>
        BY <3>2, AppendPath DEF Somewhere
      <4>2. ~IsPrefix(from, p)
        <5>1. IsStrictPrefix(from, p) <=> IsPrefix(from, a)
          BY <1>2, <3>2, <4>1, FrontProperties
        <5> QED BY <3>4, <3>7, <5>1 DEF IsStrictPrefix
      <4> QED BY <3>2, <3>3, <3>5, <3>7, <4>2
    <3> QED BY <3>6, <3>7
  <2> QED BY <2>6, <2>7
<1>17. \A j \in DOMAIN t : PathOf(s, j) = Went(PathOf(t, j))
  BY <1>16
<1>18. PathOf(s, i) = to
  BY <1>1, <1>15, <1>17
<1> QED BY <1>2, <1>4, <1>5, <1>10, <1>13, <1>17, <1>18

LEMMA NamesMoved ==
  ASSUME NEW t, NEW s, NEW i, NEW up, NEW name, NEW from, NEW to, Moves(t, s, i, up, name, from, to)
  PROVE  NamesOf(s) = MovedAll(NamesOf(t), from, to)
<1>1. DOMAIN s = DOMAIN t
  BY DEF Moves
<1>2. \A j \in DOMAIN t : IF IsPrefix(from, PathOf(t, j)) THEN PathOf(s, j) = Swap(PathOf(t, j), from, to)
                                         ELSE PathOf(s, j) = PathOf(t, j)
  BY PathMoved
<1>3. NamesOf(s) \subseteq MovedAll(NamesOf(t), from, to)
  BY <1>1, <1>2 DEF NamesOf, MovedAll
<1>4. MovedAll(NamesOf(t), from, to) \subseteq NamesOf(s)
  BY <1>1, <1>2 DEF NamesOf, MovedAll
<1> QED BY <1>3, <1>4

-----------------------------------------------------------------------------
(* The two snapshots                                                       *)

LEMMA TreeOfNames ==
  ASSUME NEW t, Regular(t)
  PROVE  DOMAIN TreeOf(t) = NamesOf(t) /\ \A i \in DOMAIN t : TreeOf(t)[PathOf(t, i)] = t[i].node
<1> DEFINE way == LET path[i \in DOMAIN t \cup {0}] == IF i = 0 THEN <<>> ELSE Append(path[t[i].up], t[i].name)
                  IN  path
           Paths == {way[i] : i \in DOMAIN t}
           NodeAt(p) == t[CHOOSE i \in DOMAIN t : way[i] = p].node
<1>1. TreeOf(t) = [p \in Paths |-> NodeAt(p)]
  BY DEF TreeOf
<1>2. \A i \in DOMAIN t : PathOf(t, i) = way[i]
  BY DEF PathOf
<1> HIDE DEF way
<1>3. Paths = NamesOf(t)
  BY <1>2 DEF NamesOf
<1>4. ASSUME NEW i \in DOMAIN t
      PROVE  NodeAt(PathOf(t, i)) = t[i].node
  <2> DEFINE p == PathOf(t, i)
             j == CHOOSE x \in DOMAIN t : way[x] = p
  <2>1. j \in DOMAIN t /\ way[j] = p
    BY <1>2
  <2>2. PathOf(t, j) = PathOf(t, i)
    BY <1>2, <2>1
  <2> HIDE DEF j
  <2>3. j = i
    BY <2>1, <2>2, PathIsOne
  <2> QED BY <2>3 DEF j
<1>5. \A i \in DOMAIN t : PathOf(t, i) \in Paths
  BY <1>2
<1> HIDE DEF Paths, NodeAt
<1> QED BY <1>1, <1>3, <1>4, <1>5

Named(t) == \A i \in DOMAIN t : t[i].name \in Name /\ DOMAIN t[i] = {"up", "name", "node"}
InDirectories(t) == \A i \in DOMAIN t : t[i].up # 0 => t[i].up \in DOMAIN t /\ t[t[i].up].node.type = "dir"
SamePlace(i) == pre[i].up = post[i].up /\ pre[i].name = post[i].name
Known ==
  /\ \A t \in {pre, post} : Regular(t) /\ Named(t) /\ InDirectories(t)
  /\ \A i \in DOMAIN post : i \in DOMAIN pre \/ ~Special(post[i].node)
  /\ \A i \in DOMAIN pre \cap DOMAIN post : pre[i].node.type = post[i].node.type
  /\ ~(MovesDir /\ ReusesDir)

LEMMA SnapshotIsKnown ==
  ASSUME NEW t, IsForest(t), Ordered(t), IsSnapshot(TreeOf(t))
  PROVE  Regular(t) /\ Named(t) /\ InDirectories(t)
<1>1. Forest(t)
  BY IsForestMeans
<1>2. OneEach(t) /\ Named(t) /\ \A i \in DOMAIN t : t[i].up \in DOMAIN t \cup {0}
  BY DEF IsForest, OneEach, Named
<1>3. Regular(t)
  BY <1>1, <1>2 DEF Regular
<1>4. ASSUME NEW i \in DOMAIN t, t[i].up # 0
      PROVE  t[i].up \in DOMAIN t /\ t[t[i].up].node.type = "dir"
  <2>1. t[i].up \in DOMAIN t
    BY <1>2, <1>4
  <2> DEFINE u == t[i].up
             p == PathOf(t, i)
             w == PathOf(t, u)
             r == TreeOf(t)
  <2>2. DOMAIN r = NamesOf(t) /\ r[w] = t[u].node
    BY <1>3, <2>1, TreeOfNames
  <2>3. p \in NamesOf(t) /\ Front(p) = w /\ w \in Somewhere
    BY <1>1, <2>1, ForestFacts DEF NamesOf
  <2> HIDE DEF u, p, w, r
  <2>4. IsDir(r, Front(p))
    BY <2>2, <2>3 DEF IsSnapshot, IsTree, r
  <2>5. r[w].type = "dir"
    BY <2>3, <2>4 DEF IsDir, Somewhere
  <2> QED BY <2>1, <2>2, <2>5 DEF u
<1> QED BY <1>2, <1>3, <1>4 DEF InDirectories

LEMMA SnapshotsAreKnown ==
  ASSUME Same, Followable
  PROVE  Known
<1>1. IsForest(pre) /\ IsForest(post)
  BY SnapshotForests
<1>2. IsSnapshot(TreeOf(pre)) /\ IsSnapshot(TreeOf(post))
  BY SameSnapshots DEF Snapshots, Tree1, Tree2
<1>3. Ordered(pre) /\ Ordered(post) /\ ~(MovesDir /\ ReusesDir)
  BY DEF Followable
<1>4. /\ \A i \in DOMAIN post : i \in DOMAIN pre \/ ~Special(post[i].node)
      /\ \A i \in DOMAIN pre \cap DOMAIN post : pre[i].node.type = post[i].node.type
  BY DEF Followable, SameFiles
<1>5. \A t \in {pre, post} : Regular(t) /\ Named(t) /\ InDirectories(t)
  BY <1>1, <1>2, <1>3, SnapshotIsKnown
<1> QED BY <1>3, <1>4, <1>5 DEF Known

LEMMA SingleName ==
  ASSUME NEW x \in Nat, NEW q \in Somewhere, IsPrefix(q, <<x>>)
  PROVE  q = <<x>>
<1> DEFINE o == <<x>>
<1>1. o \in Seq(Nat) /\ Len(o) = 1
  OBVIOUS
<1>2. q \in Seq(Nat) /\ Len(q) > 0 /\ Len(q) \in Nat
  BY EmptyPrefix, LenProperties DEF Somewhere
<1>3. IsPrefix(q, o)
  OBVIOUS
<1> HIDE DEF o
<1>4. Len(o) <= Len(q)
  BY <1>1, <1>2
<1>5. q = o
  BY <1>1, <1>2, <1>3, <1>4, PrefixOrder
<1> QED BY <1>5 DEF o

LEMMA FirstName ==
  ASSUME NEW t, Regular(t), Named(t)
  PROVE  \A i \in DOMAIN t : PathOf(t, i)[1] \in Name
<1>1. Forest(t) /\ Ordered(t)
  BY DEF Regular
<1> DEFINE Bad == {i \in DOMAIN t : PathOf(t, i)[1] \notin Name}
<1> SUFFICES ASSUME Bad # {} PROVE FALSE
  OBVIOUS
<1>2. PICK i \in Bad : \A j \in Bad : i <= j
  <2>1. Bad \in SUBSET Nat
    BY <1>1, ForestFacts
  <2> HIDE DEF Bad
  <2> QED BY <2>1, LeastNumber
<1>3. i \in DOMAIN t /\ PathOf(t, i)[1] \notin Name
  BY <1>2
<1> DEFINE u == t[i].up
           x == t[i].name
           w == PathOf(t, u)
<1>4. u \in DOMAIN t \cup {0} /\ x \in Name /\ x \in Nat /\ w \in Seq(Nat) /\ PathOf(t, i) = Append(w, x)
  BY <1>1, <1>3, ForestFacts DEF Named
<1>5. u < i /\ i \in Nat /\ DOMAIN t \subseteq Nat
  BY <1>1, <1>3, ForestFacts DEF Ordered
<1>6. u \notin Bad
  <2> HIDE DEF Bad
  <2>1. u \in Bad => i <= u
    BY <1>2
  <2>2. u \in Nat
    BY <1>4, <1>5
  <2> QED BY <1>5, <2>1, <2>2
<1>7. CASE u = 0
  <2>1. w = <<>>
    BY <1>1, <1>7, ForestFacts
  <2>2. PathOf(t, i)[1] = x
    BY <1>4, <2>1
  <2> QED BY <1>3, <1>4, <2>2
<1>8. CASE u # 0
  <2>1. w[1] \in Name /\ w \in Somewhere
    BY <1>1, <1>4, <1>6, <1>8, ForestFacts
  <2> HIDE DEF w, x
  <2>2. Len(w) \in Nat /\ Len(w) > 0
    BY <2>1, EmptyPrefix DEF Somewhere
  <2>3. Append(w, x)[1] = w[1]
    BY <1>4, <2>2, AppendProperties
  <2> QED BY <1>3, <1>4, <2>1, <2>3
<1> QED BY <1>7, <1>8

(* No file is called like what the kernel makes up.                        *)
LEMMA NoTempName ==
  ASSUME NEW t, Regular(t), Named(t), NEW i \in Ino
  PROVE  <<TempName(i)>> \notin NamesOf(t) /\ \A j \in DOMAIN t : t[j].name # TempName(i)
<1>1. TempName(i) \notin Name
  BY SendStreamConstants
<1>2. \A j \in DOMAIN t : PathOf(t, j) # <<TempName(i)>>
  BY <1>1, FirstName
<1> QED BY <1>1, <1>2 DEF NamesOf, Named

LEMMA TempNames == \A i, j \in Ino : TempName(i) = TempName(j) => i = j
BY SendStreamConstants DEF TempName

LEMMA DirsKept ==
  ASSUME Known, ~MovesDir
  PROVE  \A i \in DOMAIN pre \cap DOMAIN post : pre[i].node.type = "dir" =>
           SamePlace(i) /\ PathOf(pre, i) = PathOf(post, i)
<1>1. /\ Forest(pre) /\ Forest(post) /\ Ordered(pre) /\ InDirectories(pre) /\ InDirectories(post)
  BY DEF Known, Regular
<1>2. \A i \in DOMAIN pre \cap DOMAIN post : pre[i].node.type = "dir" => SamePlace(i)
  BY DEF MovesDir, SamePlace
<1> DEFINE Dirs == {i \in DOMAIN pre \cap DOMAIN post : pre[i].node.type = "dir"}
           Bad == {i \in Dirs : PathOf(pre, i) # PathOf(post, i)}
<1>3. Bad = {}
  <2> SUFFICES ASSUME Bad # {} PROVE FALSE
    OBVIOUS
  <2>1. PICK i \in Bad : \A j \in Bad : i <= j
    <3>1. Bad \in SUBSET Nat
      BY <1>1, ForestFacts
    <3> HIDE DEF Bad
    <3> QED BY <3>1, LeastNumber
  <2>2. i \in Dirs /\ PathOf(pre, i) # PathOf(post, i)
    BY <2>1
  <2> DEFINE u == pre[i].up
             x == pre[i].name
  <2>3. u = post[i].up /\ x = post[i].name
    BY <1>2, <2>2 DEF SamePlace
  <2>4. PathOf(pre, i) = Append(PathOf(pre, u), x)
    BY <1>1, <2>2, ForestFacts
  <2>5. PathOf(post, i) = Append(PathOf(post, u), x)
    BY <1>1, <2>2, <2>3, ForestFacts
  <2>6. PathOf(pre, u) # PathOf(post, u)
    BY <2>2, <2>4, <2>5
  <2>7. u # 0
    BY <1>1, <2>6, ForestFacts
  <2>8. u \in Dirs
    <3>1. u \in DOMAIN pre /\ pre[u].node.type = "dir"
      BY <1>1, <2>2, <2>7 DEF InDirectories
    <3>2. u \in DOMAIN post
      BY <1>1, <2>2, <2>3, <2>7 DEF InDirectories
    <3> QED BY <3>1, <3>2
  <2>9. u \in Bad
    BY <2>6, <2>8
  <2>10. u < i /\ u \in Nat /\ i \in Nat
    <3>1. u < i
      BY <1>1, <2>2 DEF Ordered
    <3>2. DOMAIN pre \subseteq Nat
      BY <1>1, ForestFacts
    <3> QED BY <2>2, <2>8, <3>1, <3>2
  <2> HIDE DEF Bad, u
  <2>11. i <= u
    BY <2>1, <2>9
  <2> QED BY <2>10, <2>11
<1> QED BY <1>2, <1>3

(* A directory with the same name as before is where it was.               *)
LEMMA NameKept ==
  ASSUME Known, NEW i \in DOMAIN pre \cap DOMAIN post, pre[i].node.type = "dir",
         PathOf(pre, i) = PathOf(post, i)
  PROVE  SamePlace(i)
<1>1. /\ Forest(pre) /\ Forest(post) /\ InDirectories(pre) /\ InDirectories(post) /\ ~(MovesDir /\ ReusesDir)
  BY DEF Known, Regular
<1> SUFFICES ASSUME ~SamePlace(i) PROVE FALSE
  OBVIOUS
<1>2. MovesDir
  BY DEF MovesDir, SamePlace
<1> DEFINE u == pre[i].up
           x == pre[i].name
           v == PathOf(pre, u)
           w == post[i].up
           y == post[i].name
           z == PathOf(post, w)
<1>3. PathOf(pre, i) = Append(v, x) /\ v \in Seq(Nat) /\ x \in Nat /\ u \in DOMAIN pre \cup {0}
  BY <1>1, ForestFacts
<1>4. PathOf(post, i) = Append(z, y) /\ z \in Seq(Nat) /\ y \in Nat /\ w \in DOMAIN post \cup {0}
  BY <1>1, ForestFacts
<1>5. v = z /\ x = y
  <2>1. Append(v, x) = Append(z, y)
    BY <1>3, <1>4
  <2> HIDE DEF v, x, y, z
  <2> QED BY <1>3, <1>4, <2>1, AppendEqual
<1>6. u # w
  BY <1>5 DEF SamePlace
<1>7. (u = 0 <=> v = <<>>) /\ (w = 0 <=> z = <<>>)
  <2>1. (u = 0 => v = <<>>) /\ (w = 0 => z = <<>>)
    BY <1>1, ForestFacts
  <2>2. (u \in DOMAIN pre => v \in Somewhere) /\ (w \in DOMAIN post => z \in Somewhere)
    BY <1>1, ForestFacts
  <2> HIDE DEF u, v, w, z
  <2> QED BY <1>3, <1>4, <2>1, <2>2 DEF Somewhere
<1>8. u \in DOMAIN pre /\ w \in DOMAIN post
  BY <1>3, <1>4, <1>5, <1>6, <1>7
<1>9. pre[u].node.type = "dir"
  BY <1>1, <1>8, <1>7, <1>3, ForestFacts DEF InDirectories
<1>10. ReusesDir
  BY <1>5, <1>6, <1>8, <1>9 DEF ReusesDir
<1> QED BY <1>1, <1>2, <1>10

LEMMA NamesTaken ==
  ASSUME Known, NEW i \in DOMAIN pre, NEW j \in DOMAIN post, i # j, PathOf(pre, i) = PathOf(post, j),
         pre[i].node.type = "dir" \/ post[j].node.type = "dir"
  PROVE  ~MovesDir
BY DEF Known, ReusesDir

LEMMA CmpFilesFlags ==
  ASSUME NEW n, NEW m
  PROVE  CmpFiles(n, n) = {} /\ CmpFiles(n, m) \cap Only = {}
BY DEF CmpFiles, CmpFilesContent, Only

-----------------------------------------------------------------------------
(* Where the files are, after some of the commands                         *)

Unmoved(c, i) == i \in DOMAIN pre /\ c[i].up = pre[i].up /\ c[i].name = pre[i].name
Away(c, i) == c[i].up = 0 /\ c[i].name = TempName(i)
There(c, i) == i \in DOMAIN post /\ c[i].up = post[i].up /\ c[i].name = post[i].name
Over(c, i) ==
  IF i \in DOMAIN post THEN i \in DOMAIN c /\ There(c, i) /\ c[i].node = post[i].node
  ELSE i \in DOMAIN c => Away(c, i)
Fresh(c, i) ==
  IF i \in DOMAIN pre THEN i \in DOMAIN c /\ (Unmoved(c, i) \/ Away(c, i)) /\ c[i].node = pre[i].node
  ELSE i \notin DOMAIN c
OverBelow(c, n) == \A m \in Ino : m < n => Over(c, m)
NodeSent(c, i) ==
  \/ i \in DOMAIN pre /\ c[i].node = pre[i].node
  \/ There(c, i) /\ c[i].node = post[i].node
  \/ i \in DOMAIN post \ DOMAIN pre /\ c[i].node = Bare(post[i].node)

(* The kernel goes from number to number.  A file whose turn has not come  *)
(* is as it was, or was renamed away because it stood in the way, and then *)
(* the directory it was in is done with.                                   *)
FileSent(c, i) ==
  /\ "node" \in DOMAIN c[i] /\ i \in DOMAIN pre \cup DOMAIN post
  /\ Unmoved(c, i) \/ Away(c, i) \/ There(c, i)
  /\ NodeSent(c, i)
  /\ i \in DOMAIN pre /\ Away(c, i) =>
       /\ pre[i].up = 0 \/ Over(c, pre[i].up)
       /\ i \in DOMAIN post => ~SamePlace(i)
Sending(c) ==
  /\ Forest(c) /\ OneEach(c)
  /\ DOMAIN pre \cap DOMAIN post \subseteq DOMAIN c
  /\ \A i \in DOMAIN c : FileSent(c, i)
  /\ \A i \in Ino : Fresh(c, i) \/ OverBelow(c, i)

LEMMA KnownForests ==
  ASSUME Known
  PROVE  /\ DOMAIN pre \subseteq Ino /\ DOMAIN post \subseteq Ino /\ Ino \subseteq Nat \ {0}
         /\ Forest(pre) /\ Ordered(pre) /\ Forest(post) /\ Ordered(post)
         /\ \A i \in DOMAIN pre : pre[i].up < i /\ pre[i].up \in DOMAIN pre \cup {0}
         /\ \A i \in DOMAIN post : post[i].up < i /\ post[i].up \in DOMAIN post \cup {0}
<1>1. Forest(pre) /\ Ordered(pre) /\ Forest(post) /\ Ordered(post)
  BY DEF Known, Regular
<1>2. DOMAIN pre \subseteq Ino /\ DOMAIN post \subseteq Ino
  BY <1>1 DEF Forest
<1>3. \A i \in DOMAIN pre : pre[i].up < i /\ pre[i].up \in DOMAIN pre \cup {0}
  BY <1>1, ForestFacts DEF Ordered
<1>4. \A i \in DOMAIN post : post[i].up < i /\ post[i].up \in DOMAIN post \cup {0}
  BY <1>1, ForestFacts DEF Ordered
<1> QED BY <1>1, <1>2, <1>3, <1>4, SendStreamConstants

LEMMA RegularNow ==
  ASSUME Known, NEW c, Sending(c)
  PROVE  Regular(c) /\ DOMAIN c \subseteq Ino
<1>1. DOMAIN c \subseteq Ino /\ Ino \subseteq Nat \ {0}
  BY SendStreamConstants DEF Sending, Forest
<1>2. ASSUME NEW i \in DOMAIN c
      PROVE  c[i].up < i
  <2>1. CASE Unmoved(c, i)
    BY <2>1, KnownForests DEF Unmoved
  <2>2. CASE There(c, i)
    BY <2>2, KnownForests DEF There
  <2>3. CASE Away(c, i)
    <3>1. c[i].up = 0
      BY <2>3 DEF Away
    <3>2. i \in Nat /\ i # 0
      BY <1>1
    <3> QED BY <3>1, <3>2
  <2> QED BY <2>1, <2>2, <2>3 DEF Sending, FileSent
<1> QED BY <1>1, <1>2 DEF Regular, Sending, Ordered

(* The names of what is done with                                          *)
LEMMA OverPaths ==
  ASSUME Known, NEW c, Sending(c), NEW n \in Nat, OverBelow(c, n)
  PROVE  /\ \A u \in DOMAIN post \cup {0} : u < n => u \in DOMAIN c \cup {0} /\ PathOf(c, u) = PathOf(post, u)
         /\ \A u \in DOMAIN c \ DOMAIN post : u < n => PathOf(c, u) = <<TempName(u)>>
<1>1. Regular(c) /\ Forest(c) /\ Forest(post) /\ Ordered(post) /\ DOMAIN c \subseteq Ino
  BY RegularNow, KnownForests DEF Regular
<1>2. PathOf(c, 0) = <<>> /\ PathOf(post, 0) = <<>>
  BY <1>1, ForestFacts
<1>3. ASSUME NEW u \in DOMAIN c \ DOMAIN post, u < n
      PROVE  PathOf(c, u) = <<TempName(u)>>
  <2>1. c[u].up = 0 /\ c[u].name = TempName(u)
    BY <1>1, <1>3 DEF OverBelow, Over, Away
  <2>2. PathOf(c, u) = Append(<<>>, TempName(u))
    <3>1. PathOf(c, u) = Append(PathOf(c, c[u].up), c[u].name)
      BY <1>1, <1>3, ForestFacts
    <3> QED BY <1>2, <2>1, <3>1
  <2> QED BY <2>2
<1>4. \A u \in DOMAIN post : u < n => u \in DOMAIN c /\ c[u].up = post[u].up /\ c[u].name = post[u].name
  BY KnownForests DEF OverBelow, Over, There
<1> DEFINE Bad == {u \in DOMAIN post : u < n /\ PathOf(c, u) # PathOf(post, u)}
<1>5. Bad = {}
  <2> SUFFICES ASSUME Bad # {} PROVE FALSE
    OBVIOUS
  <2>1. PICK u \in Bad : \A j \in Bad : u <= j
    <3>1. Bad \in SUBSET Nat
      BY KnownForests
    <3> HIDE DEF Bad
    <3> QED BY <3>1, LeastNumber
  <2>2. u \in DOMAIN post /\ u < n /\ PathOf(c, u) # PathOf(post, u)
    BY <2>1
  <2> DEFINE v == post[u].up
             x == post[u].name
  <2>3. u \in DOMAIN c /\ c[u].up = v /\ c[u].name = x
    BY <1>4, <2>2
  <2>4. PathOf(c, u) = Append(PathOf(c, v), x)
    BY <1>1, <2>3, ForestFacts
  <2>5. PathOf(post, u) = Append(PathOf(post, v), x)
    BY <1>1, <2>2, ForestFacts
  <2>6. PathOf(c, v) # PathOf(post, v)
    BY <2>2, <2>4, <2>5
  <2>7. v < u /\ v \in DOMAIN post \cup {0} /\ u \in Nat
    BY <2>2, KnownForests
  <2>8. v \in DOMAIN post /\ v \in Nat
    BY <1>2, <2>6, <2>7, KnownForests
  <2>9. v < n
    BY <2>2, <2>7, <2>8
  <2>10. v \in Bad
    BY <2>6, <2>8, <2>9
  <2> HIDE DEF Bad, v
  <2>11. u <= v
    BY <2>1, <2>10
  <2> QED BY <2>7, <2>8, <2>11
<1> QED BY <1>2, <1>3, <1>4, <1>5

LEMMA TurnMeans ==
  ASSUME Known, Sending(cur), NEW i \in Ino, Turn(i)
  PROVE  OverBelow(cur, i)
<1> SUFFICES ASSUME NEW j \in Ino, j < i PROVE Over(cur, j)
  BY DEF OverBelow
<1>1. Settled(j)
  BY DEF Turn
<1>2. CASE j \in DOMAIN post
  BY <1>1, <1>2 DEF Settled, Placed, Over, There
<1>3. CASE j \notin DOMAIN post /\ j \in DOMAIN cur
  <2>1. cur[j].name = TempName(j)
    BY <1>1, <1>3 DEF Settled
  <2>2. ~There(cur, j)
    BY <1>3 DEF There
  <2>3. ~Unmoved(cur, j)
    <3>1. Regular(pre) /\ Named(pre)
      BY DEF Known
    <3> QED BY <2>1, <3>1, NoTempName DEF Unmoved
  <2>4. Away(cur, j)
    BY <1>3, <2>2, <2>3 DEF Sending, FileSent
  <2> QED BY <1>3, <2>4 DEF Over
<1>4. CASE j \notin DOMAIN post /\ j \notin DOMAIN cur
  BY <1>4 DEF Over
<1> QED BY <1>2, <1>3, <1>4

(* One file is made, deleted, moved or changed.                            *)
OnlyOne(c, s, i) ==
  /\ DOMAIN s \subseteq DOMAIN c \cup {i} /\ DOMAIN c \subseteq DOMAIN s \cup {i}
  /\ \A j \in DOMAIN s : j # i => s[j] = c[j]

LEMMA SendingOn ==
  ASSUME Known, NEW c, Sending(c), NEW s, Forest(s), OneEach(s), NEW i \in Ino, OnlyOne(c, s, i),
         Over(c, i) => Over(s, i), Fresh(s, i) \/ OverBelow(c, i),
         i \in DOMAIN s => FileSent(s, i), i \in DOMAIN pre \cap DOMAIN post => i \in DOMAIN s
  PROVE  Sending(s) /\ \A m \in Ino : Over(c, m) => Over(s, m)
<1>1. \A j : j # i => (j \in DOMAIN s <=> j \in DOMAIN c) /\ (j \in DOMAIN s => s[j] = c[j])
  BY DEF OnlyOne
<1>2. \A j : j # i => Over(s, j) = Over(c, j) /\ Fresh(s, j) = Fresh(c, j)
  <2> TAKE j
  <2> HAVE j # i
  <2>1. (j \in DOMAIN s <=> j \in DOMAIN c) /\ (j \in DOMAIN s => s[j] = c[j])
    BY <1>1
  <2>2. Over(s, j) = Over(c, j)
    BY <2>1 DEF Over, There, Away
  <2>3. Fresh(s, j) = Fresh(c, j)
    BY <2>1 DEF Fresh, Unmoved, Away
  <2> QED BY <2>2, <2>3
<1>3. \A m : Over(c, m) => Over(s, m)
  BY <1>2
<1>4. \A n : OverBelow(c, n) => OverBelow(s, n)
  BY <1>3 DEF OverBelow
<1>5. DOMAIN pre \cap DOMAIN post \subseteq DOMAIN s
  BY <1>1 DEF Sending
<1>6. ASSUME NEW j \in DOMAIN s, j # i
      PROVE  FileSent(s, j)
  <2>1. j \in DOMAIN c /\ s[j] = c[j] /\ FileSent(c, j)
    BY <1>1, <1>6 DEF Sending
  <2> QED BY <1>3, <2>1 DEF FileSent, Unmoved, Away, There, NodeSent
<1>7. ASSUME NEW j \in Ino
      PROVE  Fresh(s, j) \/ OverBelow(s, j)
  BY <1>2, <1>4 DEF Sending
<1> QED BY <1>3, <1>5, <1>6, <1>7 DEF Sending

-----------------------------------------------------------------------------
(* What a command does to the files                                        *)

LEMMA PutMeans ==
  ASSUME Known, Sending(cur), NEW i \in DOMAIN cur, NEW up \in DOMAIN cur \cup {0}, up < i,
         up # 0 => ~IsPrefix(PathOf(cur, i), PathOf(cur, up)),
         NEW name \in Nat, \A j \in DOMAIN cur : cur[j].up # up \/ cur[j].name # name,
         Put(i, up, name), NEW s, s = cur'
  PROVE  /\ Moves(cur, s, i, up, name, PathOf(cur, i), Append(PathOf(cur, up), name))
         /\ s[i].node = cur[i].node /\ "node" \in DOMAIN s[i] /\ OnlyOne(cur, s, i)
<1>1. Regular(cur) /\ Forest(cur) /\ Ordered(cur) /\ OneEach(cur) /\ {"up", "name", "node"} \subseteq DOMAIN cur[i]
  BY RegularNow DEF Regular, Sending, FileSent, Forest
<1>2. s = [cur EXCEPT ![i].up = up, ![i].name = name]
  BY DEF Put
<1>3. DOMAIN s = DOMAIN cur /\ \A j \in DOMAIN cur : j # i => s[j] = cur[j]
  BY <1>2
<1>4. s[i].up = up /\ s[i].name = name /\ {"up", "name", "node"} \subseteq DOMAIN s[i] /\ s[i].node = cur[i].node
  BY <1>1, <1>2
<1> HIDE <1>2
<1>5. Forest(s)
  <2>1. {"up", "name"} \subseteq DOMAIN s[i] /\ s[i].name \in Nat
    BY <1>4
  <2> QED BY <1>1, <1>3, <1>4, <2>1, ForestMoved
<1>6. Ordered(s)
  BY <1>1, <1>3, <1>4 DEF Ordered
<1>7. OneEach(s)
  BY <1>1, <1>3, <1>4 DEF OneEach
<1>8. Regular(s)
  BY <1>5, <1>6, <1>7 DEF Regular
<1>9. OnlyOne(cur, s, i)
  BY <1>3 DEF OnlyOne
<1> QED BY <1>1, <1>3, <1>4, <1>8, <1>9 DEF Moves

LEMMA MakeSent ==
  ASSUME Known, Sending(cur), NEW i \in Ino, Make(i), NEW s, s = cur'
  PROVE  /\ OverBelow(cur, i) /\ i \notin DOMAIN cur /\ i \in DOMAIN post \ DOMAIN pre
         /\ files' = Created(files, <<TempName(i)>>)
         /\ DOMAIN s = DOMAIN cur \cup {i} /\ Away(s, i) /\ \A j \in DOMAIN cur : s[j] = cur[j]
         /\ Sending(s)
<1>1. i \in DOMAIN post /\ i \notin DOMAIN cur
  BY DEF Make
<1>2. i \notin DOMAIN pre
  BY <1>1 DEF Sending
<1>3. Turn(i)
  <2> SUFFICES ASSUME NEW k \in DOMAIN post \cap DOMAIN cur, Turn(k), post[k].up = i PROVE FALSE
    BY DEF Make
  <2>1. i < k
    BY KnownForests
  <2>2. Settled(i)
    BY <2>1 DEF Turn
  <2> QED BY <1>1, <2>2 DEF Settled
<1>4. OverBelow(cur, i)
  BY <1>3, TurnMeans
<1>5. files' = Created(files, <<TempName(i)>>)
  <2>1. ~Special(post[i].node)
    BY <1>1, <1>2 DEF Known
  <2> QED BY <2>1 DEF Make
<1> DEFINE x == [up |-> 0, name |-> TempName(i), node |-> Bare(post[i].node)]
<1>6. s = [j \in DOMAIN cur \cup {i} |-> IF j = i THEN x ELSE cur[j]]
  BY DEF Make
<1>7. DOMAIN s = DOMAIN cur \cup {i} /\ s[i] = x /\ \A j \in DOMAIN cur : s[j] = cur[j]
  BY <1>1, <1>6
<1>8. x.up = 0 /\ x.name = TempName(i) /\ x.name \in Nat /\ x.node = Bare(post[i].node) /\ {"up", "name", "node"} \subseteq DOMAIN x
  BY TempNameIsName
<1> HIDE DEF x
<1>9. Forest(s)
  <2>1. {"up", "name"} \subseteq DOMAIN x
    BY <1>8
  <2> QED BY <1>1, <1>6, <1>8, <2>1, ForestWith DEF Sending
<1>10. Away(s, i)
  BY <1>7, <1>8 DEF Away
<1>11. \A j \in DOMAIN cur : cur[j].name # TempName(i)
  <2> TAKE j \in DOMAIN cur
  <2>1. j \in Ino /\ j # i
    BY <1>1, RegularNow
  <2>2. Regular(pre) /\ Named(pre) /\ Regular(post) /\ Named(post)
    BY DEF Known
  <2>3. CASE Unmoved(cur, j)
    BY <2>2, <2>3, NoTempName DEF Unmoved
  <2>4. CASE There(cur, j)
    BY <2>2, <2>4, NoTempName DEF There
  <2>5. CASE Away(cur, j)
    BY <2>1, <2>5, TempNames DEF Away
  <2> QED BY <2>3, <2>4, <2>5 DEF Sending, FileSent
<1>12. OneEach(s)
  BY <1>7, <1>8, <1>11 DEF OneEach, Sending
<1>13. OnlyOne(cur, s, i)
  BY <1>7 DEF OnlyOne
<1>14. ~Over(cur, i)
  BY <1>1 DEF Over
<1>15. FileSent(s, i)
  BY <1>1, <1>2, <1>7, <1>8, <1>10 DEF FileSent, NodeSent
<1>16. i \in DOMAIN s
  BY <1>7
<1>17. Sending(s)
  BY <1>4, <1>9, <1>12, <1>13, <1>14, <1>15, <1>16, SendingOn
<1> QED BY <1>1, <1>2, <1>4, <1>5, <1>7, <1>10, <1>17

(* A file that is about to go away from its name: it is not where it is to *)
(* be, and the directory it is in is done with.                            *)
Leaves(c, i) == i \in DOMAIN c /\ ~There(c, i) /\ \A m \in Ino : m <= c[i].up => Over(c, m)

LEMMA TurnLeaves ==
  ASSUME Known, Sending(cur), NEW i \in DOMAIN cur, OverBelow(cur, i), ~There(cur, i)
  PROVE  Leaves(cur, i)
<1>1. Forest(cur) /\ Ordered(cur) /\ DOMAIN cur \subseteq Ino
  BY RegularNow DEF Regular
<1>2. cur[i].up < i /\ cur[i].up \in Nat /\ i \in Nat /\ Ino \subseteq Nat
  <2>1. cur[i].up < i
    BY <1>1 DEF Ordered
  <2>2. cur[i].up \in DOMAIN cur \cup {0} /\ DOMAIN cur \subseteq Nat
    BY <1>1, ForestFacts
  <2> QED BY <2>1, <2>2, KnownForests
<1>3. \A m \in Ino : m <= cur[i].up => m < i
  BY <1>2
<1> QED BY <1>3 DEF Leaves, OverBelow

LEMMA EvictMeans ==
  ASSUME Known, Sending(cur), NEW i \in Ino, Evict(i)
  PROVE  /\ i \in DOMAIN cur /\ Unmoved(cur, i) /\ Leaves(cur, i) /\ cur[i].node = pre[i].node
         /\ Fresh(cur, i) \/ OverBelow(cur, i)
         /\ i \in DOMAIN post => ~SamePlace(i)
<1>1. i \in DOMAIN cur
  BY DEF Evict
<1>2. Regular(pre) /\ Named(pre) /\ Regular(post) /\ Named(post)
  BY DEF Known
<1>3. CASE \E k \in DOMAIN post \cap DOMAIN cur : Turn(k) /\ ~Placed(k) /\ InTheWay(k, i)
  <2>1. PICK k \in DOMAIN post \cap DOMAIN cur : Turn(k) /\ ~Placed(k) /\ InTheWay(k, i)
    BY <1>3
  <2>2. i # k /\ cur[i].up = post[k].up /\ cur[i].name = post[k].name
    BY <2>1 DEF InTheWay
  <2>3. k \in Ino /\ k \in Nat /\ i \in Nat /\ OverBelow(cur, k)
    BY <2>1, TurnMeans, KnownForests
  <2>4. ~There(cur, i)
    BY <1>2, <2>2 DEF There, Regular, OneEach
  <2>5. cur[i].name # TempName(i)
    BY <1>2, <2>2, NoTempName
  <2>6. ~Away(cur, i)
    BY <2>5 DEF Away
  <2>7. Unmoved(cur, i)
    BY <1>1, <2>4, <2>6 DEF Sending, FileSent
  <2>8. ~Settled(i)
    BY <1>1, <2>4, <2>5 DEF Settled, Placed, There
  <2>9. ~(i < k)
    BY <2>1, <2>8 DEF Turn
  <2>10. k < i
    BY <2>2, <2>3, <2>9
  <2>11. Fresh(cur, i)
    <3>1. ~Over(cur, k)
      BY <2>1 DEF Over, There, Placed
    <3> QED BY <2>3, <2>10, <3>1 DEF Sending, OverBelow
  <2>12. cur[i].node = pre[i].node
    BY <2>7, <2>11 DEF Fresh, Unmoved
  <2>13. \A m \in Ino : m <= cur[i].up => Over(cur, m)
    <3>1. post[k].up < k /\ post[k].up \in Nat /\ Ino \subseteq Nat
      BY <2>1, KnownForests
    <3>2. \A m \in Ino : m <= post[k].up => m < k
      BY <2>3, <3>1
    <3> QED BY <2>2, <2>3, <3>2 DEF OverBelow
  <2>14. i \in DOMAIN post => ~SamePlace(i)
    BY <2>4, <2>7 DEF SamePlace, There, Unmoved
  <2> QED BY <1>1, <2>4, <2>7, <2>11, <2>12, <2>13, <2>14 DEF Leaves
<1>4. CASE Turn(i) /\ i \notin DOMAIN post /\ ~Empty(i)
  <2>1. OverBelow(cur, i) /\ ~There(cur, i)
    BY <1>4, TurnMeans DEF There
  <2>2. ~Away(cur, i)
    BY <1>4 DEF Away, Turn, Settled
  <2>3. Unmoved(cur, i)
    BY <1>1, <2>1, <2>2 DEF Sending, FileSent
  <2>4. cur[i].node = pre[i].node
    BY <1>1, <1>4 DEF Sending, FileSent, NodeSent, There
  <2>5. Leaves(cur, i)
    BY <1>1, <2>1, TurnLeaves
  <2> QED BY <1>1, <1>4, <2>1, <2>3, <2>4, <2>5
<1> QED BY <1>3, <1>4 DEF Evict

LEMMA EvictSent ==
  ASSUME Known, Sending(cur), NEW i \in Ino, Evict(i), NEW s, s = cur'
  PROVE  /\ Leaves(cur, i) /\ Moves(cur, s, i, 0, TempName(i), PathOf(cur, i), <<TempName(i)>>)
         /\ Away(s, i) /\ s[i].node = cur[i].node /\ Sending(s)
<1>1. /\ i \in DOMAIN cur /\ Unmoved(cur, i) /\ Leaves(cur, i) /\ cur[i].node = pre[i].node
      /\ Fresh(cur, i) \/ OverBelow(cur, i)
      /\ i \in DOMAIN post => ~SamePlace(i)
  BY EvictMeans
<1>2. Put(i, 0, TempName(i)) /\ TempName(i) \in Nat /\ 0 < i
  <2>1. Put(i, 0, TempName(i))
    BY DEF Evict
  <2>2. i \in Nat /\ i # 0
    BY KnownForests
  <2>3. 0 < i
    BY ONLY <2>2
  <2>4. TempName(i) \in Nat
    BY TempNameIsName
  <2> QED BY <2>1, <2>3, <2>4
<1>3. \A j \in DOMAIN cur : cur[j].up # 0 \/ cur[j].name # TempName(i)
  <2> TAKE j \in DOMAIN cur
  <2>2. Regular(pre) /\ Named(pre) /\ Regular(post) /\ Named(post)
    BY DEF Known
  <2>3. CASE Unmoved(cur, j)
    BY <2>2, <2>3, NoTempName DEF Unmoved
  <2>4. CASE There(cur, j)
    BY <2>2, <2>4, NoTempName DEF There
  <2>5. CASE Away(cur, j)
    <3>1. j = i => cur[j].name # TempName(i)
      BY <1>1, <2>2, NoTempName DEF Unmoved
    <3> QED BY <2>5, <3>1, TempNames, RegularNow DEF Away
  <2> QED BY <2>3, <2>4, <2>5 DEF Sending, FileSent
<1>4. PathOf(cur, 0) = <<>>
  BY ForestFacts DEF Sending
<1> DEFINE from == PathOf(cur, i)
           name == TempName(i)
           to == Append(PathOf(cur, 0), name)
<1>5. Moves(cur, s, i, 0, name, from, to) /\ s[i].node = cur[i].node /\ "node" \in DOMAIN s[i] /\ OnlyOne(cur, s, i)
  BY <1>1, <1>2, <1>3, PutMeans
<1>6. to = <<name>>
  <2>1. Append(<<>>, name) = <<name>>
    OBVIOUS
  <2> QED BY <1>4, <2>1
<1>7. Away(s, i) /\ i \in DOMAIN s /\ Forest(s) /\ OneEach(s)
  BY <1>5 DEF Moves, Away, Regular
<1>8. ~Over(cur, i)
  <2>1. ~There(cur, i)
    BY <1>1 DEF Leaves
  <2>2. ~Away(cur, i)
    <3>1. Regular(pre) /\ Named(pre)
      BY DEF Known
    <3> QED BY <1>1, <3>1, NoTempName DEF Away, Unmoved
  <2> QED BY <1>1, <2>1, <2>2 DEF Over
<1>9. Fresh(s, i) \/ OverBelow(cur, i)
  <2>1. Fresh(cur, i) => Fresh(s, i)
    BY <1>1, <1>5, <1>7 DEF Fresh
  <2> QED BY <1>1, <2>1
<1>10. i \in DOMAIN pre /\ cur[i].up = pre[i].up
  BY <1>1 DEF Unmoved
<1>11. pre[i].up # 0 => Over(s, pre[i].up)
  <2> SUFFICES ASSUME pre[i].up # 0 PROVE Over(s, pre[i].up)
    OBVIOUS
  <2> DEFINE u == pre[i].up
  <2>1. u \in Ino /\ u \in Nat /\ u < i /\ i \in Nat
    BY <1>10, KnownForests
  <2>2. Over(cur, u)
    BY <1>1, <1>10, <2>1 DEF Leaves
  <2>3. u # i /\ (u \in DOMAIN s <=> u \in DOMAIN cur) /\ (u \in DOMAIN s => s[u] = cur[u])
    BY <1>5, <2>1 DEF OnlyOne
  <2> HIDE DEF u
  <2>4. Over(s, u)
    BY <2>2, <2>3 DEF Over, Away, There
  <2> QED BY <2>4 DEF u
<1>12. FileSent(s, i)
  BY <1>1, <1>5, <1>7, <1>10, <1>11 DEF FileSent, NodeSent
<1>13. Sending(s)
  BY <1>5, <1>7, <1>8, <1>9, <1>12, SendingOn
<1> QED BY <1>1, <1>5, <1>6, <1>7, <1>13

LEMMA PlaceSent ==
  ASSUME Known, Sending(cur), NEW i \in Ino, CanPlace(i), Put(i, post[i].up, post[i].name), NEW s, s = cur'
  PROVE  /\ i \in DOMAIN post \cap DOMAIN cur /\ OverBelow(cur, i) /\ Leaves(cur, i)
         /\ Moves(cur, s, i, post[i].up, post[i].name, PathOf(cur, i), PathOf(post, i))
         /\ There(s, i) /\ s[i].node = cur[i].node /\ Sending(s)
<1>1. /\ i \in DOMAIN post /\ i \in DOMAIN cur /\ Turn(i) /\ ~Placed(i)
      /\ post[i].up \in DOMAIN cur \cup {0} /\ ~IsPrefix(PathOf(cur, i), PathOf(cur, post[i].up))
      /\ \A j \in DOMAIN cur : ~InTheWay(i, j)
  BY DEF CanPlace
<1>2. OverBelow(cur, i)
  BY <1>1, TurnMeans
<1>3. ~There(cur, i)
  BY <1>1 DEF There, Placed
<1>4. Leaves(cur, i)
  BY <1>1, <1>2, <1>3, TurnLeaves
<1>5. post[i].name \in Nat /\ post[i].name \in Name /\ post[i].up < i /\ i \in Nat /\ post[i].up \in DOMAIN post \cup {0}
  BY <1>1, KnownForests, ForestFacts DEF Known, Named
<1>6. \A j \in DOMAIN cur : cur[j].up # post[i].up \/ cur[j].name # post[i].name
  BY <1>1, <1>3 DEF InTheWay, There
<1> DEFINE from == PathOf(cur, i)
           up == post[i].up
           name == post[i].name
           to == Append(PathOf(cur, up), name)
<1>7. Moves(cur, s, i, up, name, from, to) /\ s[i].node = cur[i].node /\ "node" \in DOMAIN s[i] /\ OnlyOne(cur, s, i)
  BY <1>1, <1>5, <1>6, PutMeans
<1>8. to = PathOf(post, i)
  <2>1. PathOf(cur, up) = PathOf(post, up)
    BY <1>2, <1>5, OverPaths
  <2>2. PathOf(post, i) = Append(PathOf(post, up), name)
    BY <1>1, KnownForests, ForestFacts
  <2> QED BY <2>1, <2>2
<1>9. There(s, i) /\ i \in DOMAIN s /\ Forest(s) /\ OneEach(s)
  BY <1>1, <1>7 DEF Moves, There, Regular
<1>10. ~Over(cur, i)
  BY <1>1, <1>3 DEF Over
<1>11. ~Away(s, i)
  <2>1. Regular(post) /\ Named(post)
    BY DEF Known
  <2> QED BY <1>1, <1>9, <2>1, NoTempName DEF Away, There
<1>12. FileSent(s, i)
  <2>1. FileSent(cur, i)
    BY <1>1 DEF Sending
  <2>2. NodeSent(s, i)
    BY <1>3, <1>7, <2>1 DEF FileSent, NodeSent
  <2> QED BY <1>1, <1>7, <1>9, <1>11, <2>2 DEF FileSent
<1>13. Sending(s)
  BY <1>2, <1>7, <1>9, <1>10, <1>12, SendingOn
<1> QED BY <1>1, <1>2, <1>4, <1>7, <1>8, <1>9, <1>13

LEMMA DeleteSent ==
  ASSUME Known, Sending(cur), NEW i \in Ino, Delete(i), NEW s, s = cur'
  PROVE  /\ i \in DOMAIN cur \ DOMAIN post /\ OverBelow(cur, i) /\ Leaves(cur, i)
         /\ DOMAIN s = DOMAIN cur \ {i} /\ \A j \in DOMAIN s : s[j] = cur[j]
         /\ Sending(s)
<1>1. i \in DOMAIN cur /\ i \notin DOMAIN post /\ Turn(i) /\ Empty(i) /\ s = Restrict(cur, DOMAIN cur \ {i})
  BY DEF Delete
<1>2. OverBelow(cur, i)
  BY <1>1, TurnMeans
<1>3. ~There(cur, i)
  BY <1>1 DEF There
<1>4. Leaves(cur, i)
  BY <1>1, <1>2, <1>3, TurnLeaves
<1>5. DOMAIN s = DOMAIN cur \ {i} /\ \A j \in DOMAIN s : s[j] = cur[j]
  BY <1>1 DEF Restrict
<1>6. Forest(s)
  BY <1>1, ForestWithout DEF Empty, Sending
<1>7. OneEach(s)
  BY <1>5 DEF OneEach, Sending
<1>8. OnlyOne(cur, s, i)
  BY <1>5 DEF OnlyOne
<1>9. Over(s, i)
  BY <1>1, <1>5 DEF Over
<1>10. Sending(s)
  BY <1>1, <1>2, <1>5, <1>6, <1>7, <1>8, <1>9, SendingOn
<1> QED BY <1>1, <1>2, <1>4, <1>5, <1>10

LEMMA ChangeSent ==
  ASSUME Known, Sending(cur), NEW i \in Ino, Change(i), NEW s, s = cur'
  PROVE  /\ i \in DOMAIN cur \cap DOMAIN post /\ OverBelow(cur, i) /\ There(cur, i)
         /\ cur[i].node # post[i].node /\ s[i].node = post[i].node
         /\ DOMAIN s = DOMAIN cur /\ \A j \in DOMAIN cur : j # i => s[j] = cur[j]
         /\ \A j \in DOMAIN cur : s[j].up = cur[j].up /\ s[j].name = cur[j].name
         /\ Sending(s)
<1>1. i \in DOMAIN cur /\ i \in DOMAIN post /\ Turn(i) /\ Placed(i) /\ s = [cur EXCEPT ![i].node = post[i].node]
  BY DEF Change
<1>2. OverBelow(cur, i)
  BY <1>1, TurnMeans
<1>3. There(cur, i) /\ cur[i].node # post[i].node
  BY <1>1 DEF There, Placed, Turn, Settled
<1>4. Forest(cur) /\ FileSent(cur, i) /\ {"up", "name", "node"} \subseteq DOMAIN cur[i]
  BY <1>1 DEF Sending, FileSent, Forest
<1>5. DOMAIN s = DOMAIN cur /\ \A j \in DOMAIN cur : j # i => s[j] = cur[j]
  BY <1>1
<1>6. s[i].node = post[i].node /\ s[i].up = cur[i].up /\ s[i].name = cur[i].name /\ {"up", "name", "node"} \subseteq DOMAIN s[i]
  BY <1>1, <1>4
<1>7. \A j \in DOMAIN cur : s[j].up = cur[j].up /\ s[j].name = cur[j].name
  BY <1>5, <1>6
<1>8. Forest(s)
  <2>1. PICK bound \in Nat : \E depth \in [DOMAIN cur -> 0..bound] : Deep(cur, depth, bound)
    BY <1>4 DEF Forest
  <2>2. PICK depth \in [DOMAIN cur -> 0..bound] : Deep(cur, depth, bound)
    BY <2>1
  <2>3. depth \in [DOMAIN s -> 0..bound] /\ Deep(s, depth, bound)
    BY <1>5, <1>7, <2>2 DEF Deep
  <2>4. \A j \in DOMAIN s : s[j].name \in Nat /\ {"up", "name"} \subseteq DOMAIN s[j]
    BY <1>4, <1>5, <1>6 DEF Forest
  <2> QED BY <1>4, <1>5, <2>3, <2>4 DEF Forest
<1>9. OneEach(s)
  BY <1>5, <1>7 DEF OneEach, Sending
<1>10. OnlyOne(cur, s, i)
  BY <1>5 DEF OnlyOne
<1>11. There(s, i) /\ i \in DOMAIN s
  BY <1>1, <1>3, <1>5, <1>6 DEF There
<1>12. Over(s, i)
  BY <1>1, <1>6, <1>11 DEF Over
<1>13. ~Away(s, i)
  <2>1. Regular(post) /\ Named(post)
    BY DEF Known
  <2>2. i \in DOMAIN post
    BY <1>1
  <2>3. post[i].name # TempName(i)
    BY ONLY <2>1, <2>2, i \in Ino, NoTempName
  <2>4. s[i].name = post[i].name
    BY <1>11 DEF There
  <2> QED BY ONLY <2>3, <2>4 DEF Away
<1>14. FileSent(s, i)
  BY <1>1, <1>6, <1>11, <1>13 DEF FileSent, NodeSent
<1>15. Sending(s)
  BY <1>2, <1>8, <1>9, <1>10, <1>11, <1>12, <1>14, SendingOn
<1> QED BY <1>1, <1>2, <1>3, <1>5, <1>6, <1>7, <1>15

LEMMA StartSent ==
  ASSUME Known
  PROVE  Sending(pre)
<1>1. Regular(pre) /\ Named(pre) /\ Forest(pre) /\ OneEach(pre) /\ DOMAIN pre \subseteq Ino
  BY KnownForests DEF Known, Regular
<1>2. \A i \in DOMAIN pre : Unmoved(pre, i)
  BY DEF Unmoved
<1>3. \A i \in DOMAIN pre : ~Away(pre, i)
  BY <1>1, NoTempName DEF Away
<1>4. \A i \in DOMAIN pre : FileSent(pre, i)
  BY <1>1, <1>2, <1>3 DEF FileSent, NodeSent, Named
<1>5. \A i \in Ino : Fresh(pre, i)
  BY <1>2 DEF Fresh
<1> QED BY <1>1, <1>4, <1>5 DEF Sending

-----------------------------------------------------------------------------
(* The names the StreamProcessor knows of what is still where it was       *)

(* No command has touched a file that is as it was and is to move, nor     *)
(* anything below it.                                                      *)
Quiet(c, f) ==
  \A i \in DOMAIN c : Unmoved(c, i) /\ ~There(c, i) /\ PathOf(c, i) = PathOf(pre, i) => PathOf(pre, i) \notin DOMAIN f

LEMMA OverIsDone ==
  ASSUME Known, NEW c, NEW i \in DOMAIN c, i \in Ino, Over(c, i)
  PROVE  There(c, i) \/ ~Unmoved(c, i)
<1>1. CASE i \in DOMAIN post
  BY <1>1 DEF Over
<1>2. CASE i \notin DOMAIN post
  <2>1. Regular(pre) /\ Named(pre)
    BY DEF Known
  <2>2. c[i].name = TempName(i)
    BY <1>2 DEF Over, Away
  <2> QED BY <2>1, <2>2, NoTempName DEF Unmoved
<1> QED BY <1>1, <1>2

(* The name of a file that leaves it and was touched there is a new one.   *)
LEMMA LeavesNewName ==
  ASSUME Known, NEW c, Sending(c), NEW i, Leaves(c, i), NEW f, Quiet(c, f), PathOf(c, i) \in DOMAIN f
  PROVE  PathOf(c, i) \notin NamesOf(pre)
<1> SUFFICES ASSUME NEW x \in DOMAIN pre, PathOf(c, i) = PathOf(pre, x) PROVE FALSE
  BY DEF NamesOf
<1>1. i \in DOMAIN c /\ ~There(c, i) /\ i \in Ino
  BY RegularNow DEF Leaves
<1>2. /\ Regular(c) /\ Forest(c) /\ Ordered(c) /\ Regular(pre) /\ Named(pre) /\ Forest(pre) /\ OneEach(pre)
      /\ InDirectories(pre) /\ DOMAIN c \subseteq Ino
  BY RegularNow DEF Known, Regular
<1>3. Unmoved(c, i)
  <2>1. ~Away(c, i)
    <3> SUFFICES ASSUME c[i].up = 0, c[i].name = TempName(i) PROVE FALSE
      BY DEF Away
    <3>1. PathOf(c, i) = Append(PathOf(c, 0), TempName(i)) /\ PathOf(c, 0) = <<>>
      BY <1>1, <1>2, ForestFacts
    <3>2. PathOf(c, i) = <<TempName(i)>>
      <4>1. Append(<<>>, TempName(i)) = <<TempName(i)>>
        OBVIOUS
      <4> QED BY <3>1, <4>1
    <3>3. <<TempName(i)>> \notin NamesOf(pre)
      BY <1>1, <1>2, NoTempName
    <3> QED BY <3>2, <3>3 DEF NamesOf
  <2> QED BY <1>1, <2>1 DEF Sending, FileSent
<1>4. CASE x = i
  BY <1>1, <1>3, <1>4 DEF Quiet
<1>5. CASE x # i
  <2> DEFINE u == c[i].up
             v == PathOf(c, u)
             a == c[i].name
             y == pre[x].up
             w == PathOf(pre, y)
             b == pre[x].name
  <2>1. PathOf(c, i) = Append(v, a) /\ v \in Seq(Nat) /\ a \in Nat /\ u \in DOMAIN c \cup {0}
    BY <1>1, <1>2, ForestFacts
  <2>2. PathOf(pre, x) = Append(w, b) /\ w \in Seq(Nat) /\ b \in Nat /\ y \in DOMAIN pre \cup {0}
    BY <1>2, ForestFacts
  <2>3. v = w /\ a = b
    <3>1. Append(v, a) = Append(w, b)
      BY <2>1, <2>2
    <3> HIDE DEF v, w, a, b
    <3> QED BY <2>1, <2>2, <3>1, AppendEqual
  <2>4. u = pre[i].up /\ a = pre[i].name /\ i \in DOMAIN pre
    BY <1>3 DEF Unmoved
  <2>5. u # y
    BY <1>2, <1>5, <2>3, <2>4 DEF OneEach
  <2>6. PathOf(c, 0) = <<>> /\ PathOf(pre, 0) = <<>>
    BY <1>2, ForestFacts
  <2>7. (u \in DOMAIN c => v \in Somewhere) /\ (y \in DOMAIN pre => w \in Somewhere)
    BY <1>2, ForestFacts
  <2>8. u # 0
    BY <2>2, <2>3, <2>5, <2>6, <2>7 DEF Somewhere
  <2>9. y # 0
    BY <2>1, <2>3, <2>5, <2>6, <2>7 DEF Somewhere
  <2>10. u \in DOMAIN c /\ u \in DOMAIN pre /\ pre[u].node.type = "dir" /\ y \in DOMAIN pre
    BY <1>2, <2>1, <2>2, <2>4, <2>8, <2>9 DEF InDirectories
  <2>11. u \in Nat /\ u < u + 1 /\ u + 1 \in Nat /\ OverBelow(c, u + 1)
    <3>1. u \in Nat /\ Ino \subseteq Nat
      BY <2>10, KnownForests
    <3>2. \A m \in Ino : m < u + 1 => m <= u
      BY <3>1
    <3> QED BY <3>1, <3>2 DEF OverBelow, Leaves
  <2>12. u \in DOMAIN post
    <3> SUFFICES ASSUME u \notin DOMAIN post PROVE FALSE
      OBVIOUS
    <3> HIDE DEF u
    <3>1. PathOf(c, u) = <<TempName(u)>>
      BY <2>10, <2>11, OverPaths
    <3>2. <<TempName(u)>> \notin NamesOf(pre)
      BY <1>2, <2>10, NoTempName
    <3> QED BY <2>3, <2>10, <3>1, <3>2 DEF NamesOf
  <2> HIDE DEF u
  <2>13. PathOf(c, u) = PathOf(post, u)
    BY <2>11, <2>12, OverPaths
  <2>14. PathOf(pre, y) = PathOf(post, u)
    BY <2>3, <2>13
  <2>15. post[u].node.type = "dir"
    BY <2>10, <2>12 DEF Known
  <2>16. ~MovesDir
    BY <2>5, <2>10, <2>12, <2>14, <2>15, NamesTaken
  <2>17. PathOf(pre, u) = PathOf(post, u)
    BY <2>10, <2>12, <2>16, DirsKept
  <2> QED BY <1>2, <2>5, <2>10, <2>14, <2>17, PathIsOne
<1> QED BY <1>4, <1>5

(* A directory with files in it does not go back to where one was.         *)
LEMMA NotBack ==
  ASSUME Known, NEW c, Sending(c), NEW i \in DOMAIN c \cap DOMAIN post, ~There(c, i), NEW j \in DOMAIN c, c[j].up = i
  PROVE  PathOf(post, i) \notin NamesOf(pre)
<1> SUFFICES ASSUME NEW x \in DOMAIN pre, PathOf(pre, x) = PathOf(post, i) PROVE FALSE
  BY DEF NamesOf
<1>1. i \in Ino /\ j \in Ino /\ i < j
  BY RegularNow DEF Regular, Ordered
<1>2. ~OverBelow(c, j)
  BY <1>1 DEF OverBelow, Over
<1>3. Fresh(c, j)
  BY <1>1, <1>2 DEF Sending
<1>4. i # 0
  BY <1>1, KnownForests
<1>5. Unmoved(c, j)
  BY <1>3, <1>4 DEF Fresh, Away
<1>6. i \in DOMAIN pre /\ pre[i].node.type = "dir" /\ post[i].node.type = "dir"
  BY <1>4, <1>5 DEF Unmoved, Known, InDirectories
<1>7. SamePlace(i)
  <2>1. CASE x = i
    BY <1>6, <2>1, NameKept
  <2>2. CASE x # i
    <3>1. ~MovesDir
      BY <1>6, <2>2, NamesTaken
    <3> QED BY <1>6, <3>1, DirsKept
  <2> QED BY <2>1, <2>2
<1>8. ~Unmoved(c, i)
  BY <1>7 DEF Unmoved, SamePlace, There
<1>9. ~Away(c, i)
  BY <1>6, <1>7 DEF Sending, FileSent
<1> QED BY <1>8, <1>9 DEF Sending, FileSent

LEMMA ChildBelow ==
  ASSUME NEW c, Regular(c), NEW i \in DOMAIN c, NEW j \in DOMAIN c, IsPrefix(PathOf(c, i), PathOf(c, j)), i # j
  PROVE  \E a \in DOMAIN c : c[a].up = i
<1> DEFINE Lower == {a \in DOMAIN c : IsPrefix(PathOf(c, i), PathOf(c, a)) /\ a # i}
<1>1. PICK a \in Lower : \A b \in Lower : a <= b
  <2>1. Lower \in SUBSET Nat
    BY ForestFacts DEF Regular
  <2>2. Lower # {}
    OBVIOUS
  <2> HIDE DEF Lower
  <2> QED BY <2>1, <2>2, LeastNumber
<1>2. a \in DOMAIN c /\ IsPrefix(PathOf(c, i), PathOf(c, a)) /\ a # i
  BY <1>1
<1> DEFINE u == c[a].up
<1>3. u \in DOMAIN c /\ IsPrefix(PathOf(c, i), PathOf(c, u))
  BY <1>2, InFrontIsAbove
<1>4. u < a /\ a \in Nat /\ u \in Nat
  <2>1. u < a
    BY <1>2 DEF Regular, Ordered
  <2>2. DOMAIN c \subseteq Nat
    BY ForestFacts DEF Regular
  <2> QED BY <1>2, <1>3, <2>1, <2>2
<1>5. u \notin Lower
  <2> HIDE DEF Lower
  <2> QED BY <1>1, <1>4
<1> QED BY <1>2, <1>3, <1>5

LEMMA NoneBelow ==
  ASSUME NEW c, Regular(c), NEW i \in DOMAIN c, \A a \in DOMAIN c : c[a].up # i
  PROVE  /\ \A j \in DOMAIN c : IsPrefix(PathOf(c, i), PathOf(c, j)) => j = i
         /\ \A q \in NamesOf(c) : IsPrefix(PathOf(c, i), q) => q = PathOf(c, i)
<1>1. \A j \in DOMAIN c : IsPrefix(PathOf(c, i), PathOf(c, j)) => j = i
  BY ChildBelow
<1> QED BY <1>1 DEF NamesOf

(* What is above a file that leaves its name has its own place for good.   *)
LEMMA AboveIsDone ==
  ASSUME Known, NEW c, Sending(c), NEW i \in DOMAIN c, \A m \in Ino : m <= c[i].up => Over(c, m),
         NEW j \in DOMAIN c, IsPrefix(PathOf(c, j), PathOf(c, i)), i # j
  PROVE  There(c, j) \/ ~Unmoved(c, j)
<1>1. Regular(c) /\ DOMAIN c \subseteq Ino /\ Ino \subseteq Nat
  BY RegularNow, KnownForests
<1> DEFINE u == c[i].up
<1>2. u \in DOMAIN c /\ IsPrefix(PathOf(c, j), PathOf(c, u))
  BY <1>1, InFrontIsAbove
<1>3. j <= u
  <2>0. u \in Nat /\ j \in Nat
    <3>1. DOMAIN c \subseteq Nat
      BY <1>1
    <3> QED BY <1>2, <3>1
  <2>1. j # u => j < u
    BY <1>1, <1>2, InFrontIsAbove
  <2> HIDE DEF u
  <2> QED BY ONLY <2>0, <2>1
<1>4. Over(c, j)
  BY <1>1, <1>3
<1> QED BY <1>1, <1>4, OverIsDone

-----------------------------------------------------------------------------
(* The names in the first tree whose file is another one now, or has       *)
(* changed                                                                 *)

Hot(c) ==
  {q \in NamesOf(pre) : \E x \in DOMAIN pre : \E j \in DOMAIN c :
     /\ PathOf(pre, x) = q /\ PathOf(c, j) = q
     /\ x # j \/ CmpFiles(pre[x].node, c[j].node) # {}}
Followed(c, f) == Tracks(f, NamesOf(pre), NamesOf(c), Hot(c)) /\ Quiet(c, f)

LEMMA KnownNames ==
  ASSUME Known, NEW c, Sending(c)
  PROVE  /\ NamesOf(pre) \in SUBSET Somewhere /\ Closed(NamesOf(pre)) /\ IsFiniteSet(NamesOf(pre))
         /\ DOMAIN TreeOf(pre) = NamesOf(pre)
         /\ NamesOf(c) \in SUBSET Somewhere /\ Closed(NamesOf(c))
<1>1. Regular(pre) /\ Regular(c)
  BY RegularNow DEF Known
<1> QED BY <1>1, NamesAreClosed, TreeOfNames DEF NamesOK

Moving(c, s, i, up, from, to) ==
  /\ Sending(c) /\ Sending(s) /\ i \in Ino /\ Leaves(c, i)
  /\ \E name : Moves(c, s, i, up, name, from, to)
  /\ s[i].node = c[i].node
  /\ Away(s, i) \/ There(s, i)
  /\ \A m \in Ino : m <= up => Over(s, m)
  /\ (\E j \in DOMAIN c : c[j].up = i) => to \notin NamesOf(pre)

LEMMA MovingMeans ==
  ASSUME NEW c, NEW s, NEW i, NEW up, NEW from, NEW to, Moving(c, s, i, up, from, to)
  PROVE  /\ Regular(c) /\ Regular(s) /\ i \in DOMAIN c /\ DOMAIN s = DOMAIN c /\ s[i].up = up
         /\ \A j \in DOMAIN c : j # i => s[j] = c[j]
         /\ from \in Somewhere /\ to \in Somewhere /\ Beside(from, to)
         /\ from \in NamesOf(c) /\ to \notin NamesOf(c)
         /\ \A q \in Somewhere : IsStrictPrefix(q, to) => q \in NamesOf(c)
         /\ from = PathOf(c, i) /\ PathOf(s, i) = to
         /\ \A j \in DOMAIN c : PathOf(s, j) = IF IsPrefix(from, PathOf(c, j)) THEN Swap(PathOf(c, j), from, to)
                                               ELSE PathOf(c, j)
         /\ NamesOf(s) = MovedAll(NamesOf(c), from, to)
<1>1. PICK name : Moves(c, s, i, up, name, from, to)
  BY DEF Moving
<1>2. /\ Regular(c) /\ Regular(s) /\ i \in DOMAIN c /\ DOMAIN s = DOMAIN c /\ s[i].up = up /\ from = PathOf(c, i)
      /\ \A j \in DOMAIN c : j # i => s[j] = c[j]
  BY <1>1 DEF Moves
<1>3. NamesOf(s) = MovedAll(NamesOf(c), from, to)
  BY <1>1, NamesMoved
<1>4. /\ from \in Somewhere /\ to \in Somewhere /\ Beside(from, to)
      /\ from \in NamesOf(c) /\ to \notin NamesOf(c)
      /\ \A q \in Somewhere : IsStrictPrefix(q, to) => q \in NamesOf(c)
      /\ PathOf(s, i) = to
  BY <1>1, PathMoved
<1>5. \A j \in DOMAIN c : PathOf(s, j) = IF IsPrefix(from, PathOf(c, j)) THEN Swap(PathOf(c, j), from, to)
                                         ELSE PathOf(c, j)
  BY <1>1, PathMoved
<1> QED BY <1>2, <1>3, <1>4, <1>5

LEMMA HotMoved ==
  ASSUME NEW c, NEW s, NEW i, NEW up, NEW from, NEW to, Moving(c, s, i, up, from, to)
  PROVE  /\ Hot(s) \subseteq Hot(c) \cup {q \in Somewhere : IsPrefix(to, q)}
         /\ (\A j \in DOMAIN c : c[j].up # i) => Hot(s) \subseteq Hot(c) \cup {to}
<1>1. /\ Regular(c) /\ i \in DOMAIN c /\ DOMAIN s = DOMAIN c /\ from = PathOf(c, i) /\ PathOf(s, i) = to
      /\ \A j \in DOMAIN c : j # i => s[j] = c[j]
      /\ from \in Somewhere /\ to \in Somewhere /\ Beside(from, to)
  BY MovingMeans
<1>2. \A j \in DOMAIN c : PathOf(s, j) = IF IsPrefix(from, PathOf(c, j)) THEN Swap(PathOf(c, j), from, to)
                                         ELSE PathOf(c, j)
  BY MovingMeans
<1>3. ASSUME NEW q \in Hot(s), q \notin Hot(c)
      PROVE  \E j \in DOMAIN c : q = PathOf(s, j) /\ IsPrefix(from, PathOf(c, j))
  <2>1. q \in NamesOf(pre) /\ \E x \in DOMAIN pre : \E j \in DOMAIN s :
          /\ PathOf(pre, x) = q /\ PathOf(s, j) = q /\ (x # j \/ CmpFiles(pre[x].node, s[j].node) # {})
    BY <1>3 DEF Hot
  <2>2. PICK x \in DOMAIN pre : \E j \in DOMAIN s :
          /\ PathOf(pre, x) = q /\ PathOf(s, j) = q /\ (x # j \/ CmpFiles(pre[x].node, s[j].node) # {})
    BY <2>1
  <2>3. PICK j \in DOMAIN s : 
          /\ PathOf(pre, x) = q /\ PathOf(s, j) = q /\ (x # j \/ CmpFiles(pre[x].node, s[j].node) # {})
    BY <2>2
  <2>4. s[j].node = c[j].node
    <3>1. s[i].node = c[i].node
      BY DEF Moving
    <3> QED BY <1>1, <2>3, <3>1
  <2>5. PathOf(c, j) # q
    BY <1>1, <1>3, <2>1, <2>3, <2>4 DEF Hot
  <2> QED BY <1>1, <1>2, <2>3, <2>5
<1>4. Hot(s) \subseteq Hot(c) \cup {q \in Somewhere : IsPrefix(to, q)}
  <2> SUFFICES ASSUME NEW q \in Hot(s), q \notin Hot(c) PROVE q \in Somewhere /\ IsPrefix(to, q)
    OBVIOUS
  <2>1. PICK j \in DOMAIN c : q = PathOf(s, j) /\ IsPrefix(from, PathOf(c, j))
    BY <1>3
  <2>2. q = Swap(PathOf(c, j), from, to) /\ PathOf(c, j) \in Somewhere
    BY <1>1, <1>2, <2>1, ForestFacts DEF Regular
  <2> QED BY <1>1, <2>1, <2>2, Swapped
<1>5. ASSUME \A j \in DOMAIN c : c[j].up # i
      PROVE  Hot(s) \subseteq Hot(c) \cup {to}
  <2> SUFFICES ASSUME NEW q \in Hot(s), q \notin Hot(c) PROVE q = to
    OBVIOUS
  <2>1. PICK j \in DOMAIN c : q = PathOf(s, j) /\ IsPrefix(from, PathOf(c, j))
    BY <1>3
  <2>2. j = i
    BY <1>1, <1>5, <2>1, NoneBelow
  <2> QED BY <1>1, <2>1, <2>2
<1> QED BY <1>4, <1>5

LEMMA QuietMoved ==
  ASSUME Known, NEW c, NEW s, NEW i, NEW up, NEW from, NEW to, Moving(c, s, i, up, from, to),
         NEW f, Quiet(c, f), NEW g, Near(f, g, from, to)
  PROVE  Quiet(s, g)
<1> SUFFICES ASSUME NEW j \in DOMAIN s, Unmoved(s, j), ~There(s, j), PathOf(s, j) = PathOf(pre, j), PathOf(pre, j) \in DOMAIN g
             PROVE  FALSE
  BY DEF Quiet
<1> DEFINE q == PathOf(s, j)
<1>1. /\ Regular(c) /\ Regular(s) /\ i \in DOMAIN c /\ DOMAIN s = DOMAIN c /\ from = PathOf(c, i) /\ PathOf(s, i) = to
      /\ \A k \in DOMAIN c : k # i => s[k] = c[k]
      /\ from \in Somewhere /\ to \in Somewhere /\ Beside(from, to) /\ to \notin NamesOf(c) /\ s[i].up = up
  BY MovingMeans
<1>2. Sending(c) /\ Sending(s) /\ Leaves(c, i) /\ \A m \in Ino : m <= up => Over(s, m)
  BY DEF Moving
<1>3. j # i
  <2>1. ~Away(s, j)
    <3>1. Regular(pre) /\ Named(pre) /\ j \in Ino
      BY <1>2, RegularNow DEF Known
    <3> QED BY <3>1, NoTempName DEF Away, Unmoved
  <2> QED BY <2>1 DEF Moving
<1>4. j \in DOMAIN c /\ s[j] = c[j] /\ Unmoved(c, j) /\ ~There(c, j)
  BY <1>1, <1>3 DEF Unmoved, There
<1>5. q \in Somewhere
  BY <1>1, ForestFacts DEF Regular
<1>6. CASE ~IsPrefix(from, PathOf(c, j))
  <2>1. PathOf(c, j) = q
    BY <1>4, <1>6, MovingMeans
  <2>2. q \notin DOMAIN f
    BY <1>4, <2>1 DEF Quiet
  <2>3. IsPrefix(q, from) \/ IsPrefix(from, q) \/ IsPrefix(q, to) \/ IsPrefix(to, q)
    BY <2>2 DEF Near
  <2>4. ~IsPrefix(q, from)
    <3> SUFFICES ASSUME IsPrefix(PathOf(c, j), PathOf(c, i)) PROVE FALSE
      BY <1>1, <2>1
    <3>1. \A m \in Ino : m <= c[i].up => Over(c, m)
      BY <1>2 DEF Leaves
    <3> QED BY <1>1, <1>2, <1>3, <1>4, <3>1, AboveIsDone
  <2>5. ~IsPrefix(from, q)
    BY <1>6, <2>1
  <2>6. ~IsPrefix(q, to)
    <3> SUFFICES ASSUME IsPrefix(PathOf(s, j), PathOf(s, i)) PROVE FALSE
      BY <1>1
    <3>1. \A m \in Ino : m <= s[i].up => Over(s, m)
      BY <1>1, <1>2
    <3>2. i \in DOMAIN s
      BY <1>1
    <3> QED BY <1>2, <1>3, <3>1, <3>2, AboveIsDone
  <2>7. ~IsPrefix(to, q)
    <3>1. Closed(NamesOf(c)) /\ q \in NamesOf(c)
      BY <1>1, <1>4, <2>1, NamesAreClosed DEF NamesOf
    <3> QED BY <1>1, <3>1 DEF Closed
  <2> QED BY <2>3, <2>4, <2>5, <2>6, <2>7
<1>7. CASE IsPrefix(from, PathOf(c, j))
  <2>1. q = Swap(PathOf(c, j), from, to) /\ PathOf(c, j) \in Somewhere
    <3>1. PathOf(c, j) \in Somewhere
      BY <1>1, <1>4, ForestFacts DEF Regular
    <3> QED BY <1>4, <1>7, <3>1, MovingMeans
  <2>2. IsPrefix(to, q)
    BY <1>1, <1>7, <2>1, Swapped
  <2>3. \E a \in DOMAIN c : c[a].up = i
    BY <1>1, <1>3, <1>4, <1>7, ChildBelow
  <2>4. to \notin NamesOf(pre)
    BY <2>3 DEF Moving
  <2>5. q \in NamesOf(pre) /\ Closed(NamesOf(pre))
    <3>1. j \in DOMAIN pre /\ Regular(pre)
      BY DEF Unmoved, Known
    <3> QED BY <3>1, NamesAreClosed DEF NamesOf
  <2> QED BY <1>1, <2>2, <2>4, <2>5 DEF Closed
<1> QED BY <1>6, <1>7

Renames(f, old, now, hot, o, n, h) ==
  /\ old \in SUBSET Somewhere /\ now \in SUBSET Somewhere /\ Tracks(f, old, now, hot)
  /\ Closed(old) /\ Closed(now) /\ IsFiniteSet(old) /\ DOMAIN TreeOf(pre) = old
  /\ o \in now /\ n \in Somewhere /\ n \notin now
  /\ Beside(o, n) /\ \A q \in Somewhere : IsStrictPrefix(q, n) => q \in now
  /\ o \in DOMAIN f => o \notin old
  /\ o \in DOMAIN f /\ n \in DOMAIN f => Childs(f, o) = {}
  /\ h = hot \cup {q \in Somewhere : IsPrefix(n, q)}

LEMMA RenamesTracked ==
  ASSUME NEW f, NEW old, NEW now, NEW hot, NEW o, NEW n, NEW h, Renames(f, old, now, hot, o, n, h)
  PROVE  Tracks(ProcessRename(f, o, n), old, MovedAll(now, o, n), h) /\ Near(f, ProcessRename(f, o, n), o, n)
<1>1. /\ old \in SUBSET Somewhere /\ now \in SUBSET Somewhere /\ Tracks(f, old, now, hot)
      /\ Closed(old) /\ Closed(now) /\ IsFiniteSet(old) /\ DOMAIN TreeOf(pre) = old
      /\ o \in now /\ n \in Somewhere /\ n \notin now /\ Beside(o, n)
  BY DEF Renames
<1>2. \A q \in Somewhere : IsStrictPrefix(q, n) => q \in now
  BY DEF Renames
<1>3. (o \in DOMAIN f => o \notin old) /\ (o \in DOMAIN f /\ n \in DOMAIN f => Childs(f, o) = {})
  BY DEF Renames
<1>4. h = hot \cup {q \in Somewhere : IsPrefix(n, q)}
  BY DEF Renames
<1>5. /\ Tracks(ProcessRename(f, o, n), old, MovedAll(now, o, n), hot \cup {q \in Somewhere : IsPrefix(n, q)})
      /\ Near(f, ProcessRename(f, o, n), o, n)
  BY <1>1, <1>2, <1>3, TracksRenamed
<1> QED BY <1>4, <1>5

(* process_rename of a file that leaves its name                           *)
LEMMA RenameFollows ==
  ASSUME Known, NEW c, NEW s, NEW i, NEW up, NEW from, NEW to, Moving(c, s, i, up, from, to),
         NEW f, Followed(c, f), NEW g, g = ProcessRename(f, from, to)
  PROVE  Followed(s, g)
<1> DEFINE old == NamesOf(pre)
           now == NamesOf(c)
<1>1. Sending(c) /\ Leaves(c, i) /\ Tracks(f, old, now, Hot(c)) /\ Quiet(c, f)
  BY DEF Moving, Followed
<1>2. old \in SUBSET Somewhere /\ Closed(old) /\ IsFiniteSet(old) /\ DOMAIN TreeOf(pre) = old
  BY <1>1, KnownNames
<1>3. now \in SUBSET Somewhere /\ Closed(now)
  BY <1>1, KnownNames
<1>4. /\ from \in now /\ from \in Somewhere /\ to \in Somewhere /\ to \notin now /\ Beside(from, to)
      /\ \A q \in Somewhere : IsStrictPrefix(q, to) => q \in now
      /\ from = PathOf(c, i) /\ i \in DOMAIN c /\ Regular(c) /\ NamesOf(s) = MovedAll(now, from, to)
  BY MovingMeans
<1>5. from \in DOMAIN f => from \notin old
  BY <1>1, <1>4, LeavesNewName
<1>6. ASSUME from \in DOMAIN f, to \in DOMAIN f, NEW q \in Childs(f, from)
      PROVE  FALSE
  <2>1. q \in DOMAIN f /\ IsPrefix(from, q) /\ q # from
    BY <1>6 DEF Childs, IsStrictPrefix
  <2>2. q \in old \cup now /\ to \in old \cup now
    BY <1>1, <1>6, <2>1 DEF Tracks
  <2>3. q \notin old
    BY <1>2, <1>4, <1>5, <1>6, <2>1 DEF Closed
  <2>4. PICK j \in DOMAIN c : q = PathOf(c, j)
    BY <2>2, <2>3 DEF NamesOf
  <2>5. \E a \in DOMAIN c : c[a].up = i
    BY <1>4, <2>1, <2>4, ChildBelow
  <2>6. to \notin old
    BY <2>5 DEF Moving
  <2> QED BY <1>4, <2>2, <2>6
<1>7. /\ Tracks(g, old, MovedAll(now, from, to), Hot(c) \cup {q \in Somewhere : IsPrefix(to, q)})
      /\ Near(f, g, from, to)
  <2>1. from \in DOMAIN f /\ to \in DOMAIN f => Childs(f, from) = {}
    BY <1>6
  <2> DEFINE h == Hot(c) \cup {q \in Somewhere : IsPrefix(to, q)}
  <2> HIDE DEF old, now
  <2>2. Renames(f, old, now, Hot(c), from, to, h)
    BY <1>1, <1>2, <1>3, <1>4, <1>5, <2>1 DEF Renames
  <2> HIDE DEF h
  <2>3. Tracks(g, old, MovedAll(now, from, to), h) /\ Near(f, g, from, to)
    BY <2>2, RenamesTracked
  <2> QED BY <2>3 DEF h
<1>8. Tracks(g, old, NamesOf(s), Hot(s))
  <2>1. Hot(s) \subseteq Hot(c) \cup {q \in Somewhere : IsPrefix(to, q)}
    BY HotMoved
  <2>2. Tracks(g, old, NamesOf(s), Hot(c) \cup {q \in Somewhere : IsPrefix(to, q)})
    BY <1>4, <1>7
  <2> HIDE DEF old, now
  <2> QED BY <2>1, <2>2, TracksLess
<1>9. Quiet(s, g)
  BY <1>1, <1>7, QuietMoved
<1> QED BY <1>8, <1>9 DEF Followed

LEMMA NotThrown ==
  ASSUME Known, Sending(cur), Followed(cur, files), NEW i \in DOMAIN cur
  PROVE  ~Throws(PathOf(cur, i))
<1> SUFFICES ASSUME PathOf(cur, i) \notin DOMAIN files PROVE IsDir(TreeOf(pre), Front(PathOf(cur, i)))
  BY DEF Throws
<1>1. PathOf(cur, i) \in NamesOf(pre)
  BY DEF Followed, Tracks, NamesOf
<1>2. PICK x \in DOMAIN pre : PathOf(cur, i) = PathOf(pre, x)
  BY <1>1 DEF NamesOf
<1>3. Regular(pre) /\ InDirectories(pre)
  BY DEF Known
<1>4. Front(PathOf(pre, x)) = PathOf(pre, pre[x].up) /\ PathOf(pre, 0) = <<>>
  BY <1>3, ForestFacts DEF Regular
<1>5. CASE pre[x].up = 0
  BY <1>2, <1>4, <1>5 DEF IsDir
<1>6. CASE pre[x].up # 0
  <2>1. pre[x].up \in DOMAIN pre /\ pre[pre[x].up].node.type = "dir"
    BY <1>3, <1>6 DEF InDirectories
  <2>2. /\ PathOf(pre, pre[x].up) \in DOMAIN TreeOf(pre)
        /\ TreeOf(pre)[PathOf(pre, pre[x].up)] = pre[pre[x].up].node
    BY <1>3, <2>1, TreeOfNames DEF NamesOf
  <2> QED BY <1>2, <1>4, <2>1, <2>2 DEF IsDir
<1> QED BY <1>5, <1>6

LEMMA EvictMoves ==
  ASSUME Known, Sending(cur), NEW i \in Ino, Evict(i), NEW s, s = cur'
  PROVE  Moving(cur, s, i, 0, PathOf(cur, i), <<TempName(i)>>)
<1>1. /\ Leaves(cur, i) /\ Moves(cur, s, i, 0, TempName(i), PathOf(cur, i), <<TempName(i)>>)
      /\ Away(s, i) /\ s[i].node = cur[i].node /\ Sending(s)
  BY EvictSent
<1>2. \A m \in Ino : ~(m <= 0)
  BY SendStreamConstants
<1>3. <<TempName(i)>> \notin NamesOf(pre)
  BY NoTempName DEF Known
<1> QED BY <1>1, <1>2, <1>3 DEF Moving

LEMMA PlaceMoves ==
  ASSUME Known, Sending(cur), NEW i \in Ino, CanPlace(i), Put(i, post[i].up, post[i].name), NEW s, s = cur'
  PROVE  Moving(cur, s, i, post[i].up, PathOf(cur, i), PathOf(post, i))
<1>1. /\ i \in DOMAIN post \cap DOMAIN cur /\ OverBelow(cur, i) /\ Leaves(cur, i)
      /\ Moves(cur, s, i, post[i].up, post[i].name, PathOf(cur, i), PathOf(post, i))
      /\ There(s, i) /\ s[i].node = cur[i].node /\ Sending(s)
  BY PlaceSent
<1>2. ASSUME NEW m \in Ino, m <= post[i].up PROVE Over(s, m)
  <2>1. m \in Nat /\ i \in Nat /\ post[i].up \in Nat /\ post[i].up < i
    BY <1>1, KnownForests
  <2>2. m < i /\ m # i
    BY <1>2, <2>1
  <2>3. Over(cur, m)
    BY <1>1, <2>2 DEF OverBelow
  <2>4. DOMAIN s = DOMAIN cur /\ \A j \in DOMAIN cur : j # i => s[j] = cur[j]
    BY <1>1 DEF Moves
  <2> QED BY <2>2, <2>3, <2>4 DEF Over, There, Away
<1>3. (\E j \in DOMAIN cur : cur[j].up = i) => PathOf(post, i) \notin NamesOf(pre)
  BY <1>1, NotBack DEF Leaves
<1> QED BY <1>1, <1>2, <1>3 DEF Moving

LEMMA EvictFollows ==
  ASSUME Known, Sending(cur), Followed(cur, files), NEW i \in Ino, Evict(i), NEW s, s = cur', NEW g, g = files'
  PROVE  Followed(s, g) /\ (thrown = FALSE => thrown' = FALSE)
<1>1. Moving(cur, s, i, 0, PathOf(cur, i), <<TempName(i)>>)
  BY EvictMoves
<1>2. PathOf(s, i) = <<TempName(i)>> /\ i \in DOMAIN cur
  BY <1>1, MovingMeans
<1>3. g = ProcessRename(files, PathOf(cur, i), PathOf(s, i)) /\ thrown' = (thrown \/ Throws(PathOf(cur, i)))
  BY DEF Evict, Renamed
<1>4. Followed(s, g)
  BY <1>1, <1>2, <1>3, RenameFollows
<1>5. ~Throws(PathOf(cur, i))
  BY <1>2, NotThrown
<1> QED BY <1>3, <1>4, <1>5

LEMMA PlaceFollows ==
  ASSUME Known, Sending(cur), Followed(cur, files), NEW i \in Ino, Place(i), NEW s, s = cur', NEW g, g = files'
  PROVE  Followed(s, g) /\ (thrown = FALSE => thrown' = FALSE)
<1>1. Moving(cur, s, i, post[i].up, PathOf(cur, i), PathOf(post, i))
  BY PlaceMoves DEF Place
<1>2. PathOf(s, i) = PathOf(post, i) /\ i \in DOMAIN cur
  BY <1>1, MovingMeans
<1>3. g = ProcessRename(files, PathOf(cur, i), PathOf(s, i)) /\ thrown' = (thrown \/ Throws(PathOf(cur, i)))
  BY DEF Place, Renamed
<1>4. Followed(s, g)
  BY <1>1, <1>2, <1>3, RenameFollows
<1>5. ~Throws(PathOf(cur, i))
  BY <1>2, NotThrown
<1> QED BY <1>3, <1>4, <1>5

LEMMA LinkFollows ==
  ASSUME Known, Sending(cur), Followed(cur, files), NEW i \in Ino, Link(i), NEW s, s = cur', NEW g, g = files'
  PROVE  Followed(s, g) /\ thrown' = thrown
<1> DEFINE old == NamesOf(pre)
           now == NamesOf(cur)
           from == PathOf(cur, i)
           to == PathOf(post, i)
           made == Created(files, to)
<1>1. CanPlace(i) /\ ~ByRename(i) /\ Put(i, post[i].up, post[i].name) /\ thrown' = thrown
  BY DEF Link
<1>2. Moving(cur, s, i, post[i].up, from, to)
  BY <1>1, PlaceMoves
<1>3. g = Deleted(made, from)
  <2>1. g = Deleted(Created(files, PathOf(s, i)), PathOf(cur, i))
    BY DEF Link
  <2>2. PathOf(s, i) = to
    BY <1>2, MovingMeans
  <2> QED BY <2>1, <2>2
<1>4. Sending(cur) /\ Leaves(cur, i) /\ Tracks(files, old, now, Hot(cur)) /\ Quiet(cur, files)
  BY <1>2 DEF Moving, Followed
<1>5. old \in SUBSET Somewhere /\ Closed(old) /\ now \in SUBSET Somewhere
  BY KnownNames
<1>6. /\ from \in now /\ from \in Somewhere /\ to \in Somewhere /\ to \notin now /\ Beside(from, to)
      /\ \A q \in Somewhere : IsStrictPrefix(q, to) => q \in now
      /\ i \in DOMAIN cur /\ Regular(cur) /\ NamesOf(s) = MovedAll(now, from, to)
  BY <1>2, MovingMeans
<1>7. i \in DOMAIN post /\ ~There(cur, i) /\ ~Away(cur, i) /\ cur[i].node.type # "dir"
  <2>1. i \in DOMAIN post
    BY <1>1 DEF CanPlace
  <2> QED BY <1>1, <1>4, <2>1 DEF Leaves, ByRename, Away
<1>8. Unmoved(cur, i) /\ i \in DOMAIN pre /\ cur[i].node = pre[i].node
  BY <1>6, <1>7 DEF Sending, FileSent, NodeSent, Unmoved
<1>9. pre[i].node.type # "dir" /\ post[i].node.type # "dir"
  BY <1>7, <1>8 DEF Known
<1>10. ASSUME NEW j \in DOMAIN cur, cur[j].up = i PROVE FALSE
  <2>1. i # 0
    BY KnownForests
  <2>2. Unmoved(cur, j) \/ There(cur, j)
    BY <1>10, <2>1 DEF Sending, FileSent, Away
  <2>3. InDirectories(pre) /\ InDirectories(post)
    BY DEF Known
  <2> QED BY <1>9, <1>10, <2>1, <2>2, <2>3 DEF Unmoved, There, InDirectories
<1>11. \A q \in now : IsPrefix(from, q) => q = from
  BY <1>6, <1>10, NoneBelow
<1>12. from \in DOMAIN files => from \notin old
  BY <1>4, LeavesNewName
<1>13. Tracks(made, old, now \cup {to}, Hot(cur) \cup {to})
  <2> HIDE DEF old, now, to
  <2> QED BY <1>4, <1>6, TracksCreated
<1>14. DOMAIN made \subseteq DOMAIN files \cup Chain(to)
  BY CreatedGrows
<1>15. from \notin Chain(to)
  BY <1>6, ChainMeans DEF Beside
<1>16. from \in DOMAIN made => from \notin old
  BY <1>12, <1>14, <1>15
<1>17. ASSUME from \in DOMAIN made, NEW q \in Childs(made, from) PROVE FALSE
  <2>1. q \in DOMAIN made /\ IsPrefix(from, q) /\ q # from
    BY <1>17 DEF Childs, IsStrictPrefix
  <2>2. q \in old \cup (now \cup {to})
    BY <1>13, <2>1 DEF Tracks
  <2>3. q \notin old
    BY <1>5, <1>6, <1>16, <1>17, <2>1 DEF Closed
  <2>4. q # to
    BY <1>6, <2>1 DEF Beside
  <2> QED BY <1>11, <2>1, <2>2, <2>3, <2>4
<1>18. (now \cup {to}) \ {from} = NamesOf(s)
  <2>1. IsPrefix(from, from) /\ from # to
    BY <1>6, PrefixesOf
  <2>2. Swap(from, from, to) = to
    BY <1>6, <2>1, Swapped
  <2>3. {q \in now : ~IsPrefix(from, q)} = now \ {from}
    BY <1>11, <2>1
  <2>4. {x \in now : IsPrefix(from, x)} = {from}
    BY <1>6, <1>11, <2>1
  <2>5. MovedAll(now, from, to) = (now \ {from}) \cup {Swap(q, from, to) : q \in {from}}
    BY <2>3, <2>4 DEF MovedAll
  <2>6. {Swap(q, from, to) : q \in {from}} = {to}
    BY <2>2
  <2> HIDE DEF now, from, to
  <2> QED BY <1>6, <2>1, <2>5, <2>6
<1>19. Tracks(g, old, NamesOf(s), Hot(cur) \cup {to})
  <2> DEFINE new == now \cup {to}
  <2>1. from \in new /\ new \in SUBSET Somewhere
    BY <1>5, <1>6
  <2>2. Childs(made, from) = {} \/ from \notin DOMAIN made
    BY <1>17
  <2>3. Tracks(made, old, new, Hot(cur) \cup {to})
    BY <1>13
  <2>4. Tracks(Deleted(made, from), old, new \ {from}, Hot(cur) \cup {to})
    <3> HIDE DEF old, now, new, from, to, made
    <3> QED BY <1>5, <1>16, <2>1, <2>2, <2>3, TracksDeletes
  <2> QED BY <1>3, <1>18, <2>4
<1>20. Tracks(g, old, NamesOf(s), Hot(s))
  <2>1. Hot(s) \subseteq Hot(cur) \cup {to}
    BY <1>2, <1>10, HotMoved
  <2> HIDE DEF old, to
  <2> QED BY <1>19, <2>1, TracksLess
<1>21. Near(files, g, from, to)
  <2>1. DOMAIN g \subseteq DOMAIN made \cup Chain(from)
    BY <1>3, DeletedGrows
  <2>2. \A q \in Chain(from) : IsPrefix(q, from)
    BY <1>6, ChainMeans
  <2>3. \A q \in Chain(to) : IsPrefix(q, to)
    BY <1>6, ChainMeans
  <2> QED BY <1>14, <2>1, <2>2, <2>3 DEF Near
<1>22. Quiet(s, g)
  BY <1>2, <1>4, <1>21, QuietMoved
<1> QED BY <1>1, <1>20, <1>22 DEF Followed

LEMMA DeleteFollows ==
  ASSUME Known, Sending(cur), Followed(cur, files), NEW i \in Ino, Delete(i), NEW s, s = cur', NEW g, g = files'
  PROVE  Followed(s, g) /\ thrown' = thrown
<1> DEFINE old == NamesOf(pre)
           now == NamesOf(cur)
           p == PathOf(cur, i)
<1>1. /\ i \in DOMAIN cur \ DOMAIN post /\ OverBelow(cur, i) /\ Leaves(cur, i)
      /\ DOMAIN s = DOMAIN cur \ {i} /\ \A j \in DOMAIN s : s[j] = cur[j]
      /\ Sending(s)
  BY DeleteSent
<1>2. g = Deleted(files, p) /\ thrown' = thrown /\ \A j \in DOMAIN cur : cur[j].up # i
  BY DEF Delete, Empty
<1>3. Tracks(files, old, now, Hot(cur)) /\ Quiet(cur, files)
  BY DEF Followed
<1>4. old \in SUBSET Somewhere /\ Closed(old) /\ now \in SUBSET Somewhere
  BY KnownNames
<1>5. Regular(cur) /\ Regular(s)
  BY <1>1, RegularNow
<1>6. p \in now /\ p \in Somewhere
  BY <1>1, <1>4 DEF NamesOf
<1>7. \A j \in DOMAIN s : PathOf(s, j) = PathOf(cur, j)
  BY <1>1, <1>5, PathsKept DEF Regular
<1>8. p \in DOMAIN files => p \notin old
  BY <1>1, <1>3, LeavesNewName
<1>9. \A q \in now : IsPrefix(p, q) => q = p
  BY <1>1, <1>2, <1>5, NoneBelow
<1>10. ASSUME p \in DOMAIN files, NEW q \in Childs(files, p) PROVE FALSE
  <2>1. q \in DOMAIN files /\ IsPrefix(p, q) /\ q # p
    BY <1>10 DEF Childs, IsStrictPrefix
  <2>2. q \in old \cup now
    BY <1>3, <2>1 DEF Tracks
  <2> QED BY <1>4, <1>6, <1>8, <1>9, <1>10, <2>1, <2>2 DEF Closed
<1>11. Tracks(g, old, now \ {p}, Hot(cur))
  <2>1. Childs(files, p) = {} \/ p \notin DOMAIN files
    BY <1>10
  <2> HIDE DEF old, now, p
  <2> QED BY <1>2, <1>3, <1>4, <1>6, <1>8, <2>1, TracksDeletes
<1>12. NamesOf(s) = now \ {p}
  <2>1. \A j \in DOMAIN s : PathOf(cur, j) # p
    BY <1>1, <1>5, PathIsOne
  <2> QED BY <1>1, <1>7, <2>1 DEF NamesOf
<1>13. Hot(s) \subseteq Hot(cur)
  BY <1>1, <1>7 DEF Hot
<1>14. Tracks(g, old, NamesOf(s), Hot(s))
  <2>1. Tracks(g, old, NamesOf(s), Hot(cur))
    BY <1>11, <1>12
  <2> HIDE DEF old
  <2> QED BY <1>13, <2>1, TracksLess
<1>15. Quiet(s, g)
  <2> SUFFICES ASSUME NEW j \in DOMAIN s, Unmoved(s, j), ~There(s, j), PathOf(s, j) = PathOf(pre, j), PathOf(pre, j) \in DOMAIN g
               PROVE  FALSE
    BY DEF Quiet
  <2>1. j \in DOMAIN cur /\ j # i /\ Unmoved(cur, j) /\ ~There(cur, j) /\ PathOf(cur, j) = PathOf(pre, j)
    BY <1>1, <1>7 DEF Unmoved, There
  <2>2. PathOf(cur, j) \in Chain(p)
    BY <1>2, <1>3, <2>1, DeletedGrows DEF Quiet
  <2>3. IsPrefix(PathOf(cur, j), PathOf(cur, i))
    BY <1>6, <2>2, ChainMeans
  <2>4. \A m \in Ino : m <= cur[i].up => Over(cur, m)
    BY <1>1 DEF Leaves
  <2>5. i \in DOMAIN cur
    BY <1>1
  <2> QED BY <2>1, <2>3, <2>4, <2>5, AboveIsDone
<1> QED BY <1>2, <1>14, <1>15 DEF Followed

LEMMA ChangeFollows ==
  ASSUME Known, Sending(cur), Followed(cur, files), NEW i \in Ino, Change(i), NEW s, s = cur', NEW g, g = files'
  PROVE  Followed(s, g) /\ thrown' = thrown
<1> DEFINE old == NamesOf(pre)
           now == NamesOf(cur)
           p == PathOf(cur, i)
           status == CmpFiles(cur[i].node, post[i].node)
<1>1. /\ i \in DOMAIN cur \cap DOMAIN post /\ OverBelow(cur, i) /\ There(cur, i)
      /\ cur[i].node # post[i].node /\ s[i].node = post[i].node
      /\ DOMAIN s = DOMAIN cur /\ \A j \in DOMAIN cur : j # i => s[j] = cur[j]
      /\ \A j \in DOMAIN cur : s[j].up = cur[j].up /\ s[j].name = cur[j].name
      /\ Sending(s)
  BY ChangeSent
<1>2. g = AddFlags(files, p, status) /\ thrown' = thrown
  BY DEF Change
<1>3. Tracks(files, old, now, Hot(cur)) /\ Quiet(cur, files)
  BY DEF Followed
<1>4. old \in SUBSET Somewhere /\ Closed(old) /\ now \in SUBSET Somewhere /\ Closed(now)
  BY KnownNames
<1>5. Regular(cur) /\ Regular(s)
  BY <1>1, RegularNow
<1>6. p \in now /\ p \in Somewhere
  BY <1>1, <1>4 DEF NamesOf
<1>7. \A j \in DOMAIN s : PathOf(s, j) = PathOf(cur, j)
  BY <1>1, <1>5, PathsKept DEF Regular
<1>8. NamesOf(s) = now
  BY <1>1, <1>7 DEF NamesOf
<1>9. ASSUME NEW q \in Hot(s), q \notin Hot(cur) PROVE q = p /\ status # {}
  <2>1. PICK x \in DOMAIN pre : \E j \in DOMAIN s :
          /\ PathOf(pre, x) = q /\ PathOf(s, j) = q /\ (x # j \/ CmpFiles(pre[x].node, s[j].node) # {})
    BY <1>9 DEF Hot
  <2>2. PICK j \in DOMAIN s :
          /\ PathOf(pre, x) = q /\ PathOf(s, j) = q /\ (x # j \/ CmpFiles(pre[x].node, s[j].node) # {})
    BY <2>1
  <2>3. j \in DOMAIN cur /\ PathOf(cur, j) = q /\ q \in NamesOf(pre)
    BY <1>1, <1>7, <2>2 DEF NamesOf
  <2>4. ~(x # j \/ CmpFiles(pre[x].node, cur[j].node) # {})
    BY <1>9, <2>2, <2>3 DEF Hot
  <2>5. j = i /\ x = i
    BY <1>1, <2>2, <2>3, <2>4
  <2>6. CmpFiles(pre[i].node, post[i].node) # {}
    BY <1>1, <2>2, <2>5
  <2>7. cur[i].node = pre[i].node
    BY <1>1, <2>5 DEF Sending, FileSent, NodeSent
  <2> QED BY <2>3, <2>5, <2>6, <2>7
<1>10. Tracks(g, old, NamesOf(s), Hot(s))
  <2> DEFINE new == Hot(s)
  <2>1. \A q \in Somewhere : IsStrictPrefix(q, p) => q \in now
    BY <1>4, <1>6 DEF Closed, IsStrictPrefix
  <2>2. status \cap Only = {}
    BY CmpFilesFlags
  <2>3. new \subseteq Hot(cur) \cup {p} /\ (status = {} => new \subseteq Hot(cur))
    BY <1>9
  <2>4. Tracks(AddFlags(files, p, status), old, now, new)
    <3> HIDE DEF old, now, p, status, new
    <3> QED BY <1>3, <1>6, <2>1, <2>2, <2>3, TracksChanged
  <2> QED BY <1>2, <1>8, <2>4
<1>11. Quiet(s, g)
  <2> SUFFICES ASSUME NEW j \in DOMAIN s, Unmoved(s, j), ~There(s, j), PathOf(s, j) = PathOf(pre, j), PathOf(pre, j) \in DOMAIN g
               PROVE  FALSE
    BY DEF Quiet
  <2>1. j # i
    BY <1>1 DEF There
  <2>2. j \in DOMAIN cur /\ Unmoved(cur, j) /\ ~There(cur, j) /\ PathOf(cur, j) = PathOf(pre, j)
    BY <1>1, <1>7, <2>1 DEF Unmoved, There
  <2>3. DOMAIN g \subseteq DOMAIN files \cup Chain(p)
    BY <1>2 DEF AddFlags, PutFlags
  <2>4. PathOf(cur, j) \in Chain(p)
    BY <1>3, <2>2, <2>3 DEF Quiet
  <2>5. IsPrefix(PathOf(cur, j), PathOf(cur, i))
    BY <1>6, <2>4, ChainMeans
  <2>6. ASSUME NEW m \in Ino, m <= cur[i].up PROVE Over(cur, m)
    <3>1. cur[i].up < i
      BY <1>1, <1>5 DEF Regular, Ordered
    <3>2. cur[i].up \in Nat /\ i \in Nat /\ m \in Nat
      BY <1>1, <1>5, ForestFacts, SendStreamConstants DEF Regular
    <3>3. m < i
      BY <2>6, <3>1, <3>2
    <3> QED BY <1>1, <3>3 DEF OverBelow
  <2>7. i \in DOMAIN cur
    BY <1>1
  <2> QED BY <2>1, <2>2, <2>5, <2>6, <2>7, AboveIsDone
<1> QED BY <1>2, <1>10, <1>11 DEF Followed

LEMMA MakeFollows ==
  ASSUME Known, Sending(cur), Followed(cur, files), NEW i \in Ino, Make(i), NEW s, s = cur', NEW g, g = files'
  PROVE  Followed(s, g) /\ thrown' = thrown
<1> DEFINE old == NamesOf(pre)
           now == NamesOf(cur)
           p == <<TempName(i)>>
<1>1. /\ OverBelow(cur, i) /\ i \notin DOMAIN cur /\ i \in DOMAIN post \ DOMAIN pre
      /\ g = Created(files, p)
      /\ DOMAIN s = DOMAIN cur \cup {i} /\ Away(s, i) /\ \A j \in DOMAIN cur : s[j] = cur[j]
      /\ Sending(s)
  BY MakeSent
<1>2. thrown' = thrown
  BY DEF Make
<1>3. Tracks(files, old, now, Hot(cur)) /\ Quiet(cur, files)
  BY DEF Followed
<1>4. Regular(cur) /\ Regular(s)
  BY <1>1, RegularNow
<1>5. TempName(i) \in Nat
  BY TempNameIsName
<1>6. \A j \in DOMAIN cur : PathOf(s, j) = PathOf(cur, j)
  BY <1>1, <1>4, PathsKept DEF Regular
<1>7. PathOf(s, i) = p
  <2>1. PathOf(s, i) = Append(PathOf(s, 0), TempName(i)) /\ PathOf(s, 0) = <<>>
    BY <1>1, <1>4, ForestFacts DEF Regular, Away
  <2>2. Append(<<>>, TempName(i)) = p
    OBVIOUS
  <2> QED BY <2>1, <2>2
<1>8. p \in Somewhere /\ p \notin now
  <2>1. i \in DOMAIN s
    BY <1>1
  <2>2. p \in Somewhere
    BY <1>4, <1>7, <2>1, ForestFacts DEF Regular
  <2>3. ASSUME NEW j \in DOMAIN cur, PathOf(cur, j) = p PROVE FALSE
    BY <1>1, <1>4, <1>6, <1>7, <2>3, PathIsOne
  <2> QED BY <2>2, <2>3 DEF NamesOf
<1>9. \A q \in Somewhere : ~IsStrictPrefix(q, p)
  BY <1>5, SingleName DEF IsStrictPrefix
<1>10. NamesOf(s) = now \cup {p}
  BY <1>1, <1>6, <1>7 DEF NamesOf
<1>11. Hot(s) \subseteq Hot(cur) \cup {p}
  <2> SUFFICES ASSUME NEW q \in Hot(s), q # p PROVE q \in Hot(cur)
    OBVIOUS
  <2>1. q \in NamesOf(pre)
    BY DEF Hot
  <2>2. PICK x \in DOMAIN pre : \E j \in DOMAIN s :
          /\ PathOf(pre, x) = q /\ PathOf(s, j) = q /\ (x # j \/ CmpFiles(pre[x].node, s[j].node) # {})
    BY DEF Hot
  <2>3. PICK j \in DOMAIN s :
          /\ PathOf(pre, x) = q /\ PathOf(s, j) = q /\ (x # j \/ CmpFiles(pre[x].node, s[j].node) # {})
    BY <2>2
  <2>4. j # i /\ j \in DOMAIN cur /\ s[j] = cur[j] /\ PathOf(cur, j) = q
    BY <1>1, <1>6, <1>7, <2>3
  <2> QED BY <2>1, <2>3, <2>4 DEF Hot
<1>12. Tracks(g, old, NamesOf(s), Hot(s))
  <2>1. Tracks(g, old, now \cup {p}, Hot(cur) \cup {p})
    <3> HIDE DEF old, now, p
    <3> QED BY <1>1, <1>3, <1>8, <1>9, TracksCreated
  <2>2. Tracks(g, old, NamesOf(s), Hot(cur) \cup {p})
    BY <1>10, <2>1
  <2> HIDE DEF old, p
  <2> QED BY <1>11, <2>2, TracksLess
<1>13. Quiet(s, g)
  <2> SUFFICES ASSUME NEW j \in DOMAIN s, Unmoved(s, j), ~There(s, j), PathOf(s, j) = PathOf(pre, j), PathOf(pre, j) \in DOMAIN g
               PROVE  FALSE
    BY DEF Quiet
  <2>1. j # i
    BY <1>1 DEF Unmoved
  <2>2. j \in DOMAIN cur /\ Unmoved(cur, j) /\ ~There(cur, j) /\ PathOf(cur, j) = PathOf(pre, j)
    BY <1>1, <1>6, <2>1 DEF Unmoved, There
  <2>3. DOMAIN g \subseteq DOMAIN files \cup Chain(p)
    BY <1>1, CreatedGrows
  <2>4. PathOf(cur, j) \in Chain(p)
    BY <1>3, <2>2, <2>3 DEF Quiet
  <2>5. PathOf(cur, j) = p
    BY <1>5, <1>8, <2>4, ChainMeans, SingleName
  <2> QED BY <1>8, <2>2, <2>5 DEF NamesOf
<1> QED BY <1>2, <1>12, <1>13 DEF Followed

LEMMA StartFollows ==
  ASSUME Known, NEW f, DOMAIN f = {}
  PROVE  Followed(pre, f)
<1>1. Regular(pre)
  BY DEF Known
<1>2. Hot(pre) = {}
  <2>1. \A n : CmpFiles(n, n) = {}
    BY CmpFilesFlags
  <2> QED BY <1>1, <2>1, PathIsOne DEF Hot
<1>3. Tracks(f, NamesOf(pre), NamesOf(pre), Hot(pre))
  BY <1>2 DEF Tracks, Closed
<1> QED BY <1>3 DEF Followed, Quiet

LEMMA CommandFollows ==
  ASSUME Known, Sending(cur), Followed(cur, files), thrown = FALSE, Command, NEW s, s = cur', NEW g, g = files'
  PROVE  Sending(s) /\ Followed(s, g) /\ thrown' = FALSE
<1>1. PICK i \in Ino : Make(i) \/ Evict(i) \/ Place(i) \/ Link(i) \/ Delete(i) \/ Change(i)
  BY DEF Command
<1>2. CASE Make(i)
  BY <1>2, MakeSent, MakeFollows
<1>3. CASE Evict(i)
  BY <1>3, EvictSent, EvictFollows
<1>4. CASE Place(i)
  <2>1. CanPlace(i) /\ Put(i, post[i].up, post[i].name)
    BY <1>4 DEF Place
  <2> QED BY <1>4, <2>1, PlaceSent, PlaceFollows
<1>5. CASE Link(i)
  <2>1. CanPlace(i) /\ Put(i, post[i].up, post[i].name)
    BY <1>5 DEF Link
  <2> QED BY <1>5, <2>1, PlaceSent, LinkFollows
<1>6. CASE Delete(i)
  BY <1>6, DeleteSent, DeleteFollows
<1>7. CASE Change(i)
  BY <1>7, ChangeSent, ChangeFollows
<1> QED BY <1>1, <1>2, <1>3, <1>4, <1>5, <1>6, <1>7

-----------------------------------------------------------------------------
(* After the last command                                                  *)

LEMMA SettledIsOver ==
  ASSUME Known, Sending(cur), Done
  PROVE  \A i \in Ino : Over(cur, i)
<1> SUFFICES ASSUME NEW i \in Ino PROVE Over(cur, i)
  OBVIOUS
<1>1. Settled(i)
  BY DEF Done
<1>2. CASE i \in DOMAIN post
  BY <1>1, <1>2 DEF Settled, Placed, Over, There
<1>3. CASE i \notin DOMAIN post /\ i \in DOMAIN cur
  <2>1. cur[i].name = TempName(i)
    BY <1>1, <1>3 DEF Settled
  <2>2. ~Unmoved(cur, i)
    BY <2>1, NoTempName DEF Known, Unmoved
  <2>3. ~There(cur, i)
    BY <1>3 DEF There
  <2> QED BY <1>3, <2>2, <2>3 DEF Over, Sending, FileSent
<1>4. CASE i \notin DOMAIN post /\ i \notin DOMAIN cur
  BY <1>4 DEF Over
<1> QED BY <1>2, <1>3, <1>4

LEMMA DoneMeans ==
  ASSUME Known, Sending(cur), Done
  PROVE  /\ DOMAIN cur = DOMAIN post
         /\ \A i \in DOMAIN post : PathOf(cur, i) = PathOf(post, i) /\ cur[i].node = post[i].node
<1>1. \A i \in Ino : Over(cur, i)
  BY SettledIsOver
<1>2. DOMAIN cur \subseteq Ino /\ Regular(cur) /\ Regular(post) /\ DOMAIN post \subseteq Ino /\ 0 \notin Ino
  BY RegularNow, KnownForests DEF Known
<1>3. ASSUME NEW i \in DOMAIN cur, i \notin DOMAIN post PROVE FALSE
  <2>1. PICK j \in DOMAIN cur : cur[j].up = i
    BY <1>2, <1>3 DEF Done, Settled, Empty
  <2>2. CASE j \in DOMAIN post
    <3>1. post[j].up = i
      BY <1>1, <1>2, <2>1, <2>2 DEF Over, There
    <3> QED BY <1>2, <1>3, <2>2, <3>1, KnownForests
  <2>3. CASE j \notin DOMAIN post
    BY <1>1, <1>2, <1>3, <2>1, <2>3 DEF Over, Away
  <2> QED BY <2>2, <2>3
<1>4. \A i \in DOMAIN post : /\ i \in DOMAIN cur /\ cur[i].node = post[i].node
                             /\ cur[i].up = post[i].up /\ cur[i].name = post[i].name
  BY <1>1, <1>2 DEF Over, There
<1>5. DOMAIN cur = DOMAIN post
  BY <1>3, <1>4
<1>6. \A i \in DOMAIN post : PathOf(cur, i) = PathOf(post, i)
  BY <1>2, <1>4, <1>5, PathsKept DEF Regular
<1> QED BY <1>4, <1>5, <1>6

LEMMA DoneTracks ==
  ASSUME Known, Sending(cur), Done, NEW f, Followed(cur, f)
  PROVE  Tracks(f, NamesOf(pre), NamesOf(post), Hot(post))
<1>1. /\ DOMAIN cur = DOMAIN post
      /\ \A i \in DOMAIN post : PathOf(cur, i) = PathOf(post, i) /\ cur[i].node = post[i].node
  BY DoneMeans
<1>2. NamesOf(cur) = NamesOf(post)
  BY <1>1 DEF NamesOf
<1>3. Hot(post) \subseteq Hot(cur)
  BY <1>1 DEF Hot
<1>4. Tracks(f, NamesOf(pre), NamesOf(post), Hot(cur))
  BY <1>2 DEF Followed
<1> QED BY <1>3, <1>4, TracksLess

(* A name that is not hot belongs to the same file in both, unchanged.     *)
LEMMA ColdIsEqual ==
  ASSUME Known, NEW p \in NamesOf(pre) \cap NamesOf(post), p \notin Hot(post)
  PROVE  CmpFiles(Tree1[p], Tree2[p]) = {}
<1>1. PICK x \in DOMAIN pre : p = PathOf(pre, x)
  BY DEF NamesOf
<1>2. PICK j \in DOMAIN post : p = PathOf(post, j)
  BY DEF NamesOf
<1>3. CmpFiles(pre[x].node, post[j].node) = {}
  BY <1>1, <1>2 DEF Hot
<1>4. Tree1[p] = pre[x].node /\ Tree2[p] = post[j].node
  BY <1>1, <1>2, TreeOfNames DEF Known, Tree1, Tree2
<1> QED BY <1>3, <1>4

(* check after the last command                                            *)
LEMMA CheckIsStatus ==
  ASSUME Known, Tracks(files, NamesOf(pre), NamesOf(post), Hot(post)),
         DOMAIN Tree1 = NamesOf(pre), DOMAIN Tree2 = NamesOf(post)
  PROVE  /\ \A p \in Rechecked : p \in DOMAIN Tree1 \cap DOMAIN Tree2
         /\ \A p \in DOMAIN files : Check(p) = Status(Tree1, Tree2, p)
         /\ Differing(Tree1, Tree2) \subseteq DOMAIN files
<1>1. \A p \in DOMAIN files : p \in DOMAIN Tree1 \cup DOMAIN Tree2
  BY DEF Tracks
<1>2. ASSUME NEW p \in DOMAIN files, p \in DOMAIN Tree1, p \notin DOMAIN Tree2
      PROVE  p \notin Rechecked /\ Check(p) = Status(Tree1, Tree2, p)
  <2>1. files[p] = {"DELETED"}
    BY <1>2 DEF Tracks
  <2>2. p \notin Rechecked
    BY <2>1 DEF Rechecked
  <2> QED BY <1>2, <2>1, <2>2 DEF Check, Status
<1>3. ASSUME NEW p \in DOMAIN files, p \notin DOMAIN Tree1, p \in DOMAIN Tree2
      PROVE  p \notin Rechecked /\ Check(p) = Status(Tree1, Tree2, p)
  <2>1. "CREATED" \in files[p] /\ "DELETED" \notin files[p]
    BY <1>3 DEF Tracks
  <2>2. p \notin Rechecked
    BY <2>1 DEF Rechecked
  <2>3. files[p] \cap {"CREATED", "DELETED"} = {"CREATED"}
    BY <2>1
  <2> QED BY <1>3, <2>2, <2>3 DEF Check, Status
<1>4. ASSUME NEW p \in DOMAIN files, p \in DOMAIN Tree1, p \in DOMAIN Tree2
      PROVE  Check(p) = Status(Tree1, Tree2, p)
  <2>1. files[p] \cap {"CREATED", "DELETED"} = {}
    BY <1>4 DEF Tracks, Only
  <2>2. CASE files[p] # {}
    <3>1. p \in Rechecked
      BY <2>1, <2>2 DEF Rechecked
    <3> QED BY <1>4, <3>1 DEF Check, Status
  <2>3. CASE files[p] = {}
    <3>1. p \notin Rechecked
      BY <2>3 DEF Rechecked
    <3>2. p \notin Hot(post)
      BY <1>4, <2>3 DEF Tracks
    <3>3. CmpFiles(Tree1[p], Tree2[p]) = {}
      BY <1>4, <3>2, ColdIsEqual
    <3> QED BY <1>4, <2>1, <3>1, <3>3 DEF Check, Status
  <2> QED BY <2>2, <2>3
<1>5. ASSUME NEW p \in Differing(Tree1, Tree2), p \notin DOMAIN files PROVE FALSE
  <2>1. p \in DOMAIN Tree1 \cap DOMAIN Tree2 /\ p \notin Hot(post)
    BY <1>5 DEF Tracks, Differing
  <2>2. CmpFiles(Tree1[p], Tree2[p]) = {}
    BY <2>1, ColdIsEqual
  <2> QED BY <1>5, <2>1, <2>2 DEF Differing, Status
<1>6. \A p \in Rechecked : p \in DOMAIN files
  BY DEF Rechecked
<1> QED BY <1>1, <1>2, <1>3, <1>4, <1>5, <1>6

LEMMA DoneIsExact ==
  ASSUME Same, Followable, Sending(cur), Followed(cur, files), thrown = FALSE, Done
  PROVE  BtrfsCmpDirs = CmpDirs(Tree1, Tree2)
<1>1. Known /\ Snapshots
  BY SnapshotsAreKnown, SameSnapshots
<1>2. DOMAIN Tree1 = NamesOf(pre) /\ DOMAIN Tree2 = NamesOf(post)
  BY <1>1, TreeOfNames DEF Known, Tree1, Tree2
<1>3. Tracks(files, NamesOf(pre), NamesOf(post), Hot(post))
  BY <1>1, DoneTracks
<1>4. /\ \A p \in Rechecked : p \in DOMAIN Tree1 \cap DOMAIN Tree2
      /\ \A p \in DOMAIN files : Check(p) = Status(Tree1, Tree2, p)
      /\ Differing(Tree1, Tree2) \subseteq DOMAIN files
  BY <1>1, <1>2, <1>3, CheckIsStatus
<1>5. Tree(Tree1) /\ Tree(Tree2)
  BY <1>1, SnapshotTrees
<1>6. ~CheckThrows
  BY <1>4, <1>5 DEF CheckThrows, Tree, IsTree
<1>7. Result = ListOf(Tree1, Tree2, Differing(Tree1, Tree2))
  <2>1. \A p \in DOMAIN files : p \in DOMAIN Tree1 \cup DOMAIN Tree2
    BY <1>2, <1>3 DEF Tracks
  <2>2. {q \in DOMAIN files : Check(q) # {}} = Differing(Tree1, Tree2)
    BY <1>4, <2>1 DEF Differing
  <2>3. \A p \in Differing(Tree1, Tree2) : [name |-> p, status |-> Check(p)] = Entry(Tree1, Tree2, p)
    BY <1>4 DEF Entry
  <2> QED BY <2>2, <2>3 DEF Result, ListOf
<1>8. ASSUME NEW t \in {pre, post}, NEW p \in DOMAIN TreeOf(t) PROVE TreeOf(t)[p].dev = "own"
  <2>1. DOMAIN TreeOf(t) = NamesOf(t) /\ \A i \in DOMAIN t : TreeOf(t)[PathOf(t, i)] = t[i].node
    BY <1>1, TreeOfNames DEF Known
  <2>2. PICK i \in DOMAIN t : p = PathOf(t, i)
    BY <2>1 DEF NamesOf
  <2> QED BY <2>1, <2>2 DEF Followable, SameFiles
<1>9. \A p \in Differing(Tree1, Tree2) : Reached(Tree1, Tree2, <<>>, p)
  BY <1>8 DEF Reached, Own, Tree1, Tree2
<1>10. {p \in Differing(Tree1, Tree2) : Reached(Tree1, Tree2, <<>>, p)} = Differing(Tree1, Tree2)
  BY <1>9
<1>11. CmpDirs(Tree1, Tree2) = ListOf(Tree1, Tree2, {p \in Differing(Tree1, Tree2) : Reached(Tree1, Tree2, <<>>, p)})
  BY <1>5, ComparisonIsExact
<1> QED BY <1>6, <1>7, <1>10, <1>11 DEF BtrfsCmpDirs

-----------------------------------------------------------------------------
(* The theorems about the list of the send stream                          *)

Collecting == Same /\ (Followable => Sending(cur) /\ Followed(cur, files) /\ thrown = FALSE)

LEMMA InitCollecting == Init => Collecting
<1> SUFFICES ASSUME Init PROVE Collecting
  OBVIOUS
<1>1. Same
  BY DEF Init, Same
<1>2. cur = pre /\ DOMAIN files = {} /\ thrown = FALSE
  BY DEF Init
<1>3. ASSUME Followable PROVE Sending(cur) /\ Followed(cur, files)
  <2>1. Known
    BY <1>1, <1>3, SnapshotsAreKnown
  <2> QED BY <1>2, <2>1, StartSent, StartFollows
<1> QED BY <1>1, <1>2, <1>3 DEF Collecting

LEMMA SendingNext ==
  ASSUME pre' = pre, post' = post, NEW s, s = cur', Sending(s)
  PROVE  Sending(cur)'
<1>1. \A i : /\ Unmoved(cur, i)' <=> Unmoved(s, i)
             /\ Away(cur, i)' <=> Away(s, i)
             /\ There(cur, i)' <=> There(s, i)
             /\ SamePlace(i)' <=> SamePlace(i)
  BY DEF Unmoved, Away, There, SamePlace
<1>2. \A i : Over(cur, i)' <=> Over(s, i)
  BY <1>1 DEF Over
<1>3. \A i : Fresh(cur, i)' <=> Fresh(s, i)
  BY <1>1 DEF Fresh
<1>4. \A i : OverBelow(cur, i)' <=> OverBelow(s, i)
  BY <1>2 DEF OverBelow
<1>5. \A i : NodeSent(cur, i)' <=> NodeSent(s, i)
  BY <1>1 DEF NodeSent
<1>6. \A i : Over(cur, pre[i].up)' <=> Over(s, pre[i].up)
  BY <1>1 DEF Over, There, Away
<1>7. \A i : FileSent(cur, i)' <=> FileSent(s, i)
  BY <1>1, <1>5, <1>6 DEF FileSent
<1>8. Forest(cur)' /\ OneEach(cur)'
  BY DEF Sending, Forest, Deep, OneEach
<1> QED BY <1>3, <1>4, <1>7, <1>8 DEF Sending

LEMMA FollowedNext ==
  ASSUME pre' = pre, post' = post, NEW s, s = cur', NEW g, g = files', Followed(s, g)
  PROVE  Followed(cur, files)'
<1>1. NamesOf(pre)' = NamesOf(pre) /\ NamesOf(cur)' = NamesOf(s)
  BY DEF NamesOf
<1>2. Hot(cur)' = Hot(s)
  BY <1>1 DEF Hot
<1>3. Tracks(files, NamesOf(pre), NamesOf(cur), Hot(cur))'
  BY <1>1, <1>2 DEF Followed, Tracks, Closed
<1>4. \A i : Unmoved(cur, i)' <=> Unmoved(s, i)
  BY DEF Unmoved
<1>5. \A i : There(cur, i)' <=> There(s, i)
  BY DEF There
<1>6. Quiet(cur, files)'
  BY <1>4, <1>5 DEF Followed, Quiet
<1> QED BY <1>3, <1>6 DEF Followed

LEMMA CollectingStep ==
  ASSUME Collecting, [Next]_vars
  PROVE  Collecting'
<1>1. pre' = pre /\ post' = post /\ method' = method
  BY SnapshotsStay
<1>2. Same' = Same
  BY <1>1, TreesStay
<1>3. Followable' = Followable
  BY <1>1 DEF Followable, MovesDir, ReusesDir, SameFiles
<1>4. ASSUME Followable PROVE Sending(cur)' /\ Followed(cur, files)' /\ thrown' = FALSE
  <2> DEFINE s == cur'
             g == files'
  <2>1. Known /\ Sending(cur) /\ Followed(cur, files) /\ thrown = FALSE
    BY <1>4, SnapshotsAreKnown DEF Collecting
  <2>2. Sending(s) /\ Followed(s, g) /\ thrown' = FALSE
    <3>1. CASE Send
      BY <2>1, <3>1, CommandFollows DEF Send
    <3>2. CASE ~Send
      <4>1. UNCHANGED streamVars
        <5>1. ASSUME NEW p \in Path, Edit(p) PROVE UNCHANGED streamVars
          BY <5>1 DEF Edit
        <5>2. ASSUME NEW fault \in Fault \cup {"none"}, Undo(fault) PROVE UNCHANGED streamVars
          BY <5>2 DEF Undo
        <5> QED BY <3>2, <5>1, <5>2 DEF Next, Compare, Choose, Finished, vars
      <4>2. s = cur /\ g = files /\ thrown' = thrown
        BY <4>1 DEF streamVars
      <4> QED BY <2>1, <4>2
    <3> QED BY <3>1, <3>2
  <2> HIDE DEF s, g
  <2>3. s = cur' /\ g = files'
    BY DEF s, g
  <2> QED BY <1>1, <2>2, <2>3, SendingNext, FollowedNext
<1> QED BY <1>2, <1>3, <1>4 DEF Collecting

LEMMA CollectingMeans == Collecting => StreamExact
BY DoneIsExact DEF Collecting, StreamExact

(* The list that the StreamProcessor collects is the one of a comparison   *)
(* directory by directory (Btrfs.cc, Compare.cc): whatever commands the    *)
(* kernel sends for two snapshots without the shapes that Followable names.*)
THEOREM StreamIsExact == Spec => []StreamExact
<1>1. Collecting /\ [Next]_vars => Collecting'
  BY CollectingStep
<1> QED BY <1>1, InitCollecting, CollectingMeans, PTL DEF Spec

(* Undoing the whole of a list leads back to the first snapshot, with no   *)
(* step failing (Files::getUndoSteps, File::doUndo): for all snapshots and *)
(* paths, however deep, whether the list was computed, loaded for the      *)
(* other order and turned round, or collected from the commands of btrfs   *)
(* send.                                                                   *)
THEOREM WholeUndoLeadsBack == Spec => []UndoRestores
<1>1. Inv /\ Collecting /\ [Next]_vars => Inv' /\ Collecting'
  BY InvStep, CollectingStep, CollectingMeans
<1> QED BY <1>1, InitInv, InitCollecting, InvMeans, PTL DEF Spec

=============================================================================
