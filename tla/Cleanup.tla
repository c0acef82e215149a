------------------------------ MODULE Cleanup ------------------------------
(***************************************************************************)
(* `snapper cleanup <algorithm>' (src/client/cleanup.cc): a client process *)
(* lists the snapshots of a config, works out from that list which ones to *)
(* delete, and asks snapperd to delete them one by one, while other        *)
(* clients create, delete, mount, compare and lock.  The first refusal     *)
(* ends the process.  Of the daemon only what answers these calls is here; *)
(* the daemon itself is module Snapperd.                                   *)
(***************************************************************************)
EXTENDS Integers, FiniteSetsExt

CONSTANTS
  Num,         \* snapshot numbers (bound on nextNumber)
  MaxTime,     \* bound on the clock
  Algorithms,  \* the algorithms the cron job runs, in any order
  MinAge,      \* NUMBER_MIN_AGE, TIMELINE_MIN_AGE, EMPTY_PRE_POST_MIN_AGE
  Limit,       \* NUMBER_LIMIT
  Unit,        \* the lengths of an hour, a day, a month and a year
  UnitLimit,   \* TIMELINE_LIMIT_HOURLY, _DAILY, _MONTHLY and _YEARLY
  Kind,        \* what other clients create: type, cleanup algorithm, and for a
               \* post snapshot whether nothing changed since its pre snapshot
  Others       \* what else they do: "delete"; "hold" locks, comparisons, mounts

ASSUME CleanupConstants ==
  /\ Num \subseteq Nat \ {0} /\ IsFiniteSet(Num) /\ MaxTime \in Nat
  /\ Algorithms \subseteq {"number", "timeline", "empty-pre-post"}
  /\ MinAge \in Nat /\ Limit \in Nat
  /\ Unit \in [1..4 -> Nat \ {0}] /\ UnitLimit \in [1..4 -> Nat]
  /\ \A u \in 1..3 : Unit[u + 1] % Unit[u] = 0
  /\ Kind \subseteq [type : {"single", "pre", "post"}, cleanup : {"", "number", "timeline"},
                      same : BOOLEAN]
  /\ Others \subseteq {"delete", "hold"}

VARIABLES
  snaps,    \* the snapshots of the config
  now,      \* the clock
  algo,     \* the algorithm of the process
  pc,       \* "idle": no process; "compare", "delete": its loops;
            \* "ended": it has exited, the daemon has not yet removed the client
  seen,     \* the snapshots it was sent by ListSnapshots
  at,       \* the time filter1 took
  tmp,      \* what it has picked for deletion
  pairs,    \* the pre snapshots whose pairs it has yet to compare
  uses,     \* the comparisons it owns in the daemon
  result,   \* how the process ended: "none", "done", "failed"
  quiet     \* nobody else has deleted a snapshot since it listed

runVars == <<algo, seen, at, result>>
vars == <<snaps, now, pc, runVars, tmp, pairs, uses, quiet>>

Snapshot == [num : Num, type : {"single", "pre", "post"}, pre_num : Num \cup {0},
             cleanup : {"", "number", "timeline"}, date : 0..MaxTime, same : BOOLEAN]

TypeOK ==
  /\ snaps \subseteq Snapshot /\ seen \subseteq Snapshot
  /\ tmp \subseteq seen /\ pairs \subseteq seen
  /\ now \in 0..MaxTime /\ at \in 0..now
  /\ algo \in Algorithms
  /\ pc \in {"idle", "compare", "delete", "ended"}
  /\ uses \in 0..Cardinality(Num)
  /\ result \in {"none", "done", "failed"}
  /\ quiet \in BOOLEAN

-----------------------------------------------------------------------------
(* The client's list of snapshots and its filters                          *)

Numbers(S) == {s.num : s \in S}

(* XSnapshots::findPost and findPre: the other half of a pair, if any      *)
FindPost(S, s) == {t \in S : t.type = "post" /\ t.pre_num = s.num}
FindPre(S, s) == {t \in S : t.type = "pre" /\ t.num = s.pre_num}
Partner(S, s) == CASE s.type = "pre" -> FindPost(S, s)
                   [] s.type = "post" -> FindPre(S, s)
                   [] OTHER -> {}

(* filter1: not those younger than MinAge                                  *)
Filter1(T, t) == {s \in T : s.date + MinAge <= t}

(* filter2: not half a pair                                                *)
Filter2PreOnly(S, T) == {s \in T : s.type = "pre" => FindPost(S, s) \subseteq T}
Filter2(S, T) == {s \in T : Partner(S, s) \subseteq T}

-----------------------------------------------------------------------------
(* do_cleanup_number: all but the newest Limit                             *)

With(S, a) == {s \in S : s.cleanup = a}

SurplusOneMore(S) ==
  {s \in With(S, "number") :
     Cardinality({t \in With(S, "number") : t.num > s.num}) + 1 >= Limit}
Surplus(S) ==
  {s \in With(S, "number") :
     Cardinality({t \in With(S, "number") : t.num > s.num}) >= Limit}

(* is_first: walking from s to older ones, another unit of time comes      *)
(* before an older entry of the same one.                                  *)
SameUnit(u, s, t) == s.date \div Unit[u] = t.date \div Unit[u]
IsLast(S, s, u) == ~\E t \in S : t.num > s.num /\ SameUnit(u, s, t)
IsFirst(S, s, u) ==
  ~\E t \in S : /\ t.num < s.num /\ t.date < s.date
               /\ \A r \in S : t.num <= r.num /\ r.num < s.num => SameUnit(u, s, r)

(* The loop of do_cleanup_timeline: an entry is kept for the smallest unit *)
(* of time whose limit is not reached and of which it is the first; all    *)
(* others are left in tmp.                                                 *)
Advance(S, before, s) ==
  LET units == {u \in 1..4 : before.kept[u] < UnitLimit[u] /\ IsFirst(S, s, u)}
  IN  IF units = {} THEN [before EXCEPT !.tmp = @ \cup {s}]
                    ELSE [before EXCEPT !.kept[Min(units)] = @ + 1]

(* ... from the newest entry to the oldest: after[k] is when those with a  *)
(* number above k are done.                                                *)
Last == Max(Num \cup {0})
ScanUncounted(S) == {s \in S : \A u \in 1..4 : ~IsFirst(S, s, u)}
Scan(S) ==
  LET after[k \in 0..Last] ==
        IF k = Last THEN [kept |-> [u \in 1..4 |-> 0], tmp |-> {}]
        ELSE IF k + 1 \in Numbers(S)
             THEN Advance(S, after[k + 1], CHOOSE s \in S : s.num = k + 1)
             ELSE after[k + 1]
  IN  after[0].tmp

Outdated(S) == Scan(With(S, "timeline"))

Plan(a, S, t) ==
  Filter2(S, Filter1(IF a = "number" THEN Surplus(S) ELSE Outdated(S), t))

-----------------------------------------------------------------------------

Init ==
  /\ snaps = {} /\ seen = {} /\ tmp = {} /\ pairs = {}
  /\ now = 0 /\ at = 0 /\ uses = 0
  /\ algo \in Algorithms
  /\ pc = "idle" /\ result = "none"
  /\ quiet = TRUE

(* The process                                                             *)

(* ListSnapshots, and what follows up to the next call: the number and the *)
(* timeline algorithm know by then what to delete.                         *)
Start(a) ==
  /\ pc = "idle"
  /\ algo' = a /\ seen' = snaps /\ at' = now /\ result' = "none" /\ quiet' = TRUE
  /\ IF a = "empty-pre-post"
     THEN /\ pc' = "compare"
          /\ pairs' = {s \in snaps : s.type = "pre" /\ FindPost(snaps, s) # {}}
          /\ tmp' = {}
     ELSE /\ pc' = "delete" /\ tmp' = Plan(a, snaps, now)
          /\ UNCHANGED pairs
  /\ UNCHANGED <<snaps, now, uses>>

(* The next pair of do_cleanup_empty_pre_post                              *)
NextPair(p) == p \in pairs /\ \A q \in pairs : p.num <= q.num

(* CreateComparison and GetFiles of a pair that is still there             *)
CompareAgain ==
  /\ pc = "compare"
  /\ \E p \in pairs : \E s \in FindPost(seen, p) :
       /\ NextPair(p)
       /\ {p.num, s.num} \subseteq Numbers(snaps)
       /\ tmp' = IF \E t \in snaps : t.num = s.num /\ t.same THEN tmp \cup {p, s} ELSE tmp
  /\ uses' = uses + 1
  /\ UNCHANGED <<snaps, now, pc, runVars, pairs, quiet>>
Compare ==
  /\ pc = "compare"
  /\ \E p \in pairs : \E s \in FindPost(seen, p) :
       /\ NextPair(p)
       /\ {p.num, s.num} \subseteq Numbers(snaps)
       /\ pairs' = pairs \ {p}
       /\ tmp' = IF \E t \in snaps : t.num = s.num /\ t.same THEN tmp \cup {p, s} ELSE tmp
  /\ uses' = uses + 1
  /\ UNCHANGED <<snaps, now, pc, runVars, quiet>>

(* All pairs are compared: filter1 and filter2                             *)
Compared ==
  /\ pc = "compare" /\ pairs = {}
  /\ pc' = "delete" /\ at' = now
  /\ tmp' = Filter2(seen, Filter1(tmp, now))
  /\ UNCHANGED <<snaps, now, algo, seen, result, pairs, uses, quiet>>

(* The number in the next DeleteSnapshots call (do_cleanup_empty_pre_post  *)
(* goes pair by pair, of which only the first pre snapshot matters: its    *)
(* own comparisons make that call fail)                                    *)
Next1(k) == k \in Numbers(tmp) /\ \A j \in Numbers(tmp) : k <= j

(* Client::delete_snapshots of number k throws: the process's comparisons  *)
(* are uses of the config, there is no such snapshot, or another client    *)
(* has the lock, a comparison, or the snapshot mounted, which may be so at *)
(* any call and over by the next.                                          *)
MustRefuse(k) == uses > 0 \/ k \notin Numbers(snaps)
MayRefuse(k) == MustRefuse(k) \/ "hold" \in Others

DeleteFirstOnly ==
  /\ pc = "delete"
  /\ \E k \in Num :
       /\ Next1(k) /\ ~MustRefuse(k)
       /\ snaps' = {s \in snaps : s.num # k}
       /\ tmp' = {}
  /\ UNCHANGED <<now, pc, runVars, pairs, uses, quiet>>
Delete ==
  /\ pc = "delete"
  /\ \E k \in Num :
       /\ Next1(k) /\ ~MustRefuse(k)
       /\ snaps' = {s \in snaps : s.num # k}
       /\ tmp' = {s \in tmp : s.num # k}
  /\ UNCHANGED <<now, pc, runVars, pairs, uses, quiet>>

(* The process exits: nothing is left to delete, or the daemon has         *)
(* answered a call with an error.                                          *)
Exit ==
  /\ \/ pc = "delete" /\ tmp = {} /\ result' = "done"
     \/ pc = "delete" /\ result' = "failed" /\ \E k \in Num : Next1(k) /\ MayRefuse(k)
     \/ /\ pc = "compare" /\ result' = "failed"
        /\ \E p \in pairs : \E s \in FindPost(seen, p) :
             NextPair(p) /\ ~({p.num, s.num} \subseteq Numbers(snaps))
  /\ pc' = "ended" /\ tmp' = {} /\ pairs' = {}
  /\ UNCHANGED <<snaps, now, algo, seen, at, uses, quiet>>

(* Client::~Client in the daemon deletes the comparisons.                  *)
ReapedButCounted ==
  /\ pc = "ended"
  /\ pc' = "idle"
  /\ seen' = {} /\ at' = 0 /\ result' = "none" /\ quiet' = TRUE
  /\ UNCHANGED <<snaps, now, algo, tmp, pairs, uses>>
Reaped ==
  /\ pc = "ended"
  /\ pc' = "idle" /\ uses' = 0
  /\ seen' = {} /\ at' = 0 /\ result' = "none" /\ quiet' = TRUE
  /\ UNCHANGED <<snaps, now, algo, tmp, pairs>>

-----------------------------------------------------------------------------
(* Time and the other clients                                              *)

Tick ==
  /\ now < MaxTime
  /\ now' = now + 1
  /\ UNCHANGED <<snaps, pc, runVars, tmp, pairs, uses, quiet>>

(* A snapshot is created; createHelper takes the number after the last one.*)
OtherCreates(kind) ==
  /\ \E k \in Num, p \in Num \cup {0} :
       /\ k = IF snaps = {} THEN 1 ELSE Max(Numbers(snaps)) + 1
       /\ IF kind.type = "post"
          THEN \E s \in snaps : s.type = "pre" /\ s.num = p /\ FindPost(snaps, s) = {}
          ELSE p = 0
       /\ snaps' = snaps \cup {[num |-> k, type |-> kind.type, pre_num |-> p,
                                cleanup |-> kind.cleanup, date |-> now, same |-> kind.same]}
  /\ UNCHANGED <<now, pc, runVars, tmp, pairs, uses, quiet>>

OtherDeletes ==
  /\ "delete" \in Others
  /\ uses = 0
  /\ \E k \in Numbers(snaps) : snaps' = {s \in snaps : s.num # k}
  /\ quiet' = FALSE
  /\ UNCHANGED <<now, pc, runVars, tmp, pairs, uses>>

Process == (\E a \in Algorithms : Start(a)) \/ Compare \/ Compared \/ Delete \/ Exit

Next ==
  \/ Process \/ Reaped \/ Tick
  \/ \E kind \in Kind : OtherCreates(kind)
  \/ OtherDeletes

Spec == Init /\ [][Next]_vars

(* A process that has started runs to its end, and the daemon removes it.  *)
FairSpec ==
  /\ Spec
  /\ WF_vars(Compare \/ Compared \/ Delete \/ Exit)
  /\ WF_vars(Reaped)

-----------------------------------------------------------------------------
(* Properties                                                              *)

Newest(S, n) == {s \in S : Cardinality({t \in S : t.num > s.num}) < n}

(* filter2 does its job across the separate DeleteSnapshots calls: a run   *)
(* that comes to its end leaves every pair of its list whole or deletes it *)
(* whole, also when the halves differ in age or in their algorithm.  (Only *)
(* a run that was refused in the middle leaves a half.)                    *)
PairsWhole ==
  result = "done" /\ quiet =>
    \A s \in seen : \A t \in Partner(seen, s) : s \in snaps <=> t \in snaps

(* The number algorithm never deletes one of the newest Limit snapshots it *)
(* was sent, one with another algorithm, or one younger than MinAge,       *)
(* whatever the other clients create meanwhile.  (Once they delete too, a  *)
(* number it was sent may name a new snapshot.)                            *)
Spared(s) == \/ s \in Newest(With(seen, "number"), Limit)
             \/ s.cleanup # algo
             \/ s.date + MinAge > at
NumberSpares == algo = "number" /\ quiet => \A s \in seen : Spared(s) => s \in snaps

(* doc/snapper.8.in: timeline "keeps a number of hourly, daily, monthly    *)
(* and yearly snapshots": the first snapshots of the last UnitLimit[u]     *)
(* units that have one are all kept, although entries kept for a smaller   *)
(* unit are not counted again.                                             *)
FirstOf(S, u) == {s \in S : \A t \in S : SameUnit(u, s, t) => s.date <= t.date}
TimelineKeeps ==
  algo = "timeline" /\ quiet =>
    \A u \in 1..4 : Newest(FirstOf(With(seen, "timeline"), u), UnitLimit[u]) \subseteq snaps

(* ... and "deletes old snapshots": of those old enough and not in a pair, *)
(* a completed run leaves no more than the limits allow together (MinAge   *)
(* being above 0, no later snapshot is equal to a deleted one).            *)
TimelineBounded ==
  result = "done" /\ quiet /\ algo = "timeline" =>
    Cardinality({s \in seen \cap snaps : /\ s.cleanup = "timeline" /\ Partner(seen, s) = {}
                                         /\ s.date + MinAge <= at})
      <= UnitLimit[1] + UnitLimit[2] + UnitLimit[3] + UnitLimit[4]

(* A completed run has left nothing of its list for a second one at the    *)
(* same time: deleting some snapshots never makes another one superfluous  *)
(* or a kept one the second of its hour.                                   *)
Idempotent ==
  result = "done" /\ quiet /\ algo # "empty-pre-post" => Plan(algo, seen \cap snaps, at) = {}

(* The comparisons of the empty-pre-post algorithm, which it never         *)
(* deletes, keep others from deleting snapshots no longer than it runs.    *)
BlocksNotForever == uses > 0 ~> uses = 0

(* doc/snapper.8.in: "empty-pre-post - Deletes pre/post snapshot pairs     *)
(* with empty diffs."  A run that nobody disturbed has left no such pair   *)
(* that is old enough, where no other client's lock, comparison or mount   *)
(* can be the reason.                                                      *)
EmptyPairsDeleted ==
  algo = "empty-pre-post" /\ result # "none" /\ quiet /\ "hold" \notin Others
  => \A s \in seen \cap snaps :
       s.type = "post" /\ s.same /\ s.date + MinAge <= at => FindPre(snaps, s) = {}

=============================================================================
