--------------------------- MODULE SnapperdProofs ---------------------------
(* Theorems about module Snapperd, for every value of its constants.       *)
EXTENDS Snapperd, FiniteSetTheorems, FunctionTheorems, SequenceTheorems, TLAPS

(* TypeOK without what depends on the bookkeeping being right.             *)
Typing ==
  /\ client \in [Client -> {"absent", "active", "zombie", "ended"}]
  /\ queued \in [Client -> 0..MaxTasks]
  /\ locks \in [Client -> SUBSET Config]
  /\ comparisons \subseteq Comparison /\ IsFiniteSet(comparisons)
  /\ gap \subseteq Construction /\ IsFiniteSet(gap)
  /\ mounts \in [Client -> [Config -> [Num -> 0..MaxMounts]]]
  /\ metas \subseteq Config
  /\ counter \in [Config -> Int]
  /\ loaded \subseteq Config
  /\ snaps \in [Config -> SUBSET Snapshot]
  /\ disk \in [Config -> SUBSET Snapshot]
  /\ bg \in Seq(Task)
  /\ bgpc \in {"idle", "compare", "counted"} /\ (bgpc # "idle" => bg # <<>>)
  /\ idle \in BOOLEAN
  /\ daemon \in {"running", "exited", "aborted"}

(* An absent client has left nothing behind, a worker that has ended was   *)
(* not building a comparison, and a worker builds one at a time.           *)
Sessions ==
  /\ \A n \in Client : client[n] = "absent" => locks[n] = {} /\ mounts[n] = NoMounts
  /\ \A x \in comparisons : client[x.client] # "absent"
  /\ \A g \in gap : client[g.client] \in {"active", "zombie"}
  /\ \A g, h \in gap : g.client = h.client => g = h

IdleAlone == idle => bg = <<>> /\ \A n \in Client : client[n] = "absent"

(* The inductive invariant, from which TypeOK, UseCountExact,              *)
(* NoDanglingReference and IdleMeansFree follow: every step of the         *)
(* clients, the workers, the background thread and the main loop keeps it. *)
IInv ==
  /\ Typing /\ Sessions /\ IdleAlone
  /\ UseCountExact
  /\ loaded \subseteq metas /\ NoDanglingReference

-----------------------------------------------------------------------------

(* Whatever has just started is well typed.                                *)
LEMMA TypingInit == Init => Typing
<1>1. {} \in SUBSET Comparison /\ {} \in SUBSET Construction /\ IsFiniteSet({})
  BY FS_EmptySet
<1>2. NoMounts \in [Config -> [Num -> 0..MaxMounts]]
  BY ConstantsAssumption DEF NoMounts
<1>3. <<>> \in Seq(Task)
  OBVIOUS
<1> QED
  BY <1>1, <1>2, <1>3, ConstantsAssumption DEF Init, Typing

(* The daemon that is down is well typed.                                  *)
LEMMA TypingStop == ASSUME Typing, NEW r \in {"exited", "aborted"}, Stop(r)
                    PROVE  Typing'
<1>1. {} \in SUBSET Comparison /\ {} \in SUBSET Construction /\ IsFiniteSet({})
  BY FS_EmptySet
<1>2. NoMounts \in [Config -> [Num -> 0..MaxMounts]]
  BY ConstantsAssumption DEF NoMounts
<1>3. <<>> \in Seq(Task)
  OBVIOUS
<1> QED
  BY <1>1, <1>2, <1>3, ConstantsAssumption DEF Stop, Typing

(* The main loop's calls and housekeeping keep every variable typed; the   *)
(* count may only be said to stay an integer here.                         *)
LEMMA TypingMain == ASSUME Typing,
                           \/ \E n \in Client : MethodCall(n) \/ ClientDisconnected(n)
                           \/ Periodic \/ Start
                    PROVE  Typing'
<1>1. ASSUME NEW n \in Client, MethodCall(n) PROVE Typing'
  BY <1>1, ConstantsAssumption DEF MethodCall, Typing, metaVars, bgVars
<1>2. ASSUME NEW n \in Client, ClientDisconnected(n) PROVE Typing'
  BY <1>2, ConstantsAssumption DEF ClientDisconnected, Typing, metaVars, bgVars, mainVars
<1>3. CASE Periodic
  <2>1. IsFiniteSet(comparisons') /\ comparisons' \in SUBSET Comparison
    BY <1>3, FS_Subset DEF Periodic, Typing
  <2>2. counter' \in [Config -> Int]
    <3>1. ASSUME NEW c \in Config PROVE Cardinality(OwnedByEnded(c)) \in Nat
      BY FS_Subset, FS_CardinalityType DEF OwnedByEnded, Typing
    <3> QED
      BY <1>3, <3>1 DEF Periodic, CountAfterRelease, Typing
  <2>3. loaded' \subseteq Config
    BY <1>3 DEF Periodic, Typing, Reloaded, MountedByEnded
  <2>4. snaps' \in [Config -> SUBSET Snapshot]
    BY <1>3 DEF Periodic, Typing, Entries
  <2>5. mounts' \in [Client -> [Config -> [Num -> 0..MaxMounts]]]
    BY <1>3, ConstantsAssumption DEF Periodic, Typing, NoMounts
  <2> QED
    BY <1>3, <2>1, <2>2, <2>3, <2>4, <2>5 DEF Periodic, Typing, bgVars
<1>4. CASE Start
  BY <1>4 DEF Start, Typing, sessionVars, metaVars, bgVars
<1> QED BY <1>1, <1>2, <1>3, <1>4

(* Loading the Snapper object and adding an entry keep the lists typed.    *)
LEMMA GetSnapperType ==
  ASSUME Typing, NEW c \in Config, GetSnapper(c)
  PROVE  loaded' \subseteq Config /\ snaps' \in [Config -> SUBSET Snapshot]
BY DEF Typing, GetSnapper, Entries

(* createHelper's new entry is well typed in the list and on disk.         *)
LEMMA AddEntryType ==
  ASSUME Typing, NEW c \in Config, NEW s \in Snapshot, AddEntry(c, s)
  PROVE  /\ loaded' \subseteq Config /\ snaps' \in [Config -> SUBSET Snapshot]
         /\ disk' \in [Config -> SUBSET Snapshot]
BY DEF Typing, AddEntry, Entries

(* Taking a task from a client's queue leaves a number of tasks.           *)
LEMMA CallType ==
  ASSUME Typing, NEW n \in Client, NEW m, Call(n, m)
  PROVE  /\ queued' \in [Client -> 0..MaxTasks] /\ client' = client
         /\ idle' = idle /\ daemon' = daemon /\ queued'[n] < queued[n]
BY ConstantsAssumption DEF Typing, Call, mainVars

(* Every method handler keeps every variable typed.                        *)
LEMMA TypingHandler == ASSUME Typing, NEW n \in Client, Handler(n)
                       PROVE  Typing'
<1>1. CASE Reply(n)
  <2>1. queued' \in [Client -> 0..MaxTasks] /\ UNCHANGED <<client, idle, daemon>>
    BY <1>1, CallType DEF Reply
  <2>2. UNCHANGED <<locks, comparisons, gap, mounts, metaVars, disk, bgVars>>
    BY <1>1 DEF Reply
  <2> QED
    BY <2>1, <2>2 DEF Typing, metaVars, bgVars
<1>2. ASSUME NEW c \in Config, Read(n, c) PROVE Typing'
  BY <1>2, CallType, GetSnapperType DEF Read, Typing, bgVars
<1>3. ASSUME NEW c \in Config, LockConfig(n, c) \/ UnlockConfig(n, c) PROVE Typing'
  <2>1. locks' \in [Client -> SUBSET Config]
    <3>1. CASE LockConfig(n, c)
      <4>1. locks' = [locks EXCEPT ![n] = locks[n] \cup {c}]
        BY <3>1 DEF LockConfig
      <4> QED BY <4>1 DEF Typing
    <3>2. CASE UnlockConfig(n, c)
      <4>1. locks' = [locks EXCEPT ![n] = locks[n] \ {c}]
        BY <3>2 DEF UnlockConfig
      <4> QED BY <4>1 DEF Typing
    <3> QED BY <1>3, <3>1, <3>2
  <2>2. /\ queued' \in [Client -> 0..MaxTasks] /\ UNCHANGED <<client, idle, daemon>>
        /\ UNCHANGED <<comparisons, gap, mounts, metaVars, disk, bgVars>>
    BY <1>3, CallType DEF LockConfig, UnlockConfig
  <2> QED
    BY <2>1, <2>2 DEF Typing, metaVars, bgVars
<1>4. ASSUME NEW c \in Config, CreateConfig(n, c) \/ DeleteConfig(n, c) PROVE Typing'
  BY <1>4, CallType DEF CreateConfig, DeleteConfig, Typing, bgVars
<1>5. ASSUME NEW c \in Config, DeleteConfigFails(n, c) PROVE Typing'
  <2>1. disk' \in [Config -> SUBSET Snapshot]
    BY <1>5 DEF DeleteConfigFails, Typing
  <2> QED
    BY <1>5, <2>1, CallType DEF DeleteConfigFails, Typing, metaVars, bgVars
<1>6. ASSUME NEW c \in Config, NEW type \in {"single", "pre"}, CreateSnapshot(n, c, type)
      PROVE  Typing'
  <2>1. PICK k \in NextNumber(Entries(c), disk[c]) :
          AddEntry(c, [num |-> k, type |-> type, pre_num |-> 0])
    BY <1>6 DEF CreateSnapshot
  <2>2. [num |-> k, type |-> type, pre_num |-> 0] \in Snapshot
    BY <2>1 DEF NextNumber, Snapshot
  <2> QED
    BY <1>6, <2>1, <2>2, CallType, AddEntryType DEF CreateSnapshot, Typing, bgVars
<1>7. ASSUME NEW c \in Config, NEW p \in Num, CreatePostSnapshot(n, c, p)
      PROVE  Typing'
  <2>1. PICK k \in NextNumber(Entries(c), disk[c]) :
          /\ AddEntry(c, [num |-> k, type |-> "post", pre_num |-> p])
          /\ \/ c \in Background /\ AddTask(c, p, k)
             \/ UNCHANGED <<counter, bgVars>>
    BY <1>7 DEF CreatePostSnapshot
  <2>2. k \in Num
    BY <2>1 DEF NextNumber
  <2>3. [num |-> k, type |-> "post", pre_num |-> p] \in Snapshot
    BY <2>2 DEF Snapshot
  <2>4. /\ bg' \in Seq(Task) /\ counter' \in [Config -> Int]
        /\ bgpc' = bgpc /\ (bgpc # "idle" => bg' # <<>>)
    <3>1. CASE AddTask(c, p, k)
      <4>1. [config |-> c, num1 |-> p, num2 |-> k] \in Task
        BY <2>2 DEF Task
      <4> QED
        BY <3>1, <4>1 DEF AddTask, IncUseCount, Typing
    <3>2. CASE UNCHANGED <<counter, bgVars>>
      BY <3>2 DEF bgVars, Typing
    <3> QED BY <2>1, <3>1, <3>2
  <2> QED
    BY <1>7, <2>1, <2>3, <2>4, CallType, AddEntryType DEF CreatePostSnapshot, Typing
<1>8. ASSUME NEW c \in Config, NEW k \in Num, MountSnapshot(n, c, k) \/ UmountSnapshot(n, c, k)
      PROVE  Typing'
  <2>1. mounts' \in [Client -> [Config -> [Num -> 0..MaxMounts]]]
    <3>1. mounts[n][c][k] \in 0..MaxMounts
      BY DEF Typing
    <3>2. PICK v \in 0..MaxMounts : mounts' = [mounts EXCEPT ![n][c][k] = v]
      <4>1. CASE MountSnapshot(n, c, k)
        <5>1. mounts[n][c][k] + 1 \in 0..MaxMounts
          BY <3>1, <4>1, ConstantsAssumption DEF MountSnapshot
        <5>2. mounts' = [mounts EXCEPT ![n][c][k] = mounts[n][c][k] + 1]
          BY <4>1 DEF MountSnapshot
        <5> QED BY <5>1, <5>2
      <4>2. CASE UmountSnapshot(n, c, k)
        <5> DEFINE left == IF mounts[n][c][k] > 1 THEN mounts[n][c][k] - 1 ELSE 0
        <5>1. left \in 0..MaxMounts
          BY <3>1, ConstantsAssumption
        <5>2. mounts' = [mounts EXCEPT ![n][c][k] = left]
          BY <4>2 DEF UmountSnapshot
        <5> QED BY <5>1, <5>2
      <4> QED BY <1>8, <4>1, <4>2
    <3>3. [mounts[n] EXCEPT ![c][k] = v] \in [Config -> [Num -> 0..MaxMounts]]
      BY DEF Typing
    <3> QED
      BY <3>2, <3>3 DEF Typing
  <2>2. queued' \in [Client -> 0..MaxTasks] /\ UNCHANGED <<client, idle, daemon>>
    BY <1>8, CallType DEF MountSnapshot, UmountSnapshot
  <2>3. /\ loaded' \subseteq Config /\ snaps' \in [Config -> SUBSET Snapshot]
        /\ UNCHANGED <<locks, comparisons, gap, metas, counter, disk, bgVars>>
    BY <1>8, GetSnapperType DEF MountSnapshot, UmountSnapshot
  <2> QED
    BY <2>1, <2>2, <2>3 DEF Typing, bgVars
<1>9. ASSUME NEW c \in Config, NEW D, NEW T, DeleteSnapshots(n, c, D, T) PROVE Typing'
  <2>1. loaded' \subseteq Config /\ snaps' \in [Config -> SUBSET Snapshot]
    BY <1>9 DEF DeleteSnapshots, Entries, Typing
  <2>2. disk' \in [Config -> SUBSET Snapshot]
    BY <1>9 DEF DeleteSnapshots, Typing
  <2> QED
    BY <1>9, <2>1, <2>2, CallType DEF DeleteSnapshots, Typing, bgVars
<1>10. ASSUME NEW c \in Config, NEW p \in Pair, BeginComparison(n, c, p) PROVE Typing'
  <2>1. [client |-> n, config |-> c, num1 |-> p[1], num2 |-> p[2], legal |-> Legal(c, p)]
          \in Construction
    BY ConstantsAssumption DEF Construction, Legal
  <2>2. gap' \subseteq Construction /\ IsFiniteSet(gap')
    BY <1>10, <2>1, FS_AddElement DEF BeginComparison, Typing
  <2> QED
    BY <1>10, <2>2, CallType, GetSnapperType DEF BeginComparison, IncUseCount, Typing, bgVars
<1>11. ASSUME NEW x \in comparisons, DeleteComparison(n, x) PROVE Typing'
  <2>1. comparisons' \subseteq Comparison /\ IsFiniteSet(comparisons')
    BY <1>11, FS_RemoveElement DEF DeleteComparison, Typing
  <2> QED
    BY <1>11, <2>1, CallType DEF DeleteComparison, DecUseCount, Typing, bgVars
<1> QED
  BY <1>1, <1>2, <1>3, <1>4, <1>5, <1>6, <1>7, <1>8, <1>9, <1>10, <1>11 DEF Handler

(* So do the ends of a comparison built without big_mutex and of a worker. *)
LEMMA TypingUnlocked == ASSUME Typing, NEW n \in Client, Unlocked(n) \/ WorkerEnds(n)
                        PROVE  Typing'
<1>1. ASSUME NEW g \in gap, ComparisonFails(g) \/ ComparisonInterrupted(g)
      PROVE  Typing'
  <2>1. gap' \subseteq Construction /\ IsFiniteSet(gap')
    BY <1>1, FS_RemoveElement DEF ComparisonFails, ComparisonInterrupted, Typing
  <2>2. counter' \in [Config -> Int]
    BY <1>1 DEF ComparisonFails, ComparisonInterrupted, DecUseCount, Typing
  <2>3. client' \in [Client -> {"absent", "active", "zombie", "ended"}]
    BY <1>1 DEF ComparisonFails, ComparisonInterrupted, Typing
  <2>4. queued' \in [Client -> 0..MaxTasks]
    <3>1. CASE ComparisonFails(g)
      BY <3>1 DEF ComparisonFails, Typing
    <3>2. CASE ComparisonInterrupted(g)
      <4>1. 0 \in 0..MaxTasks
        BY ConstantsAssumption
      <4> QED
        BY <3>2, <4>1 DEF ComparisonInterrupted, Typing
    <3> QED BY <1>1, <3>1, <3>2
  <2> QED
    BY <1>1, <2>1, <2>2, <2>3, <2>4
       DEF ComparisonFails, ComparisonInterrupted, Typing, bgVars, mainVars
<1>2. ASSUME NEW g \in gap, FinishComparison(g) PROVE Typing'
  <2>1. gap' \subseteq Construction /\ IsFiniteSet(gap')
    BY <1>2, FS_RemoveElement DEF FinishComparison, Typing
  <2>2. PICK a \in Addr : comparisons' = comparisons \cup
            {[addr |-> a, client |-> g.client, config |-> g.config,
              num1 |-> g.num1, num2 |-> g.num2]}
    BY <1>2 DEF FinishComparison
  <2>3. [addr |-> a, client |-> g.client, config |-> g.config,
         num1 |-> g.num1, num2 |-> g.num2] \in Comparison
    BY DEF Typing, Construction, Comparison
  <2>4. comparisons' \subseteq Comparison /\ IsFiniteSet(comparisons')
    BY <2>2, <2>3, FS_AddElement DEF Typing
  <2> QED
    BY <1>2, <2>1, <2>4 DEF FinishComparison, Typing, metaVars, bgVars, mainVars
<1>3. CASE WorkerEnds(n)
  BY <1>3 DEF WorkerEnds, Typing, metaVars, bgVars, mainVars
<1> QED BY <1>1, <1>2, <1>3 DEF Unlocked

(* The task the background thread works on names a config.                 *)
LEMMA FirstTask == ASSUME Typing, bg # <<>>
                   PROVE  /\ 1 \in DOMAIN bg /\ Len(bg) \in Nat \ {0}
                          /\ bg[1] \in Task /\ bg[1].config \in Config
<1>1. bg \in Seq(Task) /\ Len(bg) \in Nat /\ Len(bg) # 0
  BY EmptySeq, LenProperties DEF Typing
<1>2. 1 \in DOMAIN bg /\ bg[1] \in Task
  BY <1>1, ElementOfSeq
<1> QED BY <1>1, <1>2 DEF Task

(* So does the background thread, whose first task is there until popped.  *)
LEMMA TypingBackground == ASSUME Typing, BackgroundThread
                          PROVE  Typing'
<1>1. CASE BackgroundTake
  <2>1. bg[1].config \in Config
    BY <1>1, FirstTask DEF BackgroundTake
  <2> QED
    BY <1>1, <2>1, GetSnapperType DEF BackgroundTake, Typing, sessionVars, mainVars
<1>2. CASE BackgroundCompared
  <2>1. counter' \in [Config -> Int]
    <3>1. DecUseCount(bg[1].config) /\ bg[1].config \in Config
      BY <1>2, FirstTask DEF BackgroundCompared, Typing
    <3>2. PICK c \in Config : DecUseCount(c)
      BY <3>1
    <3> QED
      BY <3>2 DEF DecUseCount, Typing
  <2>2. bgpc' = "counted" /\ bg # <<>>
    BY <1>2 DEF BackgroundCompared, Typing
  <2>3. UNCHANGED <<sessionVars, metas, loaded, snaps, disk, bg, mainVars>>
    BY <1>2 DEF BackgroundCompared
  <2> QED
    BY <2>1, <2>2, <2>3 DEF Typing, sessionVars, mainVars
<1>3. CASE BackgroundPop
  <2>1. bg # <<>> /\ Tail(bg) \in Seq(Task)
    BY <1>3 DEF BackgroundPop, Typing
  <2> QED
    BY <1>3, <2>1 DEF BackgroundPop, Typing, sessionVars, metaVars, mainVars
<1> QED BY <1>1, <1>2, <1>3 DEF BackgroundThread

(* Every step keeps every variable typed.                                  *)
LEMMA TypingStep == ASSUME Typing, [Next]_vars
                    PROVE  Typing'
<1>1. ASSUME NEW n \in Client, Worker(n) PROVE Typing'
  BY <1>1, TypingHandler, TypingUnlocked DEF Worker
<1>2. CASE PeriodicAborts \/ Exit \/ Crash
  BY <1>2, TypingStop DEF PeriodicAborts, Exit, Crash
<1>3. CASE UNCHANGED vars
  BY <1>3 DEF vars, sessionVars, metaVars, bgVars, mainVars, Typing
<1> QED BY <1>1, <1>2, <1>3, TypingMain, TypingBackground DEF Next

-----------------------------------------------------------------------------
(* Sessions                                                                *)

(* A handler is run by a worker of a client that is not gone, and touches  *)
(* the locks, mounts and constructions of that client only.                *)
LEMMA HandlerFrame ==
  ASSUME Typing, NEW n \in Client, Handler(n)
  PROVE  /\ UNCHANGED <<client, idle, daemon>>
         /\ client[n] \in {"active", "zombie"} /\ ~Comparing(n)
         /\ queued'[n] < queued[n]
         /\ \A m \in Client \ {n} : locks'[m] = locks[m] /\ mounts'[m] = mounts[m]
         /\ comparisons' \subseteq comparisons
         /\ gap' = gap \/ \E g \in Construction : g.client = n /\ gap' = gap \cup {g}
<1> DEFINE Frame == /\ UNCHANGED <<client, idle, daemon>>
                    /\ client[n] \in {"active", "zombie"} /\ ~Comparing(n)
                    /\ queued'[n] < queued[n]
<1>1. ASSUME NEW m, Call(n, m) PROVE Frame
  BY <1>1, CallType DEF Call
<1>2. ASSUME Reply(n) PROVE Frame /\ UNCHANGED <<locks, mounts, comparisons, gap>>
  BY <1>1, <1>2 DEF Reply
<1>3. ASSUME NEW c \in Config,
             \/ Read(n, c) \/ CreateConfig(n, c) \/ DeleteConfig(n, c) \/ DeleteConfigFails(n, c)
      PROVE  Frame /\ UNCHANGED <<locks, mounts, comparisons, gap>>
  BY <1>1, <1>3 DEF Read, CreateConfig, DeleteConfig, DeleteConfigFails
<1>4. ASSUME NEW c \in Config, LockConfig(n, c) \/ UnlockConfig(n, c)
      PROVE  /\ Frame /\ UNCHANGED <<mounts, comparisons, gap>>
             /\ \A m \in Client \ {n} : locks'[m] = locks[m]
  BY <1>1, <1>4 DEF LockConfig, UnlockConfig, Typing
<1>5. ASSUME NEW c \in Config, NEW k \in Num, MountSnapshot(n, c, k) \/ UmountSnapshot(n, c, k)
      PROVE  /\ Frame /\ UNCHANGED <<locks, comparisons, gap>>
             /\ \A m \in Client \ {n} : mounts'[m] = mounts[m]
  BY <1>1, <1>5 DEF MountSnapshot, UmountSnapshot, Typing
<1>6. ASSUME NEW c \in Config,
             \/ \E type \in {"single", "pre"} : CreateSnapshot(n, c, type)
             \/ \E p \in Num : CreatePostSnapshot(n, c, p)
             \/ \E D, T : DeleteSnapshots(n, c, D, T)
      PROVE  Frame /\ UNCHANGED <<locks, mounts, comparisons, gap>>
  BY <1>1, <1>6 DEF CreateSnapshot, CreatePostSnapshot, DeleteSnapshots
<1>7. ASSUME NEW c \in Config, NEW p \in Pair, BeginComparison(n, c, p)
      PROVE  /\ Frame /\ UNCHANGED <<locks, mounts, comparisons>>
             /\ \E g \in Construction : g.client = n /\ gap' = gap \cup {g}
  <2> DEFINE g == [client |-> n, config |-> c, num1 |-> p[1], num2 |-> p[2], legal |-> Legal(c, p)]
  <2>1. g \in Construction /\ g.client = n
    BY ConstantsAssumption DEF Construction, Legal
  <2>2. Frame /\ UNCHANGED <<locks, mounts, comparisons>> /\ gap' = gap \cup {g}
    BY <1>1, <1>7 DEF BeginComparison
  <2> QED BY <2>1, <2>2
<1>8. ASSUME NEW x \in comparisons, DeleteComparison(n, x)
      PROVE  Frame /\ UNCHANGED <<locks, mounts, gap>> /\ comparisons' \subseteq comparisons
  BY <1>1, <1>8 DEF DeleteComparison
<1> QED
  BY <1>2, <1>3, <1>4, <1>5, <1>6, <1>7, <1>8 DEF Handler

(* Clients::remove_zombies leaves nothing of an absent client behind, and  *)
(* a worker never builds two comparisons: every step keeps Sessions.       *)
LEMMA SessionsStep == ASSUME Typing, Sessions, [Next]_vars
                      PROVE  Sessions'
<1>1. ASSUME NEW n \in Client, Handler(n) PROVE Sessions'
  <2>1. /\ UNCHANGED client
        /\ client[n] \in {"active", "zombie"} /\ ~Comparing(n)
        /\ \A m \in Client \ {n} : locks'[m] = locks[m] /\ mounts'[m] = mounts[m]
        /\ comparisons' \subseteq comparisons
        /\ gap' = gap \/ \E g \in Construction : g.client = n /\ gap' = gap \cup {g}
    BY <1>1, HandlerFrame
  <2>2. \A m \in Client : client'[m] = "absent" => locks'[m] = {} /\ mounts'[m] = NoMounts
    BY <2>1 DEF Sessions
  <2>3. \A x \in comparisons' : client'[x.client] # "absent"
    BY <2>1 DEF Sessions
  <2>4. /\ \A g \in gap' : client'[g.client] \in {"active", "zombie"}
        /\ \A g, h \in gap' : g.client = h.client => g = h
    BY <2>1 DEF Sessions, Comparing
  <2> QED BY <2>2, <2>3, <2>4 DEF Sessions, NoMounts
<1>2. ASSUME NEW g \in gap, ComparisonFails(g) \/ ComparisonInterrupted(g) PROVE Sessions'
  <2>1. g \in Construction
    BY DEF Typing
  <2>2. CASE ComparisonFails(g)
    BY <2>2 DEF ComparisonFails, Sessions, NoMounts
  <2>3. CASE ComparisonInterrupted(g)
    <3>1. /\ client' = [client EXCEPT ![g.client] = "ended"] /\ gap' = gap \ {g}
          /\ UNCHANGED <<locks, mounts, comparisons>>
      BY <2>3 DEF ComparisonInterrupted
    <3>2. \A h \in gap : h.client \in Client
      BY DEF Typing, Construction
    <3>3. \A x \in comparisons : x.client \in Client
      BY DEF Typing, Comparison
    <3> QED BY <3>1, <3>2, <3>3 DEF Sessions, Typing, NoMounts
  <2> QED BY <1>2, <2>2, <2>3
<1>3. ASSUME NEW g \in gap, FinishComparison(g) PROVE Sessions'
  <2>1. PICK a \in Addr : comparisons' = comparisons \cup
            {[addr |-> a, client |-> g.client, config |-> g.config,
              num1 |-> g.num1, num2 |-> g.num2]}
    BY <1>3 DEF FinishComparison
  <2>2. UNCHANGED <<client, locks, mounts>> /\ gap' = gap \ {g}
    BY <1>3 DEF FinishComparison
  <2> QED BY <2>1, <2>2 DEF Sessions, NoMounts
<1>4. ASSUME NEW n \in Client,
             MethodCall(n) \/ ClientDisconnected(n) \/ WorkerEnds(n)
      PROVE  Sessions'
  <2>1. /\ \/ client' = [client EXCEPT ![n] = "active"] /\ client[n] \in {"absent", "active"}
           \/ client' = [client EXCEPT ![n] = "zombie"] /\ client[n] = "active"
           \/ client' = [client EXCEPT ![n] = "ended"] /\ client[n] = "zombie" /\ ~Comparing(n)
        /\ UNCHANGED <<locks, mounts, comparisons, gap>>
    BY <1>4 DEF MethodCall, ClientDisconnected, WorkerEnds
  <2>2. \A h \in gap : h.client \in Client
    BY DEF Typing, Construction
  <2>3. \A x \in comparisons : x.client \in Client
    BY DEF Typing, Comparison
  <2> QED BY <2>1, <2>2, <2>3 DEF Sessions, Typing, NoMounts, Comparing
<1>5. CASE Periodic
  <2>1. /\ client' = [n \in Client |-> IF n \in Ended THEN "absent" ELSE client[n]]
        /\ locks' = [n \in Client |-> IF n \in Ended THEN {} ELSE locks[n]]
        /\ mounts' = [n \in Client |-> IF n \in Ended THEN NoMounts ELSE mounts[n]]
        /\ comparisons' = {x \in comparisons : x.client \notin Ended}
        /\ gap' = gap
    BY <1>5 DEF Periodic
  <2>2. \A h \in gap : h.client \in Client
    BY DEF Typing, Construction
  <2>3. \A x \in comparisons : x.client \in Client
    BY DEF Typing, Comparison
  <2> QED BY <2>1, <2>2, <2>3 DEF Sessions, Ended, NoMounts
<1>6. ASSUME NEW r, Stop(r) PROVE Sessions'
  BY <1>6 DEF Stop, Sessions, NoMounts
<1>7. CASE UNCHANGED sessionVars
  BY <1>7 DEF sessionVars, Sessions, NoMounts
<1>8. ASSUME BackgroundThread \/ Start \/ UNCHANGED vars PROVE UNCHANGED sessionVars
  BY <1>8 DEF BackgroundThread, BackgroundTake, BackgroundCompared, BackgroundPop, Start, vars,
              sessionVars
<1> QED
  BY <1>1, <1>2, <1>3, <1>4, <1>5, <1>6, <1>7, <1>8
     DEF Next, Worker, Unlocked, PeriodicAborts, Exit, Crash

(* The idle timeout stays armed only while nobody is there: method_call    *)
(* disarms it for a new client, periodic arms it for NothingLeft.          *)
LEMMA IdleAloneStep == ASSUME Typing, Sessions, IdleAlone, [Next]_vars
                       PROVE  IdleAlone'
<1>1. ASSUME NEW n \in Client, Handler(n) PROVE IdleAlone'
  <2>1. idle' = idle /\ client[n] # "absent"
    BY <1>1, HandlerFrame
  <2> QED BY <2>1 DEF IdleAlone
<1>2. ASSUME NEW n \in Client, Unlocked(n) \/ WorkerEnds(n) PROVE IdleAlone'
  <2>1. client[n] # "absent" /\ idle' = idle
    BY <1>2 DEF Unlocked, WorkerEnds, ComparisonFails, ComparisonInterrupted, FinishComparison,
                Sessions, mainVars
  <2> QED BY <2>1 DEF IdleAlone
<1>3. ASSUME NEW n \in Client, MethodCall(n) \/ ClientDisconnected(n) PROVE IdleAlone'
  <2>1. idle' => idle /\ client[n] # "absent"
    BY <1>3 DEF MethodCall, ClientDisconnected, mainVars, Typing
  <2> QED BY <2>1 DEF IdleAlone
<1>4. CASE Periodic
  <2>1. /\ client' = [n \in Client |-> IF n \in Ended THEN "absent" ELSE client[n]]
        /\ idle' = (idle \/ NothingLeft) /\ bg' = bg
    BY <1>4 DEF Periodic, bgVars
  <2> QED BY <2>1 DEF IdleAlone, NothingLeft, Ended, Typing
<1>5. ASSUME NEW r, Stop(r) PROVE IdleAlone'
  BY <1>5 DEF Stop, IdleAlone
<1>6. CASE BackgroundThread
  <2>1. bg # <<>> /\ idle' = idle
    BY <1>6 DEF BackgroundThread, BackgroundTake, BackgroundCompared, BackgroundPop, Typing, mainVars
  <2> QED BY <2>1 DEF IdleAlone
<1>7. CASE Start \/ UNCHANGED vars
  BY <1>7 DEF Start, vars, sessionVars, bgVars, mainVars, IdleAlone
<1> QED
  BY <1>1, <1>2, <1>3, <1>4, <1>5, <1>6, <1>7 DEF Next, Worker, PeriodicAborts, Exit, Crash

-----------------------------------------------------------------------------
(* The use counts                                                          *)

(* What is counted is finite.                                              *)
LEMMA UsesFinite ==
  ASSUME Typing, NEW c \in Config
  PROVE  /\ IsFiniteSet(ComparisonsOf(c)) /\ Cardinality(ComparisonsOf(c)) \in Nat
         /\ IsFiniteSet(HoldersOf(c)) /\ Cardinality(HoldersOf(c)) \in Nat
         /\ IsFiniteSet(TasksOf(c)) /\ Cardinality(TasksOf(c)) \in Nat
<1>1. IsFiniteSet(ComparisonsOf(c)) /\ IsFiniteSet(HoldersOf(c))
  BY FS_Subset DEF Typing, ComparisonsOf, HoldersOf
<1>2. IsFiniteSet(TasksOf(c))
  <2>1. Len(bg) \in Nat /\ DOMAIN bg = 1..Len(bg)
    BY LenProperties DEF Typing
  <2>2. TasksOf(c) \in SUBSET (1..Len(bg))
    BY <2>1 DEF TasksOf
  <2>3. IsFiniteSet(1..Len(bg))
    BY <2>1, FS_Interval
  <2> QED BY <2>2, <2>3, FS_Subset
<1> QED BY <1>1, <1>2, FS_CardinalityType

(* A config with use count 0 has nobody who refers to it.                  *)
LEMMA UnusedFree ==
  ASSUME Typing, UseCountExact, NEW c \in Config, counter[c] = 0
  PROVE  ComparisonsOf(c) = {} /\ HoldersOf(c) = {} /\ TasksOf(c) = {}
BY UsesFinite, FS_EmptySet DEF UseCountExact

(* A new comparison holds a use of its config, a deleted one does not.     *)
LEMMA ComparisonAdded ==
  ASSUME Typing, NEW x, x \notin comparisons, comparisons' = comparisons \cup {x},
         NEW c \in Config
  PROVE  Cardinality(ComparisonsOf(c))' = Cardinality(ComparisonsOf(c))
                                           + (IF x.config = c THEN 1 ELSE 0)
<1>1. IsFiniteSet(ComparisonsOf(c)) /\ Cardinality(ComparisonsOf(c)) \in Nat /\ x \notin ComparisonsOf(c)
  BY UsesFinite DEF ComparisonsOf
<1>2. CASE x.config = c
  <2>1. ComparisonsOf(c)' = ComparisonsOf(c) \cup {x}
    BY <1>2 DEF ComparisonsOf
  <2> QED BY <1>1, <1>2, <2>1, FS_AddElement
<1>3. CASE x.config # c
  <2>1. ComparisonsOf(c)' = ComparisonsOf(c)
    BY <1>3 DEF ComparisonsOf
  <2> QED BY <1>1, <1>3, <2>1
<1> QED BY <1>2, <1>3

(* Deleting a comparison gives back exactly one use of its config.         *)
LEMMA ComparisonRemoved ==
  ASSUME Typing, NEW x \in comparisons, comparisons' = comparisons \ {x}, NEW c \in Config
  PROVE  Cardinality(ComparisonsOf(c))' = Cardinality(ComparisonsOf(c))
                                           - (IF x.config = c THEN 1 ELSE 0)
<1>1. IsFiniteSet(ComparisonsOf(c)) /\ Cardinality(ComparisonsOf(c)) \in Nat
  BY UsesFinite
<1>2. CASE x.config = c
  <2>1. ComparisonsOf(c)' = ComparisonsOf(c) \ {x} /\ x \in ComparisonsOf(c)
    BY <1>2 DEF ComparisonsOf
  <2> QED BY <1>1, <1>2, <2>1, FS_RemoveElement
<1>3. CASE x.config # c
  <2>1. ComparisonsOf(c)' = ComparisonsOf(c)
    BY <1>3 DEF ComparisonsOf
  <2> QED BY <1>1, <1>3, <2>1
<1> QED BY <1>2, <1>3

(* So does the RefHolder of a comparison under construction.               *)
LEMMA HolderAdded ==
  ASSUME Typing, NEW g, g \notin gap, gap' = gap \cup {g}, NEW c \in Config
  PROVE  Cardinality(HoldersOf(c))' = Cardinality(HoldersOf(c))
                                       + (IF g.config = c THEN 1 ELSE 0)
<1>1. IsFiniteSet(HoldersOf(c)) /\ Cardinality(HoldersOf(c)) \in Nat /\ g \notin HoldersOf(c)
  BY UsesFinite DEF HoldersOf
<1>2. CASE g.config = c
  <2>1. HoldersOf(c)' = HoldersOf(c) \cup {g}
    BY <1>2 DEF HoldersOf
  <2> QED BY <1>1, <1>2, <2>1, FS_AddElement
<1>3. CASE g.config # c
  <2>1. HoldersOf(c)' = HoldersOf(c)
    BY <1>3 DEF HoldersOf
  <2> QED BY <1>1, <1>3, <2>1
<1> QED BY <1>2, <1>3

(* ~RefHolder gives back exactly one use of its config.                    *)
LEMMA HolderRemoved ==
  ASSUME Typing, NEW g \in gap, gap' = gap \ {g}, NEW c \in Config
  PROVE  Cardinality(HoldersOf(c))' = Cardinality(HoldersOf(c))
                                       - (IF g.config = c THEN 1 ELSE 0)
<1>1. IsFiniteSet(HoldersOf(c)) /\ Cardinality(HoldersOf(c)) \in Nat
  BY UsesFinite
<1>2. CASE g.config = c
  <2>1. HoldersOf(c)' = HoldersOf(c) \ {g} /\ g \in HoldersOf(c)
    BY <1>2 DEF HoldersOf
  <2> QED BY <1>1, <1>2, <2>1, FS_RemoveElement
<1>3. CASE g.config # c
  <2>1. HoldersOf(c)' = HoldersOf(c)
    BY <1>3 DEF HoldersOf
  <2> QED BY <1>1, <1>3, <2>1
<1> QED BY <1>2, <1>3

(* A background task counts from add_task until the comparison is done;    *)
(* taking it from the queue afterwards changes nothing.                    *)
LEMMA TaskAdded ==
  ASSUME Typing, NEW t \in Task, bg' = Append(bg, t), bgpc' = bgpc, NEW c \in Config
  PROVE  Cardinality(TasksOf(c))' = Cardinality(TasksOf(c)) + (IF t.config = c THEN 1 ELSE 0)
<1>1. /\ Len(bg) \in Nat /\ DOMAIN bg = 1..Len(bg)
      /\ Len(bg') = Len(bg) + 1 /\ DOMAIN bg' = 1..Len(bg) + 1
      /\ \A i \in 1..Len(bg) : bg'[i] = bg[i]
      /\ bg'[Len(bg) + 1] = t
  BY LenProperties, AppendProperties DEF Typing
<1>2. bgpc = "counted" => Len(bg) # 0
  BY EmptySeq DEF Typing
<1>3. IsFiniteSet(TasksOf(c)) /\ Cardinality(TasksOf(c)) \in Nat /\ Len(bg) + 1 \notin TasksOf(c)
  <2>1. Len(bg) + 1 \notin TasksOf(c)
    BY <1>1 DEF TasksOf
  <2> QED BY <2>1, UsesFinite
<1>4. CASE t.config = c
  <2>1. TasksOf(c)' = TasksOf(c) \cup {Len(bg) + 1}
    BY <1>1, <1>2, <1>4 DEF TasksOf
  <2> QED BY <1>3, <1>4, <2>1, FS_AddElement
<1>5. CASE t.config # c
  <2>1. TasksOf(c)' = TasksOf(c)
    BY <1>1, <1>2, <1>5 DEF TasksOf
  <2> QED BY <1>3, <1>5, <2>1
<1> QED BY <1>4, <1>5

(* The task that the background thread has counted down holds no use.      *)
LEMMA TaskCounted ==
  ASSUME Typing, bg # <<>>, bg' = bg, bgpc = "compare", bgpc' = "counted", NEW c \in Config
  PROVE  Cardinality(TasksOf(c))' = Cardinality(TasksOf(c)) - (IF bg[1].config = c THEN 1 ELSE 0)
<1>1. IsFiniteSet(TasksOf(c)) /\ Cardinality(TasksOf(c)) \in Nat
  BY UsesFinite
<1>2. CASE bg[1].config = c
  <2>1. TasksOf(c)' = TasksOf(c) \ {1} /\ 1 \in TasksOf(c)
    BY <1>2, FirstTask DEF TasksOf
  <2> QED BY <1>1, <1>2, <2>1, FS_RemoveElement
<1>3. CASE bg[1].config # c
  <2>1. TasksOf(c)' = TasksOf(c)
    BY <1>3 DEF TasksOf
  <2> QED BY <1>1, <1>3, <2>1
<1> QED BY <1>2, <1>3

(* Popping a task that was counted down changes no config's uses.          *)
LEMMA TaskPopped ==
  ASSUME Typing, bg # <<>>, bg' = Tail(bg), bgpc = "counted", bgpc' = "idle", NEW c \in Config
  PROVE  Cardinality(TasksOf(c))' = Cardinality(TasksOf(c))
<1>1. /\ Len(bg) \in Nat \ {0} /\ DOMAIN bg = 1..Len(bg)
      /\ Len(bg') = Len(bg) - 1 /\ DOMAIN bg' = 1..Len(bg) - 1
      /\ \A i \in 1..Len(bg) - 1 : bg'[i] = bg[i + 1]
  <2>1. bg \in Seq(Task)
    BY DEF Typing
  <2> QED BY <2>1, EmptySeq, LenProperties, HeadTailProperties
<1>2. TasksOf(c) = {i \in 2..Len(bg) : bg[i].config = c}
  BY <1>1 DEF TasksOf
<1>3. TasksOf(c)' = {i \in 1..Len(bg) - 1 : bg[i + 1].config = c}
  BY <1>1 DEF TasksOf
<1> DEFINE shift == [i \in TasksOf(c) |-> i - 1]
<1>4. shift \in Bijection(TasksOf(c), TasksOf(c)')
  <2>1. shift \in [TasksOf(c) -> TasksOf(c)']
    BY <1>1, <1>2, <1>3
  <2>2. \A i, j \in TasksOf(c) : shift[i] = shift[j] => i = j
    BY <1>1, <1>2
  <2>3. \A j \in TasksOf(c)' : j + 1 \in TasksOf(c) /\ shift[j + 1] = j
    BY <1>1, <1>2, <1>3
  <2> HIDE DEF shift
  <2>4. \A j \in TasksOf(c)' : \E i \in TasksOf(c) : shift[i] = j
    BY <2>3
  <2> QED BY <2>1, <2>2, <2>4, Fun_IsBij
<1>5. ExistsBijection(TasksOf(c), TasksOf(c)')
  BY <1>4 DEF ExistsBijection
<1> QED BY <1>5, UsesFinite, FS_Bijection

(* Steps that touch nothing that counts *)
LEMMA UseCountKept ==
  ASSUME UseCountExact, UNCHANGED <<comparisons, gap, bgVars, counter>>
  PROVE  UseCountExact'
BY DEF UseCountExact, ComparisonsOf, HoldersOf, TasksOf, bgVars

(* Every method handler keeps the use counts exact.                        *)
LEMMA UseCountHandler ==
  ASSUME Typing, Sessions, UseCountExact, NEW n \in Client, Handler(n)
  PROVE  UseCountExact'
<1>1. CASE Reply(n)
  BY <1>1, UseCountKept DEF Reply, metaVars
<1>2. ASSUME NEW c \in Config,
             \/ Read(n, c) \/ LockConfig(n, c) \/ UnlockConfig(n, c)
             \/ CreateConfig(n, c) \/ DeleteConfig(n, c) \/ DeleteConfigFails(n, c)
      PROVE  UseCountExact'
  BY <1>2, UseCountKept
     DEF Read, LockConfig, UnlockConfig, CreateConfig, DeleteConfig, DeleteConfigFails, metaVars
<1>3. ASSUME NEW c \in Config,
             \/ \E type \in {"single", "pre"} : CreateSnapshot(n, c, type)
             \/ \E k \in Num : MountSnapshot(n, c, k) \/ UmountSnapshot(n, c, k)
             \/ \E D, T : DeleteSnapshots(n, c, D, T)
      PROVE  UseCountExact'
  BY <1>3, UseCountKept DEF CreateSnapshot, MountSnapshot, UmountSnapshot, DeleteSnapshots
<1>4. ASSUME NEW c \in Config, NEW p \in Num, CreatePostSnapshot(n, c, p)
      PROVE  UseCountExact'
  <2>1. PICK k \in Num : AddTask(c, p, k) \/ UNCHANGED <<counter, bgVars>>
    BY <1>4 DEF CreatePostSnapshot, NextNumber
  <2>2. UNCHANGED <<comparisons, gap>>
    BY <1>4 DEF CreatePostSnapshot
  <2>3. CASE AddTask(c, p, k)
    <3> DEFINE t == [config |-> c, num1 |-> p, num2 |-> k]
    <3>1. /\ t \in Task /\ t.config = c
          /\ bg' = Append(bg, t) /\ bgpc' = bgpc
          /\ counter' = [counter EXCEPT ![c] = counter[c] + 1]
      BY <2>3 DEF AddTask, IncUseCount, Task
    <3> HIDE DEF t
    <3>2. ASSUME NEW d \in Config
          PROVE  /\ Cardinality(TasksOf(d))' = Cardinality(TasksOf(d)) + (IF c = d THEN 1 ELSE 0)
                 /\ Cardinality(ComparisonsOf(d))' = Cardinality(ComparisonsOf(d))
                 /\ Cardinality(HoldersOf(d))' = Cardinality(HoldersOf(d))
                 /\ counter'[d] = counter[d] + (IF c = d THEN 1 ELSE 0)
      BY <2>2, <3>1, TaskAdded DEF ComparisonsOf, HoldersOf, Typing
    <3> QED BY <3>2, UsesFinite DEF UseCountExact
  <2> QED BY <2>1, <2>2, <2>3, UseCountKept
<1>5. ASSUME NEW c \in Config, NEW p \in Pair, BeginComparison(n, c, p)
      PROVE  UseCountExact'
  <2> DEFINE g == [client |-> n, config |-> c, num1 |-> p[1], num2 |-> p[2], legal |-> Legal(c, p)]
  <2>1. /\ gap' = gap \cup {g} /\ g.client = n /\ g.config = c
        /\ counter' = [counter EXCEPT ![c] = counter[c] + 1]
        /\ UNCHANGED <<comparisons, bg, bgpc>>
    BY <1>5 DEF BeginComparison, IncUseCount, bgVars
  <2>2. g \notin gap
    BY <1>5 DEF BeginComparison, Call, Comparing
  <2> HIDE DEF g
  <2>3. ASSUME NEW d \in Config
        PROVE  /\ Cardinality(HoldersOf(d))' = Cardinality(HoldersOf(d)) + (IF c = d THEN 1 ELSE 0)
               /\ Cardinality(ComparisonsOf(d))' = Cardinality(ComparisonsOf(d))
               /\ Cardinality(TasksOf(d))' = Cardinality(TasksOf(d))
               /\ counter'[d] = counter[d] + (IF c = d THEN 1 ELSE 0)
    BY <2>1, <2>2, HolderAdded DEF ComparisonsOf, TasksOf, Typing
  <2> QED BY <2>3, UsesFinite DEF UseCountExact
<1>6. ASSUME NEW x \in comparisons, DeleteComparison(n, x) PROVE UseCountExact'
  <2>1. /\ comparisons' = comparisons \ {x} /\ x.config \in Config
        /\ counter' = [counter EXCEPT ![x.config] = counter[x.config] - 1]
        /\ UNCHANGED <<gap, bg, bgpc>>
    BY <1>6 DEF DeleteComparison, DecUseCount, bgVars, Typing, Comparison
  <2>2. ASSUME NEW d \in Config
        PROVE  /\ Cardinality(ComparisonsOf(d))' = Cardinality(ComparisonsOf(d))
                                                     - (IF x.config = d THEN 1 ELSE 0)
               /\ Cardinality(HoldersOf(d))' = Cardinality(HoldersOf(d))
               /\ Cardinality(TasksOf(d))' = Cardinality(TasksOf(d))
               /\ counter'[d] = counter[d] - (IF x.config = d THEN 1 ELSE 0)
    BY <2>1, ComparisonRemoved DEF HoldersOf, TasksOf, Typing
  <2> QED BY <2>2, UsesFinite DEF UseCountExact
<1> QED
  BY <1>1, <1>2, <1>3, <1>4, <1>5, <1>6 DEF Handler

(* So do the ends of a comparison built without big_mutex: the finished    *)
(* comparison takes over what the RefHolder held.                          *)
LEMMA UseCountUnlocked ==
  ASSUME Typing, UseCountExact, NEW g \in gap,
         ComparisonFails(g) \/ ComparisonInterrupted(g) \/ FinishComparison(g)
  PROVE  UseCountExact'
<1>1. gap' = gap \ {g} /\ g.config \in Config /\ UNCHANGED <<bg, bgpc>>
  BY DEF ComparisonFails, ComparisonInterrupted, FinishComparison, Typing, Construction, bgVars
<1>2. ASSUME NEW d \in Config
      PROVE  /\ Cardinality(HoldersOf(d))' = Cardinality(HoldersOf(d))
                                               - (IF g.config = d THEN 1 ELSE 0)
             /\ Cardinality(TasksOf(d))' = Cardinality(TasksOf(d))
  BY <1>1, HolderRemoved DEF TasksOf
<1>3. CASE ComparisonFails(g) \/ ComparisonInterrupted(g)
  <2>1. /\ counter' = [counter EXCEPT ![g.config] = counter[g.config] - 1]
        /\ comparisons' = comparisons
    BY <1>3 DEF ComparisonFails, ComparisonInterrupted, DecUseCount
  <2>2. ASSUME NEW d \in Config
        PROVE  /\ Cardinality(ComparisonsOf(d))' = Cardinality(ComparisonsOf(d))
               /\ counter'[d] = counter[d] - (IF g.config = d THEN 1 ELSE 0)
    BY <1>1, <2>1 DEF ComparisonsOf, Typing
  <2> QED BY <1>2, <2>2, UsesFinite DEF UseCountExact
<1>4. CASE FinishComparison(g)
  <2>1. PICK a \in Addr :
          /\ \A x \in comparisons : x.addr # a
          /\ comparisons' = comparisons \cup
               {[addr |-> a, client |-> g.client, config |-> g.config,
                 num1 |-> g.num1, num2 |-> g.num2]}
    BY <1>4 DEF FinishComparison
  <2> DEFINE x == [addr |-> a, client |-> g.client, config |-> g.config,
                   num1 |-> g.num1, num2 |-> g.num2]
  <2>2. x \notin comparisons /\ comparisons' = comparisons \cup {x} /\ x.config = g.config
    BY <2>1
  <2>3. counter' = counter
    BY <1>4 DEF FinishComparison, metaVars
  <2> HIDE DEF x
  <2>4. ASSUME NEW d \in Config
        PROVE  Cardinality(ComparisonsOf(d))' = Cardinality(ComparisonsOf(d))
                                                  + (IF g.config = d THEN 1 ELSE 0)
    BY <2>2, ComparisonAdded
  <2> QED BY <1>2, <2>3, <2>4, UsesFinite DEF UseCountExact
<1> QED BY <1>3, <1>4

(* So does the background thread.                                          *)
LEMMA UseCountBackground ==
  ASSUME Typing, UseCountExact, BackgroundThread
  PROVE  UseCountExact'
<1>1. UNCHANGED <<comparisons, gap>> /\ bg # <<>>
  BY DEF BackgroundThread, BackgroundTake, BackgroundCompared, BackgroundPop, sessionVars, Typing
<1>2. ASSUME NEW d \in Config
      PROVE  /\ Cardinality(ComparisonsOf(d))' = Cardinality(ComparisonsOf(d))
             /\ Cardinality(HoldersOf(d))' = Cardinality(HoldersOf(d))
  BY <1>1 DEF ComparisonsOf, HoldersOf
<1>3. CASE BackgroundTake
  <2>1. bgpc # "counted" /\ bgpc' # "counted" /\ UNCHANGED <<bg, counter>>
    BY <1>3 DEF BackgroundTake
  <2>2. \A d \in Config : TasksOf(d)' = TasksOf(d)
    BY <2>1 DEF TasksOf
  <2> QED BY <1>2, <2>1, <2>2 DEF UseCountExact
<1>4. CASE BackgroundCompared
  <2>1. /\ bgpc = "compare" /\ bgpc' = "counted" /\ bg' = bg
        /\ counter' = [counter EXCEPT ![bg[1].config] = counter[bg[1].config] - 1]
    BY <1>4 DEF BackgroundCompared, DecUseCount
  <2>2. bg[1].config \in Config
    BY <1>1, FirstTask
  <2>3. ASSUME NEW d \in Config
        PROVE  /\ Cardinality(TasksOf(d))' = Cardinality(TasksOf(d))
                                               - (IF bg[1].config = d THEN 1 ELSE 0)
               /\ counter'[d] = counter[d] - (IF bg[1].config = d THEN 1 ELSE 0)
    BY <1>1, <2>1, <2>2, TaskCounted DEF Typing
  <2> QED BY <1>2, <2>3, UsesFinite DEF UseCountExact
<1>5. CASE BackgroundPop
  <2>1. bgpc = "counted" /\ bgpc' = "idle" /\ bg' = Tail(bg) /\ counter' = counter
    BY <1>5 DEF BackgroundPop, metaVars
  <2>2. \A d \in Config : Cardinality(TasksOf(d))' = Cardinality(TasksOf(d))
    BY <1>1, <2>1, TaskPopped
  <2> QED BY <1>2, <2>1, <2>2 DEF UseCountExact
<1> QED BY <1>3, <1>4, <1>5 DEF BackgroundThread

(* So does periodic, which counts down what the destroyed clients owned.   *)
LEMMA UseCountPeriodic ==
  ASSUME Typing, UseCountExact, Periodic
  PROVE  UseCountExact'
<1>1. /\ comparisons' = {x \in comparisons : x.client \notin Ended}
      /\ counter' = [c \in Config |-> CountAfterRelease(c)]
      /\ UNCHANGED <<gap, bg, bgpc>>
  BY DEF Periodic, bgVars
<1>2. ASSUME NEW c \in Config
      PROVE  counter'[c] = Cardinality(ComparisonsOf(c))' + Cardinality(HoldersOf(c))'
                            + Cardinality(TasksOf(c))'
  <2>1. ComparisonsOf(c)' = ComparisonsOf(c) \ OwnedByEnded(c)
    BY <1>1 DEF ComparisonsOf, OwnedByEnded
  <2>2. ComparisonsOf(c) \cap OwnedByEnded(c) = OwnedByEnded(c)
    BY DEF ComparisonsOf, OwnedByEnded
  <2>3. Cardinality(ComparisonsOf(c))' = Cardinality(ComparisonsOf(c)) - Cardinality(OwnedByEnded(c))
    BY <2>1, <2>2, UsesFinite, FS_Difference
  <2>4. HoldersOf(c)' = HoldersOf(c) /\ TasksOf(c)' = TasksOf(c)
    BY <1>1 DEF HoldersOf, TasksOf
  <2>5. Cardinality(OwnedByEnded(c)) \in Nat
    BY <2>2, UsesFinite, FS_Intersection, FS_CardinalityType
  <2>6. counter'[c] = counter[c] - Cardinality(OwnedByEnded(c))
    BY <1>1 DEF CountAfterRelease
  <2> QED BY <2>3, <2>4, <2>5, <2>6, UsesFinite DEF UseCountExact
<1> QED BY <1>2 DEF UseCountExact

(* Nothing is counted when nothing is there.                               *)
LEMMA NothingCounted ==
  ASSUME comparisons = {}, gap = {}, bg = <<>>, counter = [c \in Config |-> 0]
  PROVE  UseCountExact
BY FS_EmptySet DEF UseCountExact, ComparisonsOf, HoldersOf, TasksOf

(* Every step keeps the use counts exact.                                  *)
LEMMA UseCountStep == ASSUME Typing, Sessions, UseCountExact, [Next]_vars
                      PROVE  UseCountExact'
<1>1. ASSUME NEW n \in Client, MethodCall(n) \/ ClientDisconnected(n) \/ WorkerEnds(n)
      PROVE  UseCountExact'
  BY <1>1, UseCountKept DEF MethodCall, ClientDisconnected, WorkerEnds, metaVars
<1>2. CASE Start \/ UNCHANGED vars
  BY <1>2, UseCountKept DEF Start, vars, sessionVars, metaVars
<1>3. ASSUME NEW r, Stop(r) PROVE UseCountExact'
  <2>1. /\ comparisons' = {} /\ gap' = {} /\ bg' = <<>>
        /\ counter' = [c \in Config |-> 0]
    BY <1>3 DEF Stop
  <2> QED BY <2>1, FS_EmptySet DEF UseCountExact, ComparisonsOf, HoldersOf, TasksOf
<1> QED
  BY <1>1, <1>2, <1>3, UseCountHandler, UseCountUnlocked, UseCountBackground, UseCountPeriodic
     DEF Next, Worker, Unlocked, PeriodicAborts, Exit, Crash

-----------------------------------------------------------------------------
(* What the pointers and iterators refer to                                *)

(* A step leaves the Snapper of c loaded and the snapshots in its list.    *)
Keeps(c) == c \in loaded => c \in loaded' /\ Numbers(snaps[c]) \subseteq Numbers(snaps'[c])

References == loaded \subseteq metas /\ NoDanglingReference

(* A snapshot that could be referred to before a step that keeps the list  *)
(* of its config can be referred to after it.                              *)
LEMMA KeepsAlive == ASSUME NEW c, NEW k, Keeps(c), Alive(c, k)
                    PROVE  Alive(c, k)'
BY DEF Keeps, Alive, Numbers

(* getSnapper keeps what any loaded list has.                              *)
LEMMA GetSnapperKeeps == ASSUME Typing, NEW c \in Config, GetSnapper(c), NEW d \in Config
                         PROVE  Keeps(d)
BY DEF GetSnapper, Entries, Keeps, Numbers, Typing

(* createHelper keeps what any loaded list has.                            *)
LEMMA AddEntryKeeps == ASSUME Typing, NEW c \in Config, NEW s, AddEntry(c, s), NEW d \in Config
                       PROVE  Keeps(d)
BY DEF AddEntry, Entries, Keeps, Numbers, Typing

(* A step that leaves the lists alone keeps what they have.                *)
LEMMA SameKeeps == ASSUME UNCHANGED <<loaded, snaps>>, NEW d
                   PROVE  Keeps(d)
BY DEF Keeps, Numbers

(* When only configs nobody uses lose anything, what was referred to       *)
(* before the step is still there after it.                                *)
LEMMA ReferencesKept ==
  ASSUME Typing, UseCountExact, NoDanglingReference,
         \A c \in Config : counter[c] = 0 \/ Keeps(c)
  PROVE  /\ \A x \in comparisons : Alive(x.config, x.num1)' /\ Alive(x.config, x.num2)'
         /\ \A g \in gap : /\ g.config \in loaded'
                           /\ g.legal => Alive(g.config, g.num1)' /\ Alive(g.config, g.num2)'
         /\ \A c \in Config : \A i \in TasksOf(c) : \A k \in {bg[i].num1, bg[i].num2} : Alive(c, k)'
<1>1. \A x \in comparisons : x.config \in Config /\ Keeps(x.config)
  <2> SUFFICES ASSUME NEW x \in comparisons PROVE x.config \in Config /\ Keeps(x.config)
    OBVIOUS
  <2>1. x.config \in Config /\ x \in ComparisonsOf(x.config)
    BY DEF Typing, Comparison, ComparisonsOf
  <2> QED BY <2>1, UnusedFree
<1>2. \A g \in gap : g.config \in Config /\ Keeps(g.config)
  <2> SUFFICES ASSUME NEW g \in gap PROVE g.config \in Config /\ Keeps(g.config)
    OBVIOUS
  <2>1. g.config \in Config /\ g \in HoldersOf(g.config)
    BY DEF Typing, Construction, HoldersOf
  <2> QED BY <2>1, UnusedFree
<1>3. \A c \in Config : TasksOf(c) = {} \/ Keeps(c)
  BY UnusedFree
<1>4. \A g \in gap : g.config \in loaded'
  BY <1>2 DEF NoDanglingReference, Keeps
<1>5. \A x \in comparisons : Alive(x.config, x.num1)' /\ Alive(x.config, x.num2)'
  BY <1>1, KeepsAlive DEF NoDanglingReference
<1>6. \A g \in gap : g.legal => Alive(g.config, g.num1)' /\ Alive(g.config, g.num2)'
  BY <1>2, KeepsAlive DEF NoDanglingReference
<1>7. \A c \in Config : \A i \in TasksOf(c) : \A k \in {bg[i].num1, bg[i].num2} : Alive(c, k)'
  BY <1>3, KeepsAlive DEF NoDanglingReference
<1> QED BY <1>4, <1>5, <1>6, <1>7

(* A step that keeps the lists and adds no reference leaves none dangling. *)
LEMMA ReferencesNoneAdded ==
  ASSUME Typing, UseCountExact, References, loaded' \subseteq metas',
         \A c \in Config : counter[c] = 0 \/ Keeps(c),
         comparisons' \subseteq comparisons, gap' \subseteq gap, bg' = bg,
         bgpc' = bgpc \/ bgpc # "counted"
  PROVE  References'
<1>1. \A c \in Config : TasksOf(c)' \subseteq TasksOf(c)
  BY DEF TasksOf
<1> QED
  BY <1>1, ReferencesKept DEF References, NoDanglingReference, TasksOf

(* No method handler leaves a reference dangling: deletions are refused    *)
(* while the config is in use, new references name what is listed.         *)
LEMMA ReferencesHandler ==
  ASSUME Typing, Sessions, UseCountExact, References, NEW n \in Client, Handler(n)
  PROVE  References'
<1>1. CASE Reply(n)
  BY <1>1, ReferencesNoneAdded, SameKeeps DEF Reply, metaVars, bgVars, References
<1>2. ASSUME NEW c \in Config,
             \/ LockConfig(n, c) \/ UnlockConfig(n, c)
             \/ CreateConfig(n, c) \/ DeleteConfigFails(n, c)
      PROVE  References'
  <2>1. /\ UNCHANGED <<loaded, snaps, comparisons, gap, bg, bgpc>> /\ metas \subseteq metas'
    BY <1>2 DEF LockConfig, UnlockConfig, CreateConfig, DeleteConfigFails, metaVars, bgVars
  <2> QED BY <2>1, ReferencesNoneAdded, SameKeeps DEF References
<1>3. ASSUME NEW c \in Config,
             \/ Read(n, c) \/ \E k \in Num : MountSnapshot(n, c, k) \/ UmountSnapshot(n, c, k)
      PROVE  References'
  <2>1. GetSnapper(c) /\ c \in metas /\ UNCHANGED <<metas, comparisons, gap, bg, bgpc>>
    BY <1>3 DEF Read, MountSnapshot, UmountSnapshot, bgVars
  <2>2. loaded' \subseteq metas'
    BY <2>1 DEF GetSnapper, References
  <2> QED BY <2>1, <2>2, ReferencesNoneAdded, GetSnapperKeeps
<1>4. ASSUME NEW c \in Config, DeleteConfig(n, c) PROVE References'
  <2>1. /\ counter[c] = 0 /\ loaded' = loaded \ {c} /\ metas' = metas \ {c}
        /\ snaps' = [snaps EXCEPT ![c] = {}]
        /\ UNCHANGED <<comparisons, gap, bg, bgpc>>
    BY <1>4 DEF DeleteConfig, MayDeleteConfig, bgVars
  <2>2. \A d \in Config : d # c => Keeps(d)
    BY <2>1 DEF Keeps, Numbers, Typing
  <2>3. loaded' \subseteq metas'
    BY <2>1 DEF References
  <2> QED BY <2>1, <2>2, <2>3, ReferencesNoneAdded
<1>5. ASSUME NEW c \in Config, NEW D, NEW T, DeleteSnapshots(n, c, D, T) PROVE References'
  <2>1. /\ counter[c] = 0 /\ c \in metas /\ loaded' = loaded \cup {c}
        /\ snaps' = [snaps EXCEPT ![c] = {s \in Entries(c) : s.num \notin D}]
        /\ UNCHANGED <<metas, comparisons, gap, bg, bgpc>>
    BY <1>5 DEF DeleteSnapshots, MayDelete, bgVars
  <2>2. \A d \in Config : d # c => Keeps(d)
    BY <2>1 DEF Keeps, Numbers, Typing
  <2>3. loaded' \subseteq metas'
    BY <2>1 DEF References
  <2> QED BY <2>1, <2>2, <2>3, ReferencesNoneAdded
<1>6. ASSUME NEW c \in Config, NEW type \in {"single", "pre"}, CreateSnapshot(n, c, type)
      PROVE  References'
  <2>1. /\ \E s : AddEntry(c, s)
        /\ c \in metas /\ UNCHANGED <<metas, comparisons, gap, bg, bgpc>>
    BY <1>6 DEF CreateSnapshot, bgVars
  <2>2. loaded' \subseteq metas'
    BY <2>1 DEF AddEntry, References
  <2> QED BY <2>1, <2>2, ReferencesNoneAdded, AddEntryKeeps
<1>7. ASSUME NEW c \in Config, NEW p \in Num, CreatePostSnapshot(n, c, p)
      PROVE  References'
  <2>1. PICK k \in Num :
          /\ AddEntry(c, [num |-> k, type |-> "post", pre_num |-> p])
          /\ AddTask(c, p, k) \/ UNCHANGED <<counter, bgVars>>
    BY <1>7 DEF CreatePostSnapshot, NextNumber
  <2>2. /\ c \in metas /\ UNCHANGED <<metas, comparisons, gap>>
        /\ p \in Numbers(Entries(c))
    BY <1>7 DEF CreatePostSnapshot, Numbers
  <2>3. loaded' \subseteq metas' /\ \A d \in Config : Keeps(d)
    BY <2>1, <2>2, AddEntryKeeps DEF AddEntry, References
  <2>4. CASE UNCHANGED <<counter, bgVars>>
    BY <2>2, <2>3, <2>4, ReferencesNoneAdded DEF bgVars
  <2>5. CASE AddTask(c, p, k)
    <3> DEFINE t == [config |-> c, num1 |-> p, num2 |-> k]
    <3>1. t \in Task /\ bg' = Append(bg, t) /\ bgpc' = bgpc
      BY <2>5 DEF AddTask, Task
    <3>2. /\ Len(bg) \in Nat /\ DOMAIN bg = 1..Len(bg)
          /\ DOMAIN bg' = 1..Len(bg) + 1
          /\ \A i \in 1..Len(bg) : bg'[i] = bg[i]
          /\ bg'[Len(bg) + 1] = t
      BY <3>1, LenProperties, AppendProperties DEF Typing
    <3>3. Alive(c, p)' /\ Alive(c, k)'
      <4> DEFINE s == [num |-> k, type |-> "post", pre_num |-> p]
      <4>1. c \in loaded' /\ snaps'[c] = Entries(c) \cup {s}
        BY <2>1 DEF AddEntry, Typing
      <4>2. s.num = k
        OBVIOUS
      <4> HIDE DEF s
      <4>3. p \in Numbers(snaps'[c]) /\ k \in Numbers(snaps'[c])
        BY <2>2, <4>1, <4>2 DEF Numbers
      <4> QED BY <4>1, <4>3 DEF Alive, Numbers
    <3>4. ASSUME NEW d \in Config, NEW i \in TasksOf(d)'
          PROVE  Alive(d, bg[i].num1)' /\ Alive(d, bg[i].num2)'
      <4>1. CASE i = Len(bg) + 1
        BY <3>2, <3>3, <4>1 DEF TasksOf, Alive
      <4>2. CASE i # Len(bg) + 1
        <5>1. i \in TasksOf(d) /\ bg'[i] = bg[i]
          BY <3>1, <3>2, <4>2 DEF TasksOf
        <5>2. \A j \in {bg[i].num1, bg[i].num2} : Alive(d, j)'
          BY <2>3, <5>1, ReferencesKept DEF References
        <5> QED BY <5>1, <5>2 DEF Alive
      <4> QED BY <4>1, <4>2
    <3>5. /\ \A x \in comparisons : Alive(x.config, x.num1)' /\ Alive(x.config, x.num2)'
          /\ \A g \in gap : /\ g.config \in loaded'
                            /\ g.legal => Alive(g.config, g.num1)' /\ Alive(g.config, g.num2)'
      BY <2>3, ReferencesKept DEF References
    <3> QED BY <2>2, <2>3, <3>4, <3>5 DEF References, NoDanglingReference
  <2> QED BY <2>1, <2>4, <2>5
<1>8. ASSUME NEW c \in Config, NEW p \in Pair, BeginComparison(n, c, p)
      PROVE  References'
  <2> DEFINE h == [client |-> n, config |-> c, num1 |-> p[1], num2 |-> p[2], legal |-> Legal(c, p)]
  <2>1. /\ gap' = gap \cup {h} /\ GetSnapper(c) /\ c \in metas
        /\ UNCHANGED <<metas, comparisons, bg, bgpc>>
    BY <1>8 DEF BeginComparison, bgVars
  <2>2. loaded' \subseteq metas' /\ c \in loaded' /\ \A d \in Config : Keeps(d)
    BY <2>1, GetSnapperKeeps DEF GetSnapper, References
  <2>3. Legal(c, p) => Alive(c, p[1])' /\ Alive(c, p[2])'
    BY <2>1 DEF Legal, Alive, GetSnapper, Numbers, Typing
  <2>4. /\ \A x \in comparisons : Alive(x.config, x.num1)' /\ Alive(x.config, x.num2)'
        /\ \A g \in gap : /\ g.config \in loaded'
                          /\ g.legal => Alive(g.config, g.num1)' /\ Alive(g.config, g.num2)'
        /\ \A d \in Config : \A i \in TasksOf(d) : \A k \in {bg[i].num1, bg[i].num2} : Alive(d, k)'
    BY <2>2, ReferencesKept DEF References
  <2>5. \A g \in gap' : /\ g.config \in loaded'
                        /\ g.legal => Alive(g.config, g.num1)' /\ Alive(g.config, g.num2)'
    BY <2>1, <2>2, <2>3, <2>4
  <2>6. \A d \in Config : \A i \in TasksOf(d)' : Alive(d, bg[i].num1)' /\ Alive(d, bg[i].num2)'
    BY <2>1, <2>4 DEF TasksOf, Alive
  <2> QED BY <2>1, <2>2, <2>4, <2>5, <2>6 DEF References, NoDanglingReference
<1>9. ASSUME NEW x \in comparisons, DeleteComparison(n, x) PROVE References'
  <2>1. UNCHANGED <<loaded, snaps, metas, gap, bg, bgpc>> /\ comparisons' \subseteq comparisons
    BY <1>9 DEF DeleteComparison, bgVars
  <2> QED BY <2>1, ReferencesNoneAdded, SameKeeps DEF References
<1> QED
  BY <1>1, <1>2, <1>3, <1>4, <1>5, <1>6, <1>7, <1>8, <1>9 DEF Handler

(* A finished comparison refers to what its construction referred to.      *)
LEMMA ReferencesUnlocked ==
  ASSUME Typing, UseCountExact, References, NEW g \in gap,
         ComparisonFails(g) \/ ComparisonInterrupted(g) \/ FinishComparison(g)
  PROVE  References'
<1>1. gap' = gap \ {g} /\ UNCHANGED <<loaded, snaps, metas, bg, bgpc>>
  BY DEF ComparisonFails, ComparisonInterrupted, FinishComparison, metaVars, bgVars
<1>2. CASE ComparisonFails(g) \/ ComparisonInterrupted(g)
  <2>1. comparisons' = comparisons
    BY <1>2 DEF ComparisonFails, ComparisonInterrupted
  <2> QED BY <1>1, <2>1, ReferencesNoneAdded, SameKeeps DEF References
<1>3. CASE FinishComparison(g)
  <2>1. g.legal /\ \E a \in Addr : comparisons' = comparisons \cup
            {[addr |-> a, client |-> g.client, config |-> g.config,
              num1 |-> g.num1, num2 |-> g.num2]}
    BY <1>3 DEF FinishComparison
  <2>2. \A c, k : Alive(c, k)' <=> Alive(c, k)
    BY <1>1 DEF Alive, Numbers
  <2>3. \A x \in comparisons' : Alive(x.config, x.num1) /\ Alive(x.config, x.num2)
    BY <2>1 DEF References, NoDanglingReference
  <2>4. \A c \in Config : TasksOf(c)' = TasksOf(c)
    BY <1>1 DEF TasksOf
  <2> QED
    BY <1>1, <2>2, <2>3, <2>4 DEF References, NoDanglingReference
<1> QED BY <1>2, <1>3

(* The background thread refers to nothing but its tasks' snapshots.       *)
LEMMA ReferencesBackground ==
  ASSUME Typing, UseCountExact, References, BackgroundThread
  PROVE  References'
<1>1. UNCHANGED <<metas, comparisons, gap>> /\ bg # <<>>
  BY DEF BackgroundThread, BackgroundTake, BackgroundCompared, BackgroundPop, sessionVars, metaVars,
         Typing
<1>2. CASE BackgroundTake
  <2>1. bg[1].config \in Config /\ 1 \in TasksOf(bg[1].config)
    BY <1>1, <1>2, FirstTask DEF BackgroundTake, TasksOf
  <2>2. bg[1].config \in loaded
    BY <2>1 DEF References, NoDanglingReference, Alive
  <2>3. GetSnapper(bg[1].config) /\ bg' = bg /\ bgpc # "counted"
    BY <1>2 DEF BackgroundTake
  <2>4. loaded' \subseteq metas' /\ \A d \in Config : Keeps(d)
    BY <1>1, <2>1, <2>2, <2>3, GetSnapperKeeps DEF GetSnapper, References
  <2> QED BY <1>1, <2>3, <2>4, ReferencesNoneAdded
<1>3. CASE BackgroundCompared
  <2>1. UNCHANGED <<loaded, snaps, bg>> /\ bgpc # "counted"
    BY <1>3 DEF BackgroundCompared
  <2> QED BY <1>1, <2>1, ReferencesNoneAdded, SameKeeps DEF References
<1>4. CASE BackgroundPop
  <2>1. UNCHANGED <<loaded, snaps>> /\ bgpc = "counted" /\ bgpc' = "idle" /\ bg' = Tail(bg)
    BY <1>4 DEF BackgroundPop, metaVars
  <2>2. /\ Len(bg) \in Nat \ {0} /\ DOMAIN bg = 1..Len(bg)
        /\ DOMAIN bg' = 1..Len(bg) - 1
        /\ \A i \in 1..Len(bg) - 1 : bg'[i] = bg[i + 1]
    <3>1. bg \in Seq(Task)
      BY DEF Typing
    <3> QED BY <1>1, <2>1, <3>1, EmptySeq, LenProperties, HeadTailProperties
  <2>3. \A c \in Config : \A i \in TasksOf(c)' : i + 1 \in TasksOf(c) /\ bg'[i] = bg[i + 1]
    BY <2>2 DEF TasksOf
  <2>4. \A c, k : Alive(c, k)' <=> Alive(c, k)
    BY <2>1 DEF Alive, Numbers
  <2>5. \A c \in Config : \A i \in TasksOf(c)' : Alive(c, bg'[i].num1) /\ Alive(c, bg'[i].num2)
    BY <2>3 DEF References, NoDanglingReference
  <2> QED
    BY <1>1, <2>1, <2>4, <2>5 DEF References, NoDanglingReference
<1> QED BY <1>2, <1>3, <1>4 DEF BackgroundThread

(* periodic unloads only what nobody refers to.                            *)
LEMMA ReferencesPeriodic ==
  ASSUME Typing, UseCountExact, References, Periodic
  PROVE  References'
<1>1. PICK U \in SUBSET Unused :
        /\ loaded' = (loaded \cup Reloaded) \ U
        /\ snaps' = [c \in Config |-> IF c \in U THEN {}
                                      ELSE IF c \in Reloaded THEN Entries(c) ELSE snaps[c]]
  BY DEF Periodic
<1>2. comparisons' \subseteq comparisons /\ UNCHANGED <<gap, metas, bg, bgpc>>
  BY DEF Periodic, bgVars
<1>3. loaded' \subseteq metas'
  <2>1. Reloaded \subseteq metas
    BY DEF Periodic, ReleaseResolves, Reloaded
  <2> QED BY <1>1, <1>2, <2>1 DEF References
<1>4. \A c \in Config : counter[c] = 0 \/ Keeps(c)
  BY <1>1 DEF Unused, Keeps, Entries, Numbers
<1> QED BY <1>2, <1>3, <1>4, ReferencesNoneAdded

(* No step leaves a reference dangling.                                    *)
LEMMA ReferencesStep == ASSUME Typing, Sessions, UseCountExact, References, [Next]_vars
                        PROVE  References'
<1>1. ASSUME NEW n \in Client, MethodCall(n) \/ ClientDisconnected(n) \/ WorkerEnds(n)
      PROVE  References'
  BY <1>1, ReferencesNoneAdded, SameKeeps
     DEF MethodCall, ClientDisconnected, WorkerEnds, metaVars, bgVars, References
<1>2. CASE Start \/ UNCHANGED vars
  BY <1>2, ReferencesNoneAdded, SameKeeps
     DEF Start, vars, sessionVars, metaVars, bgVars, References
<1>3. ASSUME NEW r, Stop(r) PROVE References'
  BY <1>3 DEF Stop, References, NoDanglingReference, TasksOf
<1> QED
  BY <1>1, <1>2, <1>3, ReferencesHandler, ReferencesUnlocked, ReferencesBackground,
     ReferencesPeriodic
     DEF Next, Worker, Unlocked, PeriodicAborts, Exit, Crash

-----------------------------------------------------------------------------
(* The theorems                                                            *)

(* A daemon that has just started satisfies the strengthened invariant.    *)
LEMMA InitIInv == Init => IInv
<1> SUFFICES ASSUME Init PROVE IInv
  OBVIOUS
<1>1. Sessions /\ IdleAlone
  BY DEF Init, Sessions, IdleAlone
<1>2. UseCountExact
  BY NothingCounted DEF Init
<1>3. loaded \subseteq metas /\ NoDanglingReference
  BY DEF Init, NoDanglingReference, TasksOf
<1> QED BY <1>1, <1>2, <1>3, TypingInit DEF IInv

(* Every step preserves the strengthened invariant.                        *)
LEMMA StepIInv == IInv /\ [Next]_vars => IInv'
BY TypingStep, SessionsStep, IdleAloneStep, UseCountStep, ReferencesStep DEF IInv, References

(* IInv is an inductive invariant: typing, session bookkeeping, the idle   *)
(* flag, the use counts and the references hold each other up.             *)
THEOREM Invariance == Spec => []IInv
BY InitIInv, StepIInv, PTL DEF Spec

(* Every variable keeps its type; in particular no use count of            *)
(* RefCounter ever goes below 0, so that its assertion never fails.        *)
THEOREM TypeCorrect == Spec => []TypeOK
<1>1. ASSUME IInv PROVE TypeOK
  <2>1. \A c \in Config : counter[c] \in Nat
    BY <1>1, UsesFinite DEF IInv, UseCountExact
  <2>2. counter \in [Config -> Nat]
    BY <1>1, <2>1 DEF IInv, Typing
  <2> QED BY <1>1, <2>2 DEF IInv, Typing, TypeOK
<1> QED BY <1>1, Invariance, PTL

(* The use counts that RefHolder, create_comparison, delete_comparison,    *)
(* ~Client, Backgrounds::add_task and its worker keep are exact.           *)
THEOREM UseCountsExact == Spec => []UseCountExact
<1>1. IInv => UseCountExact
  BY DEF IInv
<1> QED BY <1>1, Invariance, PTL

(* Comparisons, constructions outside big_mutex and background tasks never *)
(* refer to an unloaded Snapper or to a snapshot erased from its list.     *)
THEOREM ReferencesAlive == Spec => []NoDanglingReference
<1>1. IInv => NoDanglingReference
  BY DEF IInv
<1> QED BY <1>1, Invariance, PTL

(* The main loop leaves by its idle timeout only when nothing is left that *)
(* a client, a comparison or the background thread would miss.             *)
THEOREM IdleFree == Spec => []IdleMeansFree
<1>1. ASSUME IInv PROVE IdleMeansFree
  <2> SUFFICES ASSUME idle PROVE IdleMeansFree!2
    BY DEF IdleMeansFree
  <2>1. bg = <<>> /\ \A n \in Client : client[n] = "absent"
    BY <1>1 DEF IInv, IdleAlone
  <2>2. comparisons = {} /\ gap = {}
    BY <1>1, <2>1 DEF IInv, Sessions, Typing, Comparison, Construction
  <2>3. \A c \in Config : counter[c] = 0
    BY <1>1, <2>1, <2>2, FS_EmptySet
       DEF IInv, UseCountExact, ComparisonsOf, HoldersOf, TasksOf
  <2>4. \A n \in Client : locks[n] = {} /\ mounts[n] = NoMounts
    BY <1>1, <2>1 DEF IInv, Sessions
  <2> QED BY <2>1, <2>2, <2>3, <2>4
<1> QED BY <1>1, Invariance, PTL

-----------------------------------------------------------------------------
(* Locks                                                                   *)

(* A config or a snapshot disappears only in a call of a client that        *)
(* passes Client::check_lock.                                               *)
LEMMA NothingDisappears ==
  ASSUME NEW c \in Config, metas \subseteq metas', disk[c] \subseteq disk'[c]
  PROVE  ~Disappears(c)
BY DEF Disappears, Numbers

(* A method handler makes a config or a snapshot disappear only past       *)
(* check_lock.                                                             *)
LEMMA HandlerLocks ==
  ASSUME Typing, NEW n \in Client, Handler(n), NEW c \in Config, Disappears(c)
  PROVE  LockCheck(n, c)
<1>1. CASE Reply(n)
  BY <1>1, NothingDisappears DEF Reply, metaVars
<1>2. ASSUME NEW d \in Config,
             \/ Read(n, d) \/ LockConfig(n, d) \/ UnlockConfig(n, d) \/ CreateConfig(n, d)
             \/ \E k \in Num : MountSnapshot(n, d, k) \/ UmountSnapshot(n, d, k)
             \/ \E p \in Pair : BeginComparison(n, d, p)
      PROVE  FALSE
  <2>1. metas \subseteq metas' /\ disk' = disk
    BY <1>2 DEF Read, LockConfig, UnlockConfig, CreateConfig, MountSnapshot, UmountSnapshot,
                BeginComparison, metaVars
  <2> QED BY <2>1, NothingDisappears
<1>3. ASSUME NEW d \in Config,
             \/ \E type \in {"single", "pre"} : CreateSnapshot(n, d, type)
             \/ \E p \in Num : CreatePostSnapshot(n, d, p)
      PROVE  FALSE
  <2>1. metas' = metas /\ \E s : AddEntry(d, s)
    BY <1>3 DEF CreateSnapshot, CreatePostSnapshot
  <2>2. disk[c] \subseteq disk'[c]
    BY <2>1 DEF AddEntry, Typing
  <2> QED BY <2>1, <2>2, NothingDisappears
<1>4. ASSUME NEW d \in Config, DeleteConfig(n, d) \/ DeleteConfigFails(n, d)
      PROVE  LockCheck(n, c)
  <2>1. /\ LockCheck(n, d) /\ metas \ {d} \subseteq metas'
        /\ \A e \in Config \ {d} : disk'[e] = disk[e]
    BY <1>4 DEF DeleteConfig, DeleteConfigFails, MayDeleteConfig, metaVars, Typing
  <2>2. CASE c = d
    BY <2>1, <2>2
  <2>3. CASE c # d
    <3>1. ~Disappears(c)
      BY <2>1, <2>3 DEF Disappears, Numbers
    <3> QED BY <3>1
  <2> QED BY <2>2, <2>3
<1>5. ASSUME NEW d \in Config, NEW D, NEW T, DeleteSnapshots(n, d, D, T)
      PROVE  LockCheck(n, c)
  <2>1. /\ LockCheck(n, d) /\ metas' = metas
        /\ \A e \in Config \ {d} : disk'[e] = disk[e]
    BY <1>5 DEF DeleteSnapshots, MayDelete, Typing
  <2>2. CASE c = d
    BY <2>1, <2>2
  <2>3. CASE c # d
    <3>1. ~Disappears(c)
      BY <2>1, <2>3 DEF Disappears, Numbers
    <3> QED BY <3>1
  <2> QED BY <2>2, <2>3
<1>6. ASSUME NEW x \in comparisons, DeleteComparison(n, x) PROVE FALSE
  BY <1>6, NothingDisappears DEF DeleteComparison
<1> QED
  BY <1>1, <1>2, <1>3, <1>4, <1>5, <1>6 DEF Handler

(* Nobody but a method handler makes configs or snapshots disappear.       *)
LEMMA OthersKeepStore ==
  ASSUME Typing, NEW c \in Config, [Next]_vars, \A n \in Client : ~Handler(n)
  PROVE  ~Disappears(c)
<1>1. ASSUME NEW n \in Client,
             \/ MethodCall(n) \/ ClientDisconnected(n) \/ Unlocked(n) \/ WorkerEnds(n)
      PROVE  UNCHANGED <<metas, disk>>
  BY <1>1 DEF MethodCall, ClientDisconnected, Unlocked, WorkerEnds, ComparisonFails,
              ComparisonInterrupted, FinishComparison, metaVars
<1>2. CASE BackgroundThread \/ Periodic \/ Start \/ UNCHANGED vars
  <2>1. UNCHANGED <<metas, disk>>
    BY <1>2 DEF BackgroundThread, BackgroundTake, BackgroundCompared, BackgroundPop, Periodic,
                Start, vars, sessionVars, metaVars
  <2> QED BY <2>1, NothingDisappears
<1>3. ASSUME NEW r, Stop(r) PROVE UNCHANGED <<metas, disk>>
  BY <1>3 DEF Stop
<1> QED
  BY <1>1, <1>2, <1>3, NothingDisappears DEF Next, Worker, PeriodicAborts, Exit, Crash

(* With a lock of another connected client on a config, no step of any     *)
(* client, thread or of the main loop removes the config or a snapshot of  *)
(* it; what removes them is a call of the only possible holder.            *)
THEOREM LocksRespected == Spec => LockRespected
<1>1. IInv /\ [Next]_vars => [RemovalsRespectLocks]_vars
  <2> SUFFICES ASSUME IInv, [Next]_vars, NEW c \in Config, Disappears(c)
               PROVE  \E n \in Client :
                        /\ queued'[n] < queued[n]
                        /\ \A m \in Client \ {n} : client[m] = "active" => c \notin locks[m]
    BY DEF RemovalsRespectLocks
  <2>1. Typing
    BY DEF IInv
  <2>2. PICK n \in Client : Handler(n)
    BY <2>1, OthersKeepStore
  <2>3. LockCheck(n, c) /\ queued'[n] < queued[n]
    BY <2>1, <2>2, HandlerLocks, HandlerFrame
  <2> QED BY <2>3 DEF LockCheck
<1> QED BY <1>1, Invariance, PTL DEF LockRespected, Spec

-----------------------------------------------------------------------------
(* Pairs of snapshots                                                      *)

(* What is on disk is in the list of a loaded Snapper; an entry of the     *)
(* list may be gone from disk, after a deletion that failed.  The list a   *)
(* handler sees is well paired.                                            *)
ListInv ==
  \A c \in Config : /\ c \notin loaded => snaps[c] = {}
                    /\ disk[c] \subseteq Entries(c)
                    /\ Paired(Entries(c))

(* Deleting snapshots from a list in order leaves it in order.             *)
LEMMA PairedSubset == ASSUME NEW L, Paired(L), NEW M \in SUBSET L
                      PROVE  Paired(M)
BY DEF Paired

(* The number nextNumber gives out is above all the numbers of the list,   *)
(* so a single or pre snapshot with it pairs with nothing that is there.   *)
LEMMA PairedWithUnpaired ==
  ASSUME NEW L \in SUBSET Snapshot, Paired(L), NEW d, NEW k \in NextNumber(L, d),
         NEW type \in {"single", "pre"}
  PROVE  Paired(L \cup {[num |-> k, type |-> type, pre_num |-> 0]})
<1> DEFINE s == [num |-> k, type |-> type, pre_num |-> 0]
<1>1. k \in Num /\ Num \subseteq Nat \ {0} /\ \A t \in L : t.num < k
  BY ConstantsAssumption DEF NextNumber
<1>2. s.num = k /\ s.type # "post"
  OBVIOUS
<1>3. \A t \in L : t.num \in Nat /\ t.pre_num \in Nat
  <2>1. \A t \in Snapshot : t.num \in Num /\ t.pre_num \in Num \cup {0}
    BY DEF Snapshot
  <2>2. \A t \in L : t.num \in Num /\ t.pre_num \in Num \cup {0}
    BY <2>1
  <2>3. \A i \in Num \cup {0} : i \in Nat
    BY ConstantsAssumption
  <2> QED BY <2>2, <2>3
<1> HIDE DEF s
<1>4. \A t \in L : t.num # s.num /\ (t.type = "post" => t.pre_num # s.num)
  BY <1>1, <1>2, <1>3 DEF Paired
<1>5. Paired(L \cup {s})
  BY <1>2, <1>4 DEF Paired
<1> QED BY <1>5 DEF s

(* A post snapshot of a pre snapshot without a post makes one pair more.   *)
LEMMA PairedWithPost ==
  ASSUME NEW L \in SUBSET Snapshot, Paired(L), NEW d, NEW k \in NextNumber(L, d),
         NEW p \in Numbers({t \in L : t.type = "pre"}), FindPost(L, p) = {}
  PROVE  Paired(L \cup {[num |-> k, type |-> "post", pre_num |-> p]})
<1> DEFINE s == [num |-> k, type |-> "post", pre_num |-> p]
<1>1. k \in Num /\ Num \subseteq Nat \ {0} /\ \A t \in L : t.num < k
  BY ConstantsAssumption DEF NextNumber
<1>2. s.num = k /\ s.type = "post" /\ s.pre_num = p
  OBVIOUS
<1>3. \A t \in L : t.num \in Nat /\ t.pre_num \in Nat
  <2>1. \A t \in Snapshot : t.num \in Num /\ t.pre_num \in Num \cup {0}
    BY DEF Snapshot
  <2>2. \A t \in L : t.num \in Num /\ t.pre_num \in Num \cup {0}
    BY <2>1
  <2>3. \A i \in Num \cup {0} : i \in Nat
    BY ConstantsAssumption
  <2> QED BY <2>2, <2>3
<1> HIDE DEF s
<1>4. PICK q \in L : q.type = "pre" /\ q.num = p
  BY DEF Numbers
<1>5. \A t \in L : t.num # s.num /\ (t.type = "post" => t.pre_num # s.num)
  BY <1>1, <1>2, <1>3 DEF Paired
<1>6. s.pre_num < s.num /\ \A t \in L : t.num = s.pre_num => t.type = "pre"
  BY <1>1, <1>2, <1>4 DEF Paired
<1>7. \A t \in L : t.type = "post" => t.pre_num # s.pre_num
  BY <1>2 DEF FindPost
<1>8. Paired(L \cup {s})
  BY <1>2, <1>5, <1>6, <1>7, <1>1 DEF Paired
<1> QED BY <1>8 DEF s

(* createHelper keeps list and disk in order when the entry fits both.     *)
LEMMA ListAdded ==
  ASSUME Typing, ListInv, NEW c \in Config, NEW s, AddEntry(c, s), Paired(Entries(c) \cup {s})
  PROVE  ListInv'
<1>1. /\ loaded' = loaded \cup {c}
      /\ snaps' = [snaps EXCEPT ![c] = Entries(c) \cup {s}]
      /\ disk' = [disk EXCEPT ![c] = disk[c] \cup {s}]
  BY DEF AddEntry
<1>2. Entries(c)' = Entries(c) \cup {s} /\ disk'[c] = disk[c] \cup {s}
  BY <1>1 DEF Entries, Typing
<1>3. \A d \in Config \ {c} : Entries(d)' = Entries(d) /\ disk'[d] = disk[d] /\ snaps'[d] = snaps[d]
  BY <1>1 DEF Entries, Typing
<1> QED BY <1>1, <1>2, <1>3 DEF ListInv, Paired

(* Steps that may load Snapper objects and remove entries *)
LEMMA ListKept ==
  ASSUME Typing, ListInv,
         \A c \in Config : /\ c \notin loaded' => snaps'[c] = {}
                           /\ Entries(c)' \subseteq Entries(c)
                           /\ disk'[c] \subseteq Entries(c)'
  PROVE  ListInv'
<1>1. ASSUME NEW c \in Config PROVE Paired(Entries(c)')
  BY PairedSubset DEF ListInv
<1> QED BY <1>1 DEF ListInv, Paired

(* A step that leaves lists and disk alone keeps them in order.            *)
LEMMA ListUnchanged == ASSUME Typing, ListInv, UNCHANGED <<loaded, snaps, disk>>
                       PROVE  ListInv'
BY DEF ListInv, Entries, Paired

(* Loading a Snapper object keeps lists and disk in order.                 *)
LEMMA ListLoaded ==
  ASSUME Typing, ListInv, NEW c \in Config, GetSnapper(c), UNCHANGED disk
  PROVE  ListInv'
BY ListKept DEF GetSnapper, Entries, ListInv, Typing

(* Every method handler keeps lists and disk in order.                     *)
LEMMA ListHandler == ASSUME Typing, ListInv, NEW n \in Client, Handler(n)
                     PROVE  ListInv'
<1>1. CASE Reply(n)
  BY <1>1, ListUnchanged DEF Reply, metaVars
<1>2. ASSUME NEW c \in Config, LockConfig(n, c) \/ UnlockConfig(n, c) \/ CreateConfig(n, c)
      PROVE  ListInv'
  BY <1>2, ListUnchanged DEF LockConfig, UnlockConfig, CreateConfig, metaVars
<1>3. ASSUME NEW c \in Config,
             \/ Read(n, c)
             \/ \E k \in Num : MountSnapshot(n, c, k) \/ UmountSnapshot(n, c, k)
             \/ \E p \in Pair : BeginComparison(n, c, p)
      PROVE  ListInv'
  BY <1>3, ListLoaded DEF Read, MountSnapshot, UmountSnapshot, BeginComparison
<1>4. ASSUME NEW c \in Config, DeleteConfig(n, c) PROVE ListInv'
  <2>1. /\ loaded' = loaded \ {c} /\ snaps' = [snaps EXCEPT ![c] = {}]
        /\ disk' = [disk EXCEPT ![c] = {}]
    BY <1>4 DEF DeleteConfig
  <2> QED BY <2>1, ListKept DEF ListInv, Entries, Typing
<1>5. ASSUME NEW c \in Config, DeleteConfigFails(n, c) PROVE ListInv'
  <2>1. UNCHANGED <<loaded, snaps>>
    BY <1>5 DEF DeleteConfigFails, metaVars
  <2>2. PICK left \in SUBSET disk[c] : disk' = [disk EXCEPT ![c] = left]
    BY <1>5 DEF DeleteConfigFails
  <2> QED BY <2>1, <2>2, ListKept DEF ListInv, Entries, Typing
<1>6. ASSUME NEW c \in Config, NEW type \in {"single", "pre"}, CreateSnapshot(n, c, type)
      PROVE  ListInv'
  <2>1. PICK k \in NextNumber(Entries(c), disk[c]) :
          AddEntry(c, [num |-> k, type |-> type, pre_num |-> 0])
    BY <1>6 DEF CreateSnapshot
  <2>2. Entries(c) \in SUBSET Snapshot /\ Paired(Entries(c))
    BY DEF Entries, Typing, ListInv
  <2> QED BY <2>1, <2>2, PairedWithUnpaired, ListAdded
<1>7. ASSUME NEW c \in Config, NEW p \in Num, CreatePostSnapshot(n, c, p)
      PROVE  ListInv'
  <2>1. PICK k \in NextNumber(Entries(c), disk[c]) :
          AddEntry(c, [num |-> k, type |-> "post", pre_num |-> p])
    BY <1>7 DEF CreatePostSnapshot
  <2>2. p \in Numbers({t \in Entries(c) : t.type = "pre"}) /\ FindPost(Entries(c), p) = {}
    BY <1>7 DEF CreatePostSnapshot
  <2>3. Entries(c) \in SUBSET Snapshot /\ Paired(Entries(c))
    BY DEF Entries, Typing, ListInv
  <2> QED BY <2>1, <2>2, <2>3, PairedWithPost, ListAdded
<1>8. ASSUME NEW c \in Config, NEW D, NEW T, DeleteSnapshots(n, c, D, T) PROVE ListInv'
  <2>1. /\ loaded' = loaded \cup {c}
        /\ snaps' = [snaps EXCEPT ![c] = {s \in Entries(c) : s.num \notin D}]
        /\ disk' = [disk EXCEPT ![c] = {s \in disk[c] : s.num \notin D \cup T}]
    BY <1>8 DEF DeleteSnapshots
  <2>2. /\ Entries(c)' = {s \in Entries(c) : s.num \notin D}
        /\ disk'[c] = {s \in disk[c] : s.num \notin D \cup T}
    BY <2>1 DEF Entries, Typing
  <2>3. \A d \in Config \ {c} : Entries(d)' = Entries(d) /\ disk'[d] = disk[d] /\ snaps'[d] = snaps[d]
    BY <2>1 DEF Entries, Typing
  <2> QED BY <2>1, <2>2, <2>3, ListKept DEF ListInv
<1>9. ASSUME NEW x \in comparisons, DeleteComparison(n, x) PROVE ListInv'
  BY <1>9, ListUnchanged DEF DeleteComparison
<1> QED
  BY <1>1, <1>2, <1>3, <1>4, <1>5, <1>6, <1>7, <1>8, <1>9 DEF Handler

(* Every step keeps lists and disk in order.                               *)
LEMMA ListStep == ASSUME Typing, ListInv, [Next]_vars
                  PROVE  ListInv'
<1>1. ASSUME NEW n \in Client,
             MethodCall(n) \/ ClientDisconnected(n) \/ Unlocked(n) \/ WorkerEnds(n)
      PROVE  ListInv'
  BY <1>1, ListUnchanged
     DEF MethodCall, ClientDisconnected, Unlocked, WorkerEnds, ComparisonFails,
         ComparisonInterrupted, FinishComparison, metaVars
<1>2. CASE BackgroundTake
  <2>1. bg[1].config \in Config /\ GetSnapper(bg[1].config) /\ UNCHANGED disk
    BY <1>2, FirstTask DEF BackgroundTake
  <2> QED BY <2>1, ListLoaded
<1>3. CASE BackgroundCompared \/ BackgroundPop \/ Start \/ UNCHANGED vars
  BY <1>3, ListUnchanged DEF BackgroundCompared, BackgroundPop, Start, vars, sessionVars, metaVars
<1>4. CASE Periodic
  <2>1. PICK U \in SUBSET Unused :
          /\ loaded' = (loaded \cup Reloaded) \ U
          /\ snaps' = [c \in Config |-> IF c \in U THEN {}
                                        ELSE IF c \in Reloaded THEN Entries(c) ELSE snaps[c]]
    BY <1>4 DEF Periodic
  <2>2. disk' = disk
    BY <1>4 DEF Periodic
  <2>3. ASSUME NEW c \in Config
        PROVE  /\ c \notin loaded' => snaps'[c] = {}
               /\ Entries(c)' \subseteq Entries(c)
               /\ disk'[c] \subseteq Entries(c)'
    BY <2>1, <2>2 DEF Unused, Entries, ListInv
  <2> QED BY <2>3, ListKept
<1>5. ASSUME NEW r, Stop(r) PROVE ListInv'
  <2>1. loaded' = {} /\ snaps' = [c \in Config |-> {}] /\ disk' = disk
    BY <1>5 DEF Stop
  <2> QED BY <2>1, ListKept DEF ListInv, Entries
<1> QED
  BY <1>1, <1>2, <1>3, <1>4, <1>5, ListHandler
     DEF Next, Worker, BackgroundThread, PeriodicAborts, Exit, Crash

(* nextNumber, createPost with findPost, delete_snapshots and its failures *)
(* keep the pairs of snapshots in order, in the list and on disk.          *)
THEOREM PairsInOrder == Spec => []PairingOK
<1>1. Init => ListInv
  BY DEF Init, ListInv, Entries, Paired
<1>2. Typing /\ ListInv /\ [Next]_vars => ListInv'
  BY ListStep
<1>3. ASSUME ListInv PROVE PairingOK
  <2> SUFFICES ASSUME NEW c \in Config PROVE Paired(snaps[c]) /\ Paired(disk[c])
    BY DEF PairingOK
  <2>1. snaps[c] \subseteq Entries(c) /\ disk[c] \subseteq Entries(c) /\ Paired(Entries(c))
    BY <1>3 DEF ListInv, Entries
  <2> QED BY <2>1, PairedSubset
<1>4. IInv => Typing
  BY DEF IInv
<1> QED BY <1>1, <1>2, <1>3, <1>4, Invariance, PTL DEF Spec

-----------------------------------------------------------------------------
(* Mounts                                                                  *)

(* No snapshot is deleted by halves, and no config: Client::delete_config  *)
(* and a deletion that fails do take a mounted snapshot away (README).     *)
Orderly == "io" \notin Fault /\ "DeleteConfig" \notin Method

(* Then the list a handler sees is what is on disk, so that the snapshot   *)
(* mount_snapshot finds in it is still found by ~Client after a reload.    *)
ListIsDisk == \A c \in Config : Entries(c) = disk[c]
MountsOnDisk ==
  \A n \in Client : \A c \in Config : \A k \in Num :
    mounts[n][c][k] > 0 => c \in metas /\ k \in Numbers(disk[c])
MountInv == ListIsDisk /\ MountsOnDisk

(* Steps that take neither a config nor a snapshot away and record no      *)
(* mounts                                                                  *)
LEMMA MountsStay ==
  ASSUME MountsOnDisk, UNCHANGED mounts, metas \subseteq metas',
         \A c \in Config : disk[c] \subseteq disk'[c]
  PROVE  MountsOnDisk'
<1>1. \A c \in Config : Numbers(disk[c]) \subseteq Numbers(disk'[c])
  BY DEF Numbers
<1> QED
  BY <1>1 DEF MountsOnDisk, Numbers

LEMMA LoadedIsDisk ==
  ASSUME Typing, ListIsDisk, UNCHANGED disk,
         UNCHANGED <<loaded, snaps>> \/ \E c \in Config : GetSnapper(c)
  PROVE  ListIsDisk'
BY DEF ListIsDisk, GetSnapper, Entries, Typing

(* createHelper adds the snapshot to the list and to the disk.             *)
LEMMA MountsCreate ==
  ASSUME Typing, MountInv, NEW c \in Config, NEW s, AddEntry(c, s), UNCHANGED <<mounts, metas>>
  PROVE  MountInv'
<1>1. /\ loaded' = loaded \cup {c}
      /\ snaps' = [snaps EXCEPT ![c] = Entries(c) \cup {s}]
      /\ disk' = [disk EXCEPT ![c] = disk[c] \cup {s}]
  BY DEF AddEntry
<1>2. ListIsDisk'
  BY <1>1 DEF MountInv, ListIsDisk, Entries, Typing
<1>3. \A d \in Config : disk[d] \subseteq disk'[d]
  BY <1>1 DEF Typing
<1> QED
  BY <1>2, <1>3, MountsStay DEF MountInv

(* check_snapshot_in_use keeps what is mounted from being deleted.         *)
LEMMA MountsDelete ==
  ASSUME Orderly, Typing, MountInv, NEW n \in Client, NEW c \in Config, NEW D, NEW T,
         DeleteSnapshots(n, c, D, T)
  PROVE  MountInv'
<1>1. T = {}
  <2>1. Numbers(Entries(c)) \subseteq Numbers(disk[c])
    BY DEF MountInv, ListIsDisk
  <2> QED
    BY <2>1 DEF DeleteSnapshots, Orderly
<1>2. /\ loaded' = loaded \cup {c}
      /\ snaps' = [snaps EXCEPT ![c] = {s \in Entries(c) : s.num \notin D}]
      /\ disk' = [disk EXCEPT ![c] = {s \in disk[c] : s.num \notin D}]
      /\ UNCHANGED <<mounts, metas>>
      /\ \A k \in D : ~InUse(c, k)
  BY <1>1 DEF DeleteSnapshots
<1>3. ListIsDisk'
  BY <1>2 DEF MountInv, ListIsDisk, Entries, Typing
<1>4. \A d \in Config : \A k \in Numbers(disk[d]) : (d = c => k \notin D) => k \in Numbers(disk'[d])
  BY <1>2 DEF Numbers, Typing
<1>5. \A m \in Client : \A k \in Num : mounts[m][c][k] > 0 => k \notin D
  BY <1>2 DEF InUse
<1>6. MountsOnDisk'
  BY <1>2, <1>4, <1>5 DEF MountInv, MountsOnDisk, Numbers
<1> QED
  BY <1>3, <1>6 DEF MountInv

(* mount_snapshot records only what the list has.                          *)
LEMMA MountsRecord ==
  ASSUME Typing, MountInv, NEW n \in Client, NEW c \in Config, NEW k \in Num,
         MountSnapshot(n, c, k) \/ UmountSnapshot(n, c, k)
  PROVE  MountInv'
<1>1. /\ c \in metas /\ k \in Numbers(Entries(c)) /\ GetSnapper(c) /\ UNCHANGED <<metas, disk>>
      /\ \E i : mounts' = [mounts EXCEPT ![n][c][k] = i]
  BY DEF MountSnapshot, UmountSnapshot
<1>2. ListIsDisk'
  BY <1>1, LoadedIsDisk DEF MountInv
<1>3. c \in metas' /\ k \in Numbers(disk'[c])
  BY <1>1 DEF MountInv, ListIsDisk
<1>4. \A m \in Client, d \in Config, j \in Num :
        ~(m = n /\ d = c /\ j = k) => mounts'[m][d][j] = mounts[m][d][j]
  BY <1>1 DEF Typing
<1>5. MountsOnDisk'
  <2> SUFFICES ASSUME NEW m \in Client, NEW d \in Config, NEW j \in Num, mounts'[m][d][j] > 0
               PROVE  d \in metas' /\ j \in Numbers(disk'[d])
    BY DEF MountsOnDisk, Numbers
  <2>1. CASE m = n /\ d = c /\ j = k
    BY <1>3, <2>1
  <2>2. CASE ~(m = n /\ d = c /\ j = k)
    BY <1>1, <1>4, <2>2 DEF MountInv, MountsOnDisk
  <2> QED
    BY <2>1, <2>2
<1> QED
  BY <1>2, <1>5 DEF MountInv

LEMMA MountsHandler ==
  ASSUME Orderly, Typing, MountInv, NEW n \in Client, Handler(n)
  PROVE  MountInv'
<1>1. ASSUME UNCHANGED <<mounts, disk>>, metas \subseteq metas',
             UNCHANGED <<loaded, snaps>> \/ \E c \in Config : GetSnapper(c)
      PROVE  MountInv'
  BY <1>1, LoadedIsDisk, MountsStay DEF MountInv
<1>2. CASE Reply(n)
  BY <1>1, <1>2 DEF Reply, metaVars
<1>3. ASSUME NEW c \in Config, LockConfig(n, c) \/ UnlockConfig(n, c) \/ CreateConfig(n, c)
      PROVE  MountInv'
  BY <1>1, <1>3 DEF LockConfig, UnlockConfig, CreateConfig, metaVars
<1>4. ASSUME NEW c \in Config, Read(n, c) \/ \E p \in Pair : BeginComparison(n, c, p)
      PROVE  MountInv'
  BY <1>1, <1>4 DEF Read, BeginComparison
<1>5. ASSUME NEW c \in Config, DeleteConfig(n, c) \/ DeleteConfigFails(n, c) PROVE FALSE
  BY <1>5 DEF DeleteConfig, DeleteConfigFails, Call, Orderly
<1>6. ASSUME NEW c \in Config,
             \/ \E type \in {"single", "pre"} : CreateSnapshot(n, c, type)
             \/ \E p \in Num : CreatePostSnapshot(n, c, p)
      PROVE  MountInv'
  <2>1. UNCHANGED <<mounts, metas>> /\ \E s : AddEntry(c, s)
    BY <1>6 DEF CreateSnapshot, CreatePostSnapshot
  <2> QED
    BY <2>1, MountsCreate
<1>7. ASSUME NEW x \in comparisons, DeleteComparison(n, x) PROVE MountInv'
  BY <1>1, <1>7 DEF DeleteComparison
<1> QED
  BY <1>2, <1>3, <1>4, <1>5, <1>6, <1>7, MountsRecord, MountsDelete DEF Handler

LEMMA MountsStep ==
  ASSUME Orderly, Typing, MountInv, [Next]_vars
  PROVE  MountInv'
<1>1. ASSUME UNCHANGED <<mounts, disk, metas>>,
             UNCHANGED <<loaded, snaps>> \/ \E c \in Config : GetSnapper(c)
      PROVE  MountInv'
  BY <1>1, LoadedIsDisk, MountsStay DEF MountInv
<1>2. ASSUME NEW n \in Client,
             MethodCall(n) \/ ClientDisconnected(n) \/ Unlocked(n) \/ WorkerEnds(n)
      PROVE  MountInv'
  BY <1>1, <1>2
     DEF MethodCall, ClientDisconnected, Unlocked, WorkerEnds, ComparisonFails,
         ComparisonInterrupted, FinishComparison, metaVars
<1>3. CASE BackgroundTake
  <2>1. bg[1].config \in Config /\ GetSnapper(bg[1].config) /\ UNCHANGED <<mounts, disk, metas>>
    BY <1>3, FirstTask DEF BackgroundTake, sessionVars
  <2> QED
    BY <1>1, <2>1
<1>4. CASE BackgroundCompared \/ BackgroundPop \/ Start \/ UNCHANGED vars
  BY <1>1, <1>4 DEF BackgroundCompared, BackgroundPop, Start, vars, sessionVars, metaVars
<1>5. CASE Periodic
  <2>1. PICK U \in SUBSET Unused :
          /\ loaded' = (loaded \cup Reloaded) \ U
          /\ snaps' = [c \in Config |-> IF c \in U THEN {}
                                        ELSE IF c \in Reloaded THEN Entries(c) ELSE snaps[c]]
    BY <1>5 DEF Periodic
  <2>2. /\ UNCHANGED <<metas, disk>>
        /\ mounts' = [n \in Client |-> IF n \in Ended THEN NoMounts ELSE mounts[n]]
    BY <1>5 DEF Periodic
  <2>3. ListIsDisk'
    BY <2>1, <2>2 DEF MountInv, ListIsDisk, Entries
  <2>4. \A n \in Client, c \in Config, k \in Num :
          mounts'[n][c][k] > 0 => mounts'[n][c][k] = mounts[n][c][k]
    <3>1. \A c \in Config, k \in Num : ~(NoMounts[c][k] > 0)
      BY DEF NoMounts
    <3> QED
      BY <2>2, <3>1
  <2>5. MountsOnDisk'
    BY <2>2, <2>4 DEF MountInv, MountsOnDisk, Numbers
  <2> QED
    BY <2>3, <2>5 DEF MountInv
<1>6. ASSUME NEW r, Stop(r) PROVE MountInv'
  <2>1. /\ loaded' = {} /\ UNCHANGED <<metas, disk>>
        /\ mounts' = [n \in Client |-> NoMounts]
    BY <1>6 DEF Stop
  <2>2. ListIsDisk'
    BY <2>1 DEF ListIsDisk, Entries
  <2>3. MountsOnDisk'
    BY <2>1 DEF MountsOnDisk, NoMounts
  <2> QED
    BY <2>2, <2>3 DEF MountInv
<1> QED
  BY <1>2, <1>3, <1>4, <1>5, <1>6, MountsHandler
     DEF Next, Worker, BackgroundThread, PeriodicAborts, Exit, Crash

(* Whatever a client has mounted is there when its Client object is        *)
(* destroyed, though others delete snapshots, the Snapper is unloaded and  *)
(* loaded again and the daemon crashes: ~Client does not throw.            *)
THEOREM MountsAlwaysResolve ==
  ASSUME Orderly
  PROVE  Spec => []MountsResolve
<1>1. Init => MountInv
  BY DEF Init, MountInv, ListIsDisk, MountsOnDisk, Entries, NoMounts
<1>2. Typing /\ MountInv /\ [Next]_vars => MountInv'
  BY MountsStep
<1>3. MountInv => MountsResolve
  BY DEF MountInv, ListIsDisk, MountsOnDisk, MountsResolve
<1>4. IInv => Typing
  BY DEF IInv
<1> QED
  BY <1>1, <1>2, <1>3, <1>4, Invariance, PTL DEF Spec

=============================================================================
