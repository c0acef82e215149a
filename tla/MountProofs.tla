----------------------------- MODULE MountProofs -----------------------------
(***************************************************************************)
(* The mount bookkeeping of a snapshot, proved for any number of clients,  *)
(* mounts and any width of the counter: what holds of any run, what holds  *)
(* when one thread after the other is in Snapshot, and what holds when     *)
(* there are no comparisons and no failures.                               *)
(***************************************************************************)
EXTENDS SnapshotMounts, Counting

(* Where a thread may be, doing what, and whether it has big_mutex         *)
Handling(t) == op[t] \in {"mount", "umount", "user_mount", "user_umount"}
ThreadOK(t) ==
  /\ pc[t] = "idle" <=> op[t] = "none"
  /\ op[t] # "background"
  /\ Handling(t) => t \in Client /\ big = t
  /\ op[t] = "release" => t = Main /\ big = t
  /\ op[t] = "compare" => t # Main /\ big # t
  /\ op[t] = "mount" => record[t] < MaxMounts
  /\ op[t] \in {"mount", "user_mount"} => up[t]
  /\ op[t] \in {"umount", "user_umount", "release"} => ~up[t]
  /\ pc[t] \in {"flag", "decide"} => UserRequest(t)
  /\ pc[t] \in {"read", "write"} => ~UserRequest(t)
  /\ pc[t] = "decide" => ~up[t]
  /\ pc[t] = "compare" => op[t] = "compare" /\ up[t]
  /\ pc[t] \in {"look", "kernel"} /\ ~up[t] => op[t] = "user_umount"

Threads ==
  /\ TypeOK
  /\ big # Nobody => pc[big] # "idle"
  /\ \A t \in Thread : ThreadOK(t)

(* One thread after the other: no comparison in the background, and of a   *)
(* single client.                                                          *)
OneAtATime == "background" \notin Op /\ ("compare" \in Op => \A m, n \in Client : m = n)
Sequential ==
  /\ \A t \in Thread : op[t] = "compare" => t \in Client /\ "compare" \in Op
  /\ \A t, u \in Thread : pc[t] # "idle" /\ pc[u] # "idle" => t = u

(* What a user-request mount has set stays set.                            *)
UserFlag ==
  /\ \A t \in Thread : op[t] = "user_umount" => ~asked
  /\ \A t \in Thread : op[t] = "user_mount" /\ pc[t] \in {"look", "kernel"} => user
  /\ asked /\ (\A t \in Thread : op[t] # "user_mount") => mounted /\ (checked => user)

(* No comparisons, no failures, nobody umounts what it has not mounted, or *)
(* keeps a mount without a call while the Snapper is unloaded              *)
Careful == Op \cap {"compare", "background"} = {} /\ Fault = {} /\ Quick

(* The count is that of the records, and one more when big_mutex's holder  *)
(* has counted what it has not recorded yet.                               *)
Pending == IF big # Nobody /\ Holding(big) THEN 1 ELSE 0
Counted ==
  /\ \A t \in Thread : op[t] # "compare"
  /\ count = (Total(record, Client) + Pending) % Width
  /\ \A t \in Thread : pc[t] = "write" => reg[t] = count
  /\ \A t \in Thread : op[t] = "umount" => record[t] > 0

(* Nothing is umounted while it is recorded.                               *)
Kept ==
  /\ (\E n \in Client : record[n] > 0) => mounted
  /\ \A t \in Thread : pc[t] \in {"look", "kernel"} /\ ~up[t] => \A n \in Client : record[n] = 0

-----------------------------------------------------------------------------
(* Types and places of the threads                                         *)

LEMMA ThreadsStep ==
  ASSUME Threads, [Next]_vars
  PROVE  Threads'
<1> USE MountConstants DEF Threads, TypeOK,
        ThreadOK, Handling, UserRequest, Enter, Return,
        Thread, Operations, threadVars, fieldVars
<1>1. ASSUME NEW n \in Client, Connect(n)
      PROVE  Threads'
  BY <1>1 DEF Connect
<1>2. ASSUME NEW n \in Client, Disconnect(n)
      PROVE  Threads'
  BY <1>2 DEF Disconnect
<1>3. ASSUME NEW n \in Client, CompareInterrupted(n)
      PROVE  Threads'
  BY <1>3 DEF CompareInterrupted
<1>4. ASSUME NEW n \in Client, NEW o \in Op, MountHandler(n, o)
      PROVE  Threads'
  <2>1. TypeOK'
    BY <1>4 DEF MountHandler
  <2>2. (big # Nobody => pc[big] # "idle")' /\ (\A u \in Thread : ThreadOK(u))'
    BY ZenonT(30), <1>4 DEF MountHandler
  <2> QED BY <2>1, <2>2
<1>5. ASSUME NEW n \in Client, Release(n)
      PROVE  Threads'
  <2>1. TypeOK'
    BY <1>5 DEF Release, Zombie
  <2>2. (big # Nobody => pc[big] # "idle")' /\ (\A u \in Thread : ThreadOK(u))'
    BY ZenonT(30), <1>5 DEF Release, Zombie
  <2> QED BY <2>1, <2>2
<1>6. ASSUME NEW n \in Client, RemoveZombie(n)
      PROVE  Threads'
  BY <1>6 DEF RemoveZombie
<1>7. ASSUME NEW t \in Client \cup {Bg}, CompareStart(t)
      PROVE  Threads'
  BY <1>7 DEF CompareStart
<1>8. ASSUME NEW t \in Thread, Test(t)
      PROVE  Threads'
  BY <1>8 DEF Test
<1>9. ASSUME NEW t \in Thread, Probe(t)
      PROVE  Threads'
  BY <1>9 DEF Probe
<1>10. ASSUME NEW t \in Thread, Flag(t)
      PROVE  Threads'
  BY <1>10 DEF Flag
<1>11. ASSUME NEW t \in Thread, ReadCount(t)
      PROVE  Threads'
  BY <1>11 DEF ReadCount
<1>12. ASSUME NEW t \in Thread, WriteCount(t)
      PROVE  Threads'
  BY <1>12 DEF WriteCount, Stored, RemoveMount, Zombie
<1>13. ASSUME NEW t \in Thread, Decide(t)
      PROVE  Threads'
  BY <1>13 DEF Decide
<1>14. ASSUME NEW t \in Thread, Look(t)
      PROVE  Threads'
  BY <1>14 DEF Look, Mounted
<1>15. ASSUME NEW t \in Thread, KernelMount(t)
      PROVE  Threads'
  BY <1>15 DEF KernelMount, Mounted
<1>16. ASSUME NEW t \in Thread, KernelUmount(t)
      PROVE  Threads'
  BY ZenonT(30), <1>16 DEF KernelUmount
<1>17. ASSUME NEW t \in Thread, KernelFails(t)
      PROVE  Threads'
  BY <1>17 DEF KernelFails
<1>18. ASSUME NEW t \in Thread, Compared(t)
      PROVE  Threads'
  BY <1>18 DEF Compared
<1>19. ASSUME Unload
      PROVE  Threads'
  <2>1. TypeOK'
    <3>1. count' \in 0..Width - 1
      BY <1>19 DEF Unload, Fresh, HandleUmount
    <3>2. mounted' \in BOOLEAN
      BY <1>19 DEF Unload, Fresh, HandleUmount
    <3> QED BY <1>19, <3>1, <3>2 DEF Unload, Fresh
  <2>2. (big # Nobody => pc[big] # "idle")' /\ (\A u \in Thread : ThreadOK(u))'
    BY <1>19 DEF Unload, Fresh, HandleUmount
  <2> QED BY <2>1, <2>2
<1>20. ASSUME DeleteSnapshot
      PROVE  Threads'
  <2>1. TypeOK'
    <3>1. count' \in 0..Width - 1
      BY <1>20 DEF DeleteSnapshot, Fresh
    <3>2. mounted' \in BOOLEAN
      BY <1>20 DEF DeleteSnapshot, Fresh
    <3> QED BY <1>20, <3>1, <3>2 DEF DeleteSnapshot, Fresh
  <2>2. (big # Nobody => pc[big] # "idle")' /\ (\A u \in Thread : ThreadOK(u))'
    BY <1>20 DEF DeleteSnapshot, Fresh
  <2> QED BY <2>1, <2>2
<1>21. ASSUME CreateSnapshot
      PROVE  Threads'
  BY <1>21 DEF CreateSnapshot
<1>22. CASE UNCHANGED vars
  BY <1>22 DEF vars
<1> HIDE DEF Threads, TypeOK,
        ThreadOK, Handling, UserRequest, Enter, Return,
        Thread, Operations, threadVars, fieldVars
<1> QED
  BY <1>1, <1>2, <1>3, <1>4, <1>5, <1>6, <1>7, <1>8, <1>9, <1>10, <1>11, <1>12,
     <1>13, <1>14, <1>15, <1>16, <1>17, <1>18, <1>19, <1>20, <1>21, <1>22 DEF Next, Step

-----------------------------------------------------------------------------
(* A user-request mount                                                    *)

LEMMA SequentialStep ==
  ASSUME OneAtATime, Threads, Sequential, [Next]_vars
  PROVE  Sequential'
<1> USE MountConstants DEF OneAtATime, Threads, TypeOK, Sequential,
        ThreadOK, Handling, UserRequest, Enter, Return,
        Thread, Operations, threadVars, fieldVars
<1>1. ASSUME NEW n \in Client, Connect(n)
      PROVE  Sequential'
  BY <1>1 DEF Connect
<1>2. ASSUME NEW n \in Client, Disconnect(n)
      PROVE  Sequential'
  BY <1>2 DEF Disconnect
<1>3. ASSUME NEW n \in Client, CompareInterrupted(n)
      PROVE  Sequential'
  BY <1>3 DEF CompareInterrupted
<1>4. ASSUME NEW n \in Client, NEW o \in Op, MountHandler(n, o)
      PROVE  Sequential'
  BY <1>4 DEF MountHandler
<1>5. ASSUME NEW n \in Client, Release(n)
      PROVE  Sequential'
  BY <1>5 DEF Release, Zombie
<1>6. ASSUME NEW n \in Client, RemoveZombie(n)
      PROVE  Sequential'
  BY <1>6 DEF RemoveZombie
<1>7. ASSUME NEW t \in Client \cup {Bg}, CompareStart(t)
      PROVE  Sequential'
  BY <1>7 DEF CompareStart
<1>8. ASSUME NEW t \in Thread, Test(t)
      PROVE  Sequential'
  BY <1>8 DEF Test
<1>9. ASSUME NEW t \in Thread, Probe(t)
      PROVE  Sequential'
  BY <1>9 DEF Probe
<1>10. ASSUME NEW t \in Thread, Flag(t)
      PROVE  Sequential'
  BY <1>10 DEF Flag
<1>11. ASSUME NEW t \in Thread, ReadCount(t)
      PROVE  Sequential'
  BY <1>11 DEF ReadCount
<1>12. ASSUME NEW t \in Thread, WriteCount(t)
      PROVE  Sequential'
  BY <1>12 DEF WriteCount, Stored, RemoveMount, Zombie
<1>13. ASSUME NEW t \in Thread, Decide(t)
      PROVE  Sequential'
  BY <1>13 DEF Decide
<1>14. ASSUME NEW t \in Thread, Look(t)
      PROVE  Sequential'
  BY <1>14 DEF Look, Mounted
<1>15. ASSUME NEW t \in Thread, KernelMount(t)
      PROVE  Sequential'
  BY <1>15 DEF KernelMount, Mounted
<1>16. ASSUME NEW t \in Thread, KernelUmount(t)
      PROVE  Sequential'
  BY <1>16 DEF KernelUmount
<1>17. ASSUME NEW t \in Thread, KernelFails(t)
      PROVE  Sequential'
  BY <1>17 DEF KernelFails
<1>18. ASSUME NEW t \in Thread, Compared(t)
      PROVE  Sequential'
  BY <1>18 DEF Compared
<1>19. ASSUME Unload
      PROVE  Sequential'
  BY <1>19 DEF Unload, Fresh, HandleUmount
<1>20. ASSUME DeleteSnapshot
      PROVE  Sequential'
  BY <1>20 DEF DeleteSnapshot, Fresh
<1>21. ASSUME CreateSnapshot
      PROVE  Sequential'
  BY <1>21 DEF CreateSnapshot
<1>22. CASE UNCHANGED vars
  BY <1>22 DEF vars
<1> HIDE DEF OneAtATime, Threads, TypeOK, Sequential,
        ThreadOK, Handling, UserRequest, Enter, Return,
        Thread, Operations, threadVars, fieldVars
<1> QED
  BY <1>1, <1>2, <1>3, <1>4, <1>5, <1>6, <1>7, <1>8, <1>9, <1>10, <1>11, <1>12,
     <1>13, <1>14, <1>15, <1>16, <1>17, <1>18, <1>19, <1>20, <1>21, <1>22 DEF Next, Step

LEMMA UserFlagStep ==
  ASSUME OneAtATime, Threads, Sequential, UserFlag, [Next]_vars
  PROVE  UserFlag'
<1> USE MountConstants DEF OneAtATime, Threads, TypeOK, Sequential, UserFlag,
        ThreadOK, Handling, UserRequest, Enter, Return,
        Thread, Operations, threadVars, fieldVars
<1>1. ASSUME NEW n \in Client, Connect(n)
      PROVE  UserFlag'
  BY <1>1 DEF Connect
<1>2. ASSUME NEW n \in Client, Disconnect(n)
      PROVE  UserFlag'
  BY <1>2 DEF Disconnect
<1>3. ASSUME NEW n \in Client, CompareInterrupted(n)
      PROVE  UserFlag'
  BY <1>3 DEF CompareInterrupted
<1>4. ASSUME NEW n \in Client, NEW o \in Op, MountHandler(n, o)
      PROVE  UserFlag'
  BY ZenonT(30), <1>4 DEF MountHandler
<1>5. ASSUME NEW n \in Client, Release(n)
      PROVE  UserFlag'
  BY <1>5 DEF Release, Zombie
<1>6. ASSUME NEW n \in Client, RemoveZombie(n)
      PROVE  UserFlag'
  BY <1>6 DEF RemoveZombie
<1>7. ASSUME NEW t \in Client \cup {Bg}, CompareStart(t)
      PROVE  UserFlag'
  BY <1>7 DEF CompareStart
<1>8. ASSUME NEW t \in Thread, Test(t)
      PROVE  UserFlag'
  BY <1>8 DEF Test
<1>9. ASSUME NEW t \in Thread, Probe(t)
      PROVE  UserFlag'
  BY <1>9 DEF Probe
<1>10. ASSUME NEW t \in Thread, Flag(t)
      PROVE  UserFlag'
  BY <1>10 DEF Flag
<1>11. ASSUME NEW t \in Thread, ReadCount(t)
      PROVE  UserFlag'
  BY <1>11 DEF ReadCount
<1>12. ASSUME NEW t \in Thread, WriteCount(t)
      PROVE  UserFlag'
  BY <1>12 DEF WriteCount, Stored, RemoveMount, Zombie
<1>13. ASSUME NEW t \in Thread, Decide(t)
      PROVE  UserFlag'
  BY <1>13 DEF Decide
<1>14. ASSUME NEW t \in Thread, Look(t)
      PROVE  UserFlag'
  BY <1>14 DEF Look, Mounted
<1>15. ASSUME NEW t \in Thread, KernelMount(t)
      PROVE  UserFlag'
  BY <1>15 DEF KernelMount, Mounted
<1>16. ASSUME NEW t \in Thread, KernelUmount(t)
      PROVE  UserFlag'
  BY <1>16 DEF KernelUmount
<1>17. ASSUME NEW t \in Thread, KernelFails(t)
      PROVE  UserFlag'
  BY <1>17 DEF KernelFails
<1>18. ASSUME NEW t \in Thread, Compared(t)
      PROVE  UserFlag'
  BY <1>18 DEF Compared
<1>19. ASSUME Unload
      PROVE  UserFlag'
  BY <1>19 DEF Unload, Fresh, HandleUmount
<1>20. ASSUME DeleteSnapshot
      PROVE  UserFlag'
  BY <1>20 DEF DeleteSnapshot, Fresh
<1>21. ASSUME CreateSnapshot
      PROVE  UserFlag'
  BY <1>21 DEF CreateSnapshot
<1>22. CASE UNCHANGED vars
  BY <1>22 DEF vars
<1> HIDE DEF OneAtATime, Threads, TypeOK, Sequential, UserFlag,
        ThreadOK, Handling, UserRequest, Enter, Return,
        Thread, Operations, threadVars, fieldVars
<1> QED
  BY <1>1, <1>2, <1>3, <1>4, <1>5, <1>6, <1>7, <1>8, <1>9, <1>10, <1>11, <1>12,
     <1>13, <1>14, <1>15, <1>16, <1>17, <1>18, <1>19, <1>20, <1>21, <1>22 DEF Next, Step

-----------------------------------------------------------------------------
(* The count                                                               *)

LEMMA TotalNat ==
  ASSUME TypeOK
  PROVE  Total(record, Client) \in 0..Cardinality(Client) * MaxMounts
BY MountConstants, TotalType DEF TypeOK

LEMMA RecordUp ==
  ASSUME TypeOK, NEW n \in Client, record[n] < MaxMounts
  PROVE  Total([record EXCEPT ![n] = record[n] + 1], Client) = Total(record, Client) + 1
<1> DEFINE q == [record EXCEPT ![n] = record[n] + 1]
<1>1. /\ q \in [Client -> 0..MaxMounts] /\ q[n] = record[n] + 1 /\ record[n] \in Nat
      /\ \A y \in Client \ {n} : q[y] = record[y]
  BY MountConstants DEF TypeOK
<1>2. record \in [Client -> 0..MaxMounts] /\ IsFiniteSet(Client) /\ MaxMounts \in Nat
  BY MountConstants DEF TypeOK
<1> HIDE DEF q
<1>3. Total(q, Client) = Total(record, Client) - record[n] + q[n]
  BY <1>1, <1>2, TotalChanges
<1>4. Total(record, Client) \in Int
  BY TotalNat, FS_CardinalityType, <1>2
<1>5. Total(q, Client) = Total(record, Client) + 1
  BY <1>1, <1>3, <1>4
<1> QED BY <1>5 DEF q

LEMMA RecordDown ==
  ASSUME TypeOK, NEW n \in Client, record[n] > 0
  PROVE  Total([record EXCEPT ![n] = record[n] - 1], Client) = Total(record, Client) - 1
<1> DEFINE q == [record EXCEPT ![n] = record[n] - 1]
<1>1. /\ q \in [Client -> 0..MaxMounts] /\ q[n] = record[n] - 1 /\ record[n] \in Nat
      /\ \A y \in Client \ {n} : q[y] = record[y]
  BY MountConstants DEF TypeOK
<1>2. record \in [Client -> 0..MaxMounts] /\ IsFiniteSet(Client) /\ MaxMounts \in Nat
  BY MountConstants DEF TypeOK
<1> HIDE DEF q
<1>3. Total(q, Client) = Total(record, Client) - record[n] + q[n]
  BY <1>1, <1>2, TotalChanges
<1>4. Total(record, Client) \in Int
  BY TotalNat, FS_CardinalityType, <1>2
<1>5. Total(q, Client) = Total(record, Client) - 1
  BY <1>1, <1>3, <1>4
<1> QED BY <1>5 DEF q

LEMMA CountStepped ==
  ASSUME NEW T \in Nat, NEW w \in Nat, w > 0, NEW c, c = T % w
  PROVE  (c + 1) % w = (T + 1) % w /\ (c + -1) % w = (T - 1) % w
<1> DEFINE d == -1
           e == 1
<1>1. d \in Int /\ e \in Int /\ T \in Int
  OBVIOUS
<1> HIDE DEF d, e
<1>2. ((T % w) + e) % w = (T + e) % w /\ ((T % w) + d) % w = (T + d) % w
  BY <1>1, WrappedSum
<1>3. T + d = T - 1
  BY DEF d
<1> QED BY <1>2, <1>3 DEF d, e

LEMMA CountedStep ==
  ASSUME Careful, Threads, Counted, [Next]_vars
  PROVE  Counted'
<1> USE MountConstants DEF Careful, Threads, TypeOK, Counted, Pending, Holding, Comparing,
        ThreadOK, Handling, UserRequest, Enter, Return,
        Thread, Operations, threadVars, fieldVars
<1>1. ASSUME NEW n \in Client, Connect(n)
      PROVE  Counted'
  BY <1>1 DEF Connect
<1>2. ASSUME NEW n \in Client, Disconnect(n)
      PROVE  Counted'
  BY <1>2 DEF Disconnect
<1>3. ASSUME NEW n \in Client, CompareInterrupted(n)
      PROVE  Counted'
  BY <1>3 DEF CompareInterrupted
<1>4. ASSUME NEW n \in Client, NEW o \in Op, MountHandler(n, o)
      PROVE  Counted'
  BY <1>4 DEF MountHandler
<1>5. ASSUME NEW n \in Client, Release(n)
      PROVE  Counted'
  BY <1>5 DEF Release, Zombie
<1>6. ASSUME NEW n \in Client, RemoveZombie(n)
      PROVE  Counted'
  BY <1>6 DEF RemoveZombie
<1>7. ASSUME NEW t \in Client \cup {Bg}, CompareStart(t)
      PROVE  Counted'
  BY <1>7 DEF CompareStart
<1>8. ASSUME NEW t \in Thread, Test(t)
      PROVE  Counted'
  BY <1>8 DEF Test
<1>9. ASSUME NEW t \in Thread, Probe(t)
      PROVE  Counted'
  BY <1>9 DEF Probe
<1>10. ASSUME NEW t \in Thread, Flag(t)
      PROVE  Counted'
  BY <1>10 DEF Flag
<1>11. ASSUME NEW t \in Thread, ReadCount(t)
      PROVE  Counted'
  BY <1>11 DEF ReadCount
<1>12. ASSUME NEW t \in Thread, WriteCount(t)
      PROVE  Counted'
  <2> DEFINE T == Total(record, Client)
  <2>1. T \in Nat
    BY TotalNat
  <2> HIDE DEF T
  <2>2. big = t /\ Pending = 0 /\ reg[t] = count /\ op[t] \in {"mount", "umount", "release"}
    BY <1>12 DEF WriteCount
  <2>6. count = T % Width
    BY <2>1, <2>2 DEF T
  <2>7. Width \in Nat /\ Width > 0
    OBVIOUS
  <2>8. (count + 1) % Width = (T + 1) % Width /\ (count + -1) % Width = (T - 1) % Width
    BY <2>1, <2>6, <2>7, CountStepped
  <2>3. count' = IF up[t] THEN (T + 1) % Width ELSE (T - 1) % Width
    BY <1>12, <2>2, <2>8 DEF WriteCount, Stored
  <2>4. CASE up[t]
    BY <1>12, <2>1, <2>2, <2>3, <2>4 DEF WriteCount, T
  <2>5. CASE ~up[t]
    <3>1. PICK n \in Client : record[n] > 0 /\ record' = [record EXCEPT ![n] = record[n] - 1]
      BY <1>12, <2>2, <2>5 DEF WriteCount, RemoveMount, Zombie
    <3>2. Total(record', Client) = T - 1
      BY <3>1, RecordDown DEF T
    <3>3. Return(t)
      BY <1>12, <2>2, <2>5 DEF WriteCount
    <3>4. \A u \in Thread : u # t => op[u] = "none" /\ pc[u] = "idle"
      BY <2>2
    <3> QED BY <1>12, <2>1, <2>2, <2>3, <2>5, <3>2, <3>3, <3>4
  <2> QED BY <2>4, <2>5
<1>13. ASSUME NEW t \in Thread, Decide(t)
      PROVE  Counted'
  BY <1>13 DEF Decide
<1>14. ASSUME NEW t \in Thread, Look(t)
      PROVE  Counted'
  <2>1. CASE mounted # up[t] \/ ~up[t]
    BY <1>14, <2>1 DEF Look
  <2>2. CASE mounted /\ up[t]
    <3>0. big = t /\ up[t] /\ op[t] \in {"mount", "user_mount"}
      BY <1>14, <2>2 DEF Look, Mounted
    <3>1. CASE op[t] = "mount"
      <4>1. record' = [record EXCEPT ![t] = record[t] + 1] /\ Pending = 1
          /\ Pending' = 0 /\ count' = count
        BY <1>14, <2>2, <3>0, <3>1 DEF Look, Mounted
      <4>2. Total(record', Client) = Total(record, Client) + 1
        BY <3>0, <3>1, <4>1, RecordUp
      <4> QED BY <1>14, <2>2, <3>0, <3>1, <4>1, <4>2, TotalNat DEF Look, Mounted
    <3>2. CASE op[t] = "user_mount"
      BY <1>14, <2>2, <3>0, <3>2 DEF Look, Mounted
    <3> QED BY <3>0, <3>1, <3>2
  <2> QED BY <1>14, <2>1, <2>2 DEF Look
<1>15. ASSUME NEW t \in Thread, KernelMount(t)
      PROVE  Counted'
  <2>0. big = t /\ up[t] /\ op[t] \in {"mount", "user_mount"}
    BY <1>15 DEF KernelMount, Mounted
  <2>1. CASE op[t] = "mount"
    <3>1. record' = [record EXCEPT ![t] = record[t] + 1] /\ Pending = 1
        /\ Pending' = 0 /\ count' = count
      BY <1>15, <2>0, <2>1 DEF KernelMount, Mounted
    <3>2. Total(record', Client) = Total(record, Client) + 1
      BY <2>0, <2>1, <3>1, RecordUp
    <3> QED BY <1>15, <2>0, <2>1, <3>1, <3>2, TotalNat DEF KernelMount, Mounted
  <2>2. CASE op[t] = "user_mount"
    BY <1>15, <2>0, <2>2 DEF KernelMount, Mounted
  <2> QED BY <2>0, <2>1, <2>2
<1>16. ASSUME NEW t \in Thread, KernelUmount(t)
      PROVE  Counted'
  BY <1>16 DEF KernelUmount
<1>17. ASSUME NEW t \in Thread, KernelFails(t)
      PROVE  Counted'
  BY <1>17 DEF KernelFails
<1>18. ASSUME NEW t \in Thread, Compared(t)
      PROVE  Counted'
  BY <1>18 DEF Compared
<1>19. ASSUME Unload
      PROVE  Counted'
  <2>1. pc = pc' /\ \A t \in Thread : pc[t] = "idle"
    BY <1>19 DEF Unload
  <2>2. Total(record, Client) = 0
    BY <1>19, TotalZero DEF Unload
  <2>3. count' = 0 /\ Pending' = 0
    BY <1>19 DEF Unload, Fresh
  <2> QED BY <1>19, <2>1, <2>2, <2>3 DEF Unload
<1>20. ASSUME DeleteSnapshot
      PROVE  Counted'
  <2>1. pc = pc' /\ \A t \in Thread : pc[t] = "idle"
    BY <1>20 DEF DeleteSnapshot
  <2>2. Total(record, Client) = 0
    BY <1>20, TotalZero DEF DeleteSnapshot
  <2>3. count' = 0 /\ Pending' = 0
    BY <1>20 DEF DeleteSnapshot, Fresh
  <2> QED BY <1>20, <2>1, <2>2, <2>3 DEF DeleteSnapshot
<1>21. ASSUME CreateSnapshot
      PROVE  Counted'
  BY <1>21 DEF CreateSnapshot
<1>22. CASE UNCHANGED vars
  BY <1>22 DEF vars
<1> HIDE DEF Careful, Threads, TypeOK, Counted, Pending, Holding, Comparing,
        ThreadOK, Handling, UserRequest, Enter, Return,
        Thread, Operations, threadVars, fieldVars
<1> QED
  BY <1>1, <1>2, <1>3, <1>4, <1>5, <1>6, <1>7, <1>8, <1>9, <1>10, <1>11, <1>12,
     <1>13, <1>14, <1>15, <1>16, <1>17, <1>18, <1>19, <1>20, <1>21, <1>22 DEF Next, Step

LEMMA KeptStep ==
  ASSUME Careful, Cardinality(Client) * MaxMounts < Width, Threads, Counted, Kept, [Next]_vars
  PROVE  Kept'
<1> USE MountConstants DEF Careful, Threads, TypeOK, Counted, Pending, Holding, Comparing, Kept,
        ThreadOK, Handling, UserRequest, Enter, Return,
        Thread, Operations, threadVars, fieldVars
<1>1. ASSUME NEW n \in Client, Connect(n)
      PROVE  Kept'
  BY <1>1 DEF Connect
<1>2. ASSUME NEW n \in Client, Disconnect(n)
      PROVE  Kept'
  BY <1>2 DEF Disconnect
<1>3. ASSUME NEW n \in Client, CompareInterrupted(n)
      PROVE  Kept'
  BY <1>3 DEF CompareInterrupted
<1>4. ASSUME NEW n \in Client, NEW o \in Op, MountHandler(n, o)
      PROVE  Kept'
  BY <1>4 DEF MountHandler
<1>5. ASSUME NEW n \in Client, Release(n)
      PROVE  Kept'
  BY <1>5 DEF Release, Zombie
<1>6. ASSUME NEW n \in Client, RemoveZombie(n)
      PROVE  Kept'
  BY <1>6 DEF RemoveZombie
<1>7. ASSUME NEW t \in Client \cup {Bg}, CompareStart(t)
      PROVE  Kept'
  BY <1>7 DEF CompareStart
<1>8. ASSUME NEW t \in Thread, Test(t)
      PROVE  Kept'
  BY <1>8 DEF Test
<1>9. ASSUME NEW t \in Thread, Probe(t)
      PROVE  Kept'
  BY <1>9 DEF Probe
<1>10. ASSUME NEW t \in Thread, Flag(t)
      PROVE  Kept'
  BY <1>10 DEF Flag
<1>11. ASSUME NEW t \in Thread, ReadCount(t)
      PROVE  Kept'
  BY <1>11 DEF ReadCount
<1>12. ASSUME NEW t \in Thread, WriteCount(t)
      PROVE  Kept'
  BY <1>12 DEF WriteCount, Stored, RemoveMount, Zombie
<1>13. ASSUME NEW t \in Thread, Decide(t)
      PROVE  Kept'
  <2>1. big = t /\ op[t] = "user_umount" /\ ~up[t]
    BY <1>13 DEF Decide
  <2>2. count = Total(record, Client) % Width
    BY <1>13, <2>1, TotalNat DEF Decide
  <2>3. Total(record, Client) \in 0..Width - 1
    BY TotalType, FS_CardinalityType
  <2>4. CASE count = 0
    <3>1. \A n \in Client : record[n] = 0
      BY <2>2, <2>3, <2>4, TotalZero
    <3> QED BY <1>13, <2>4, <3>1 DEF Decide
  <2>5. CASE count # 0
    BY <1>13, <2>5 DEF Decide
  <2> QED BY <2>4, <2>5
<1>14. ASSUME NEW t \in Thread, Look(t)
      PROVE  Kept'
  BY <1>14 DEF Look, Mounted
<1>15. ASSUME NEW t \in Thread, KernelMount(t)
      PROVE  Kept'
  BY <1>15 DEF KernelMount, Mounted
<1>16. ASSUME NEW t \in Thread, KernelUmount(t)
      PROVE  Kept'
  BY <1>16 DEF KernelUmount
<1>17. ASSUME NEW t \in Thread, KernelFails(t)
      PROVE  Kept'
  BY <1>17 DEF KernelFails
<1>18. ASSUME NEW t \in Thread, Compared(t)
      PROVE  Kept'
  BY <1>18 DEF Compared
<1>19. ASSUME Unload
      PROVE  Kept'
  BY <1>19 DEF Unload, Fresh, HandleUmount
<1>20. ASSUME DeleteSnapshot
      PROVE  Kept'
  BY <1>20 DEF DeleteSnapshot, Fresh
<1>21. ASSUME CreateSnapshot
      PROVE  Kept'
  BY <1>21 DEF CreateSnapshot
<1>22. CASE UNCHANGED vars
  BY <1>22 DEF vars
<1> HIDE DEF Careful, Threads, TypeOK, Counted, Pending, Holding, Comparing, Kept,
        ThreadOK, Handling, UserRequest, Enter, Return,
        Thread, Operations, threadVars, fieldVars
<1> QED
  BY <1>1, <1>2, <1>3, <1>4, <1>5, <1>6, <1>7, <1>8, <1>9, <1>10, <1>11, <1>12,
     <1>13, <1>14, <1>15, <1>16, <1>17, <1>18, <1>19, <1>20, <1>21, <1>22 DEF Next, Step

-----------------------------------------------------------------------------
(* The theorems                                                            *)

LEMMA InitAll ==
  ASSUME Init
  PROVE  Threads /\ Sequential /\ UserFlag /\ Counted /\ Kept
<1> USE MountConstants DEF Init, Thread
<1>1. Threads
  <2>1. TypeOK
    <3>1. 0 \in 0..Width - 1 /\ 0 \in 0..MaxMounts
      OBVIOUS
    <3> QED BY <3>1 DEF TypeOK, Operations
  <2>2. \A t \in Thread : ThreadOK(t)
    BY DEF ThreadOK, Handling, UserRequest
  <2> QED BY <2>1, <2>2 DEF Threads
<1>2. Sequential /\ UserFlag /\ Kept
  BY DEF Sequential, UserFlag, Kept
<1>3. Pending = 0
  BY DEF Pending
<1>4. record \in [Client -> 0..MaxMounts] /\ \A n \in Client : record[n] = 0
  OBVIOUS
<1>5. Total(record, Client) = 0
  BY <1>4, TotalZero
<1>6. count = (Total(record, Client) + Pending) % Width
  BY <1>3, <1>5
<1>7. Counted
  BY <1>6 DEF Counted
<1> QED BY <1>1, <1>2, <1>7

(* Every variable of the module has its type, in particular a client's     *)
(* recorded mounts stay within 0..MaxMounts (remove_mount never takes one  *)
(* away that is not there) and mount_use_count within its width.           *)
THEOREM MountTypes == Spec => []TypeOK
<1>1. Init => Threads
  BY InitAll
<1>2. Threads /\ [Next]_vars => Threads'
  BY ThreadsStep
<1>3. Threads => TypeOK
  BY DEF Threads
<1> QED BY <1>1, <1>2, <1>3, PTL DEF Spec

LEMMA ThreadsInvariant == Spec => []Threads
<1>1. Init => Threads
  BY InitAll
<1>2. Threads /\ [Next]_vars => Threads'
  BY ThreadsStep
<1> QED BY <1>1, <1>2, PTL DEF Spec

(* A mount made with user_request stays mounted until a user-request       *)
(* umount, through any unloading, failing mount(2), stray umount and       *)
(* interrupted comparison, as long as no two threads are in the functions  *)
(* of Snapshot at a time.                                                  *)
THEOREM UserMountsKept ==
  ASSUME OneAtATime
  PROVE  Spec => []UserMountKept
<1>1. Init => Sequential /\ UserFlag
  BY InitAll
<1>2. Threads /\ Sequential /\ [Next]_vars => Sequential'
  BY SequentialStep
<1>3. Threads /\ Sequential /\ UserFlag /\ [Next]_vars => UserFlag'
  BY UserFlagStep
<1>4. UserFlag => UserMountKept
  BY DEF UserFlag, UserMountKept
<1> QED BY <1>1, <1>2, <1>3, <1>4, ThreadsInvariant, PTL DEF Spec

LEMMA HeldIsPending ==
  ASSUME Threads, \A t \in Thread : op[t] # "compare"
  PROVE  Cardinality({t \in Thread : Holding(t)}) = Pending
<1>1. \A t \in Thread : Holding(t) => t = big /\ big # Nobody
  BY MountConstants DEF Threads, TypeOK, ThreadOK, Handling, Holding, Thread, Operations
<1>2. big # Nobody => big \in Thread
  BY DEF Threads, TypeOK
<1>3. {t \in Thread : Holding(t)} = IF big # Nobody /\ Holding(big) THEN {big} ELSE {}
  BY <1>1, <1>2
<1> QED
  BY <1>3, FS_EmptySet, FS_Singleton DEF Pending

LEMMA CountedInvariant ==
  ASSUME Careful
  PROVE  Spec => []Counted
<1>1. Init => Counted
  BY InitAll
<1>2. Threads /\ Counted /\ [Next]_vars => Counted'
  BY CountedStep
<1> QED BY <1>1, <1>2, ThreadsInvariant, PTL DEF Spec

(* mount_use_count is, up to its width, the number of mounts recorded in   *)
(* Client::mounts, and one for a mount_snapshot in progress.               *)
THEOREM CountsAgree ==
  ASSUME Careful
  PROVE  Spec => []CountExact
<1>1. Threads /\ Counted => CountExact
  <2> SUFFICES ASSUME Threads, Counted
               PROVE  CountExact
    OBVIOUS
  <2>1. count = (Total(record, Client) + Cardinality({t \in Thread : Holding(t)})) % Width
    BY HeldIsPending DEF Counted
  <2> QED BY <2>1 DEF CountExact, Total
<1> QED BY <1>1, ThreadsInvariant, CountedInvariant, PTL

(* What a client has mounted stays mounted until its umount_snapshot or    *)
(* ~Client, whatever the other clients umount, if the mounts of all        *)
(* clients together are fewer than the counter can count.                  *)
THEOREM UsedStaysMounted ==
  ASSUME Careful, Cardinality(Client) * MaxMounts < Width
  PROVE  Spec => []InUseStaysMounted
<1>1. Init => Kept
  BY InitAll
<1>2. Threads /\ Counted /\ Kept /\ [Next]_vars => Kept'
  BY KeptStep
<1>3. Kept => InUseStaysMounted
  BY DEF Kept, InUseStaysMounted
<1> QED BY <1>1, <1>2, <1>3, ThreadsInvariant, CountedInvariant, PTL DEF Spec

=============================================================================
