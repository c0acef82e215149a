----------------------------- MODULE ToolProofs -----------------------------
(***************************************************************************)
(* The main loop of snapperd, proved for any number of clients, any        *)
(* commands and messages of any length of queue: it does not sleep over a  *)
(* message, and it leaves nothing behind; and how far a tool can mistake a *)
(* snapshot for another one that has got its number.                       *)
(***************************************************************************)
EXTENDS Tool, Counting, SequenceTheorems

(* The queues are sequences, the pipe holds a byte for each message read,  *)
(* and one at least when poll has seen it readable.                        *)
Queues ==
  /\ \E S : socket \in Seq(S) /\ incoming \in Seq(S)
  /\ pipe \in Nat /\ Len(incoming) <= pipe
  /\ at \in {"poll", "handle", "off"}
  /\ at = "handle" /\ "pipe" \in saw => pipe >= 1

(* The idle timeout is set only while nobody is registered and nothing is  *)
(* compared, and comparisons belong to registered clients.                 *)
AloneWhenIdle ==
  /\ idle \/ at = "off" => DOMAIN clients = {} /\ ~background
  /\ clients = [c \in DOMAIN clients |-> clients[c]]
  /\ comparing \subseteq DOMAIN clients

LoopInv == Queues /\ AloneWhenIdle

-----------------------------------------------------------------------------
(* Queues                                                                  *)

LEMMA AppendStays ==
  ASSUME NEW s, NEW t, NEW m, \E S : s \in Seq(S) /\ t \in Seq(S)
  PROVE  \E S : Append(s, m) \in Seq(S) /\ t \in Seq(S)
<1>1. PICK S : s \in Seq(S) /\ t \in Seq(S)
  OBVIOUS
<1>2. Append(s, m) \in Seq(S \cup {m}) /\ t \in Seq(S \cup {m})
  BY <1>1
<1> QED
  BY <1>2

(* n messages move from the socket to the end of the queue.                *)
LEMMA ReadStays ==
  ASSUME NEW S, NEW s \in Seq(S), NEW t \in Seq(S), NEW n \in 0..Len(s)
  PROVE  /\ SubSeq(s, n + 1, Len(s)) \in Seq(S)
         /\ t \o SubSeq(s, 1, n) \in Seq(S)
         /\ Len(t \o SubSeq(s, 1, n)) = Len(t) + n
<1>1. SubSeq(s, 1, n) \in Seq(S) /\ Len(SubSeq(s, 1, n)) = n
  BY SubSeqProperties
<1>2. SubSeq(s, n + 1, Len(s)) \in Seq(S)
  BY SubSeqProperties
<1> QED
  BY <1>1, <1>2, ConcatProperties

LEMMA QueuesInit == Init => Queues
<1>1. <<>> \in Seq({}) /\ Len(<<>>) = 0
  OBVIOUS
<1> QED
  BY <1>1 DEF Init, BusInit, Queues

(* What a thread reads while it waits for the bus has its bytes.           *)
LEMMA WokenEnough ==
  ASSUME NEW before \in Nat, NEW n \in Nat, Woken(before, n), MaxPipe \in Nat
  PROVE  pipe' \in Nat /\ pipe' >= before + n
BY DEF Woken, WokenBy

LEMMA QueuesServe ==
  ASSUME Queues, NEW c \in Client, Serve(c)
  PROVE  Queues'
<1>1. PICK S : socket \in Seq(S) /\ incoming \in Seq(S)
  BY DEF Queues
<1>2. PICK n \in 0..Len(socket) :
        /\ Woken(pipe, n)
        /\ incoming' = incoming \o SubSeq(socket, 1, n)
        /\ socket' = SubSeq(socket, n + 1, Len(socket))
  BY DEF Serve
<1>3. pipe' \in Nat /\ pipe' >= pipe + n
  <2>1. n \in Nat
    BY <1>1
  <2> QED
    BY <1>2, <2>1, WokenEnough, BusConstants DEF Queues
<1>4. socket' \in Seq(S) /\ incoming' \in Seq(S) /\ Len(incoming') = Len(incoming) + n
  BY <1>1, <1>2, ReadStays
<1>5. Len(incoming) \in Nat /\ n \in Nat
  BY <1>1
<1>6. at' = at /\ saw' = saw
  BY DEF Serve
<1> QED
  BY <1>3, <1>4, <1>5, <1>6 DEF Queues

LEMMA QueuesHandle ==
  ASSUME Queues, Handle
  PROVE  Queues'
<1>1. PICK S : socket \in Seq(S) /\ incoming \in Seq(S)
  BY DEF Queues
<1> DEFINE before == pipe - (IF "pipe" \in saw THEN 1 ELSE 0)
<1>2. at = "handle" /\ at' = "poll" /\ saw' = {}
  BY DEF Handle
<1>3. before \in Nat /\ before <= pipe /\ ("pipe" \in saw => before = pipe - 1)
  BY <1>2 DEF Queues
<1>4. PICK n \in 0..Len(socket), more \in 0..Len(socket) :
        LET read == incoming \o SubSeq(socket, 1, n)
        IN  /\ n + more <= Len(socket) /\ (n > 0 <=> "socket" \in saw /\ socket # <<>>)
            /\ Woken(before, n + more)
            /\ socket' = SubSeq(socket, n + more + 1, Len(socket))
            /\ IF read = <<>>
               THEN incoming' = <<>>
               ELSE incoming' = Tail(read) \o SubSeq(socket, n + 1, n + more)
  BY DEF Handle
<1> DEFINE read == incoming \o SubSeq(socket, 1, n)
<1>5. n \in Nat /\ more \in Nat /\ n + more \in 0..Len(socket)
  BY <1>1, <1>4
<1>6. pipe' \in Nat /\ pipe' >= before + (n + more)
  BY <1>3, <1>4, <1>5, WokenEnough, BusConstants
<1>7. read \in Seq(S) /\ Len(read) = Len(incoming) + n /\ Len(incoming) \in Nat
  BY <1>1, ReadStays
<1>8. socket' \in Seq(S)
  BY <1>1, <1>4, <1>5, ReadStays
<1>9. CASE read = <<>>
  <2>1. incoming' = <<>>
    BY <1>4, <1>9
  <2> QED
    BY <2>1, <1>2, <1>6, <1>8 DEF Queues
<1>10. CASE read # <<>>
  <2>1. incoming' = Tail(read) \o SubSeq(socket, n + 1, n + more)
    BY <1>4, <1>10
  <2>2. SubSeq(socket, n + 1, n + more) \in Seq(S) /\ Len(SubSeq(socket, n + 1, n + more)) = more
    BY <1>1, <1>5, SubSeqProperties
  <2>3. Tail(read) \in Seq(S) /\ Len(Tail(read)) = Len(read) - 1
    BY SMTT(30), <1>7, <1>10
  <2> DEFINE u == Tail(read)
             v == SubSeq(socket, n + 1, n + more)
  <2>4. incoming' \in Seq(S) /\ Len(incoming') = Len(incoming) + n - 1 + more
    <3>1. u \in Seq(S) /\ Len(u) = Len(incoming) + n - 1
      <4> HIDE DEF read
      <4> QED
        BY <2>3, <1>7
    <3>2. v \in Seq(S) /\ Len(v) = more /\ incoming' = u \o v
      BY <2>1, <2>2
    <3> HIDE DEF u, v
    <3> QED
      BY <3>1, <3>2, ConcatProperties
  <2>5. Len(incoming') <= pipe'
    BY <2>4, <1>3, <1>5, <1>6, <1>7 DEF Queues
  <2> QED
    BY <2>4, <2>5, <1>2, <1>6, <1>8 DEF Queues
<1> QED
  BY <1>9, <1>10

LEMMA QueuesPoll ==
  ASSUME Queues, NEW busy, Poll(busy)
  PROVE  Queues'
<1>1. at' = "handle" /\ UNCHANGED <<socket, incoming, pipe>> /\ ("pipe" \in saw' => pipe > 0)
  BY DEF Poll
<1> QED
  BY <1>1 DEF Queues

LEMMA QueuesExit ==
  ASSUME Queues, Exit
  PROVE  Queues'
<1>1. at' = "off" /\ pipe' = 0 /\ socket' = <<>> /\ incoming' = incoming /\ incoming = <<>>
  BY DEF Exit
<1> QED
  BY <1>1 DEF Queues

LEMMA QueuesSent ==
  ASSUME Queues, UNCHANGED <<incoming, pipe, at, saw>>,
         \/ UNCHANGED socket
         \/ \E m : socket' = Append(socket, m)
  PROVE  Queues'
<1>1. \E S : socket' \in Seq(S) /\ incoming \in Seq(S)
  BY ZenonT(30), AppendStays DEF Queues
<1> QED
  BY <1>1 DEF Queues

-----------------------------------------------------------------------------
(* Alone when idle                                                         *)

LEMMA AloneInit == Init => AloneWhenIdle
BY DEF Init, BusInit, AloneWhenIdle

LEMMA AlonePoll ==
  ASSUME AloneWhenIdle, PollLoop
  PROVE  AloneWhenIdle'
<1>1. /\ clients' = [c \in DOMAIN clients \ Ended |-> clients[c]]
      /\ idle' = (idle \/ (Ended = DOMAIN clients /\ ~background))
      /\ at' = "handle" /\ background' = background
      /\ comparing' = comparing \cap DOMAIN clients'
  BY DEF PollLoop, Poll, Restrict
<1> QED
  BY <1>1 DEF AloneWhenIdle

LEMMA AloneHandle ==
  ASSUME AloneWhenIdle, HandleLoop
  PROVE  AloneWhenIdle'
<1>1. at' = "poll" /\ UNCHANGED <<background, comparing>>
  BY DEF HandleLoop, Handle, storeVars
<1>2. CASE UNCHANGED <<clients, idle>>
  BY <1>1, <1>2 DEF AloneWhenIdle
<1>3. ASSUME NEW c, NEW call, MethodCall(c), AddTask(c, call)
      PROVE  AloneWhenIdle'
  <2>1. clients' = [d \in DOMAIN clients \cup {c} |-> clients'[d]]
    BY <1>3 DEF AddTask
  <2>2. DOMAIN clients' = DOMAIN clients \cup {c}
    BY <2>1
  <2>3. idle' => idle /\ c \in DOMAIN clients
    BY <1>3 DEF MethodCall
  <2> QED
    BY <1>1, <2>1, <2>2, <2>3 DEF AloneWhenIdle
<1>4. ASSUME NEW c, ClientDisconnected(c)
      PROVE  AloneWhenIdle'
  BY <1>1, <1>4 DEF ClientDisconnected, AloneWhenIdle
<1>5. UNCHANGED <<clients, idle>> \/ \E m : DispatchIncoming(m)
  BY DEF HandleLoop, Handle
<1> QED
  BY <1>2, <1>3, <1>4, <1>5 DEF DispatchIncoming

LEMMA AloneWork ==
  ASSUME AloneWhenIdle, NEW c \in Client, Work(c)
  PROVE  AloneWhenIdle'
<1>1. /\ c \in DOMAIN clients
      /\ DOMAIN clients' = DOMAIN clients
      /\ clients' = [d \in DOMAIN clients' |-> clients'[d]]
      /\ UNCHANGED <<idle, at>>
  BY DEF Work, Serve, CanServe, AloneWhenIdle
<1>2. comparing' \subseteq comparing \cup {c}
  BY DEF Work, Effect, Create, storeVars
<1> QED
  BY <1>1, <1>2 DEF AloneWhenIdle

-----------------------------------------------------------------------------
(* The invariant                                                           *)

LEMMA LoopInvStep ==
  ASSUME LoopInv, [Next]_vars
  PROVE  LoopInv'
<1> USE DEF LoopInv
<1>1. ASSUME NEW c \in Client, Ask(c)
      PROVE  LoopInv'
  <2>1. /\ \E m : socket' = Append(socket, m)
        /\ UNCHANGED <<incoming, pipe, at, saw, clients, idle, background, comparing>>
    BY <1>1 DEF Ask, Send, storeVars
  <2> QED
    BY <2>1, QueuesSent DEF AloneWhenIdle
<1>2. ASSUME NEW c \in Client, Leave(c), Forgets(c)
      PROVE  LoopInv'
  <2>1. /\ UNCHANGED socket \/ \E m : socket' = Append(socket, m)
        /\ UNCHANGED <<incoming, pipe, at, saw, clients, idle, background, comparing>>
    BY <1>2 DEF Leave, Forgets, storeVars
  <2> QED
    BY <2>1, QueuesSent DEF AloneWhenIdle
<1>3. ASSUME NEW c \in Client, Work(c)
      PROVE  LoopInv'
  BY <1>3, QueuesServe, AloneWork DEF Work
<1>4. CASE StartLoop
  <2>1. /\ at = "off" /\ at' = "poll"
        /\ UNCHANGED <<socket, incoming, pipe, saw, clients, background, comparing>>
    BY <1>4 DEF StartLoop, Start, storeVars
  <2>2. Queues'
    BY <2>1 DEF Queues
  <2> QED
    BY <2>1, <2>2 DEF AloneWhenIdle
<1>5. CASE PollLoop
  BY <1>5, QueuesPoll, AlonePoll DEF PollLoop
<1>6. CASE HandleLoop
  BY <1>6, QueuesHandle, AloneHandle DEF HandleLoop
<1>7. CASE ExitLoop
  <2>1. /\ idle /\ at' = "off" /\ clients' = [c \in {} |-> {}]
        /\ UNCHANGED <<background, comparing>>
    BY <1>7 DEF ExitLoop, Exit, storeVars
  <2>2. AloneWhenIdle'
    BY <2>1 DEF AloneWhenIdle
  <2> QED
    BY <1>7, <2>2, QueuesExit DEF ExitLoop
<1>8. CASE TickLoop
  <2>1. UNCHANGED <<socket, incoming, pipe, at, saw, clients, idle, background, comparing>>
    BY <1>8 DEF TickLoop, Tick, storeVars
  <2> QED
    BY <2>1, QueuesSent DEF AloneWhenIdle
<1>9. CASE BackgroundEnds
  <2>1. UNCHANGED <<socket, incoming, pipe, at, saw, clients, idle, comparing>> /\ background' = FALSE
    BY <1>9 DEF BackgroundEnds, busVars, loopVars
  <2> QED
    BY <2>1, QueuesSent DEF AloneWhenIdle
<1>10. CASE UNCHANGED vars
  <2>1. UNCHANGED <<socket, incoming, pipe, at, saw, clients, idle, background, comparing>>
    BY <1>10 DEF vars, busVars, loopVars, storeVars
  <2> QED
    BY <2>1, QueuesSent DEF AloneWhenIdle
<1> QED
  BY <1>1, <1>2, <1>3, <1>4, <1>5, <1>6, <1>7, <1>8, <1>9, <1>10 DEF Next, Run, Quit, Kill, MainLoop

(* The invariant holds in every behaviour.                                 *)
THEOREM LoopInvariance == Spec => []LoopInv
<1>1. Init => LoopInv
  BY QueuesInit, AloneInit DEF LoopInv
<1>2. LoopInv /\ [Next]_vars => LoopInv'
  BY LoopInvStep
<1> QED
  BY <1>1, <1>2, PTL DEF Spec

(* While the loop sleeps there is a byte in the pipe as long as a message  *)
(* is queued: run of DBusMainLoop.cc dispatches it without waiting for the *)
(* next one, however many messages were read at once and by whom.          *)
THEOREM NoMessageForgotten == Spec => []QueueWakesLoop
<1>1. LoopInv => QueueWakesLoop
  <2> SUFFICES ASSUME LoopInv, at = "poll", incoming # <<>>
               PROVE  pipe > 0
    BY DEF QueueWakesLoop
  <2>1. PICK S : incoming \in Seq(S)
    BY DEF LoopInv, Queues
  <2>2. Len(incoming) \in Nat \ {0}
    BY <2>1
  <2> QED
    BY <2>2 DEF LoopInv, Queues
<1> QED
  BY <1>1, LoopInvariance, PTL

(* When the daemon exits, no client is registered, nothing is compared in  *)
(* the background and no message it has read is lost.                      *)
THEOREM ExitLosesNothing == Spec => LeavesNothing
<1>1. LoopInv /\ [Next]_vars =>
        [at # "off" /\ at' = "off" => clients = Nothing /\ ~background /\ incoming = <<>>]_vars
  <2> SUFFICES ASSUME LoopInv, Next, at # "off", at' = "off"
               PROVE  clients = Nothing /\ ~background /\ incoming = <<>>
    OBVIOUS
  <2>1. ExitLoop
    BY DEF Next, Run, Ask, Send, Quit, Kill, Leave, Work, Serve, MainLoop, StartLoop, Start,
           PollLoop, Poll, HandleLoop, Handle, TickLoop, Tick, BackgroundEnds, busVars, loopVars
  <2>2. idle /\ incoming = <<>>
    BY <2>1 DEF ExitLoop, Exit
  <2> QED
    BY <2>2 DEF LoopInv, AloneWhenIdle, Nothing
<1> QED
  BY <1>1, LoopInvariance, PTL DEF Spec, LeavesNothing

-----------------------------------------------------------------------------
(* Numbers and births                                                      *)

(* The next number is above all others, so later births have higher        *)
(* numbers.                                                                *)
BirthsGrow ==
  /\ DOMAIN snapshots \subseteq Nat \ {0} /\ IsFiniteSet(DOMAIN snapshots)
  /\ snapshots = [n \in DOMAIN snapshots |-> snapshots[n]]
  /\ births \in Nat
  /\ \A n \in DOMAIN snapshots :
       /\ snapshots[n].birth \in Nat /\ snapshots[n].birth <= births
       /\ \A m \in DOMAIN snapshots : n < m => snapshots[n].birth < snapshots[m].birth

(* A tool has only been told of what was born already.                     *)
ToldBefore ==
  /\ told = [c \in Client |-> told[c]]
  /\ \A c \in Client : \A n \in DOMAIN told[c] : told[c][n] \in Nat /\ told[c][n] <= births

(* What has got a number a tool knows since the tool was told of it was    *)
(* born after everything the tool was told of.                             *)
Fresh ==
  \A c \in Client : \A n \in DOMAIN told[c] \cap DOMAIN snapshots :
    \/ told[c][n] = snapshots[n].birth
    \/ \A k \in DOMAIN told[c] : told[c][k] < snapshots[n].birth

WaitingClients == DOMAIN waiting \subseteq Client

NumberInv == BirthsGrow /\ ToldBefore /\ Fresh /\ WaitingClients

LEMMA NumberInit == Init => NumberInv
<1> SUFFICES ASSUME Init
             PROVE  NumberInv
  OBVIOUS
<1> DEFINE D == DOMAIN FirstPairs
<1>1. D \subseteq Nat \ {0} /\ IsFiniteSet(D)
  BY ToolConstants
<1>2. D \cup {0} \in SUBSET Nat /\ IsFiniteSet(D \cup {0})
  BY <1>1, FS_AddElement
<1>3. births \in Nat /\ \A n \in D : n <= births
  <2>1. births = Max(D \cup {0})
    BY DEF Init
  <2>2. Max(D \cup {0}) \in D \cup {0} /\ \A n \in D \cup {0} : Max(D \cup {0}) >= n
    BY <1>2, MaxIsGreatest
  <2> QED
    BY <2>1, <2>2, <1>1
<1>4. /\ DOMAIN snapshots = D /\ snapshots = [n \in DOMAIN snapshots |-> snapshots[n]]
      /\ \A n \in D : snapshots[n].birth = n
  BY DEF Init
<1>5. BirthsGrow
  BY <1>1, <1>3, <1>4 DEF BirthsGrow
<1>6. told = [c \in Client |-> Nothing] /\ DOMAIN waiting = {} /\ DOMAIN Nothing = {}
  BY DEF Init, BusInit, Nothing
<1>7. ToldBefore /\ Fresh /\ WaitingClients
  BY <1>6 DEF ToldBefore, Fresh, WaitingClients
<1> QED
  BY <1>5, <1>7 DEF NumberInv

LEMMA NextNumberIsNew ==
  ASSUME BirthsGrow
  PROVE  NextNumber \in Nat \ {0} /\ \A n \in DOMAIN snapshots : n < NextNumber
<1>1. CASE snapshots = Nothing
  BY <1>1 DEF NextNumber, Nothing
<1>2. CASE snapshots # Nothing
  <2>1. DOMAIN snapshots # {} /\ DOMAIN snapshots \in SUBSET Nat
    BY <1>2 DEF BirthsGrow, Nothing
  <2>2. /\ Max(DOMAIN snapshots) \in DOMAIN snapshots
        /\ \A n \in DOMAIN snapshots : Max(DOMAIN snapshots) >= n
    BY <2>1, MaxIsGreatest DEF BirthsGrow
  <2> QED
    BY <1>2, <2>1, <2>2 DEF NextNumber
<1> QED
  BY <1>1, <1>2

(* A new snapshot has the highest number and the latest birth.             *)
LEMMA CreateGrows ==
  ASSUME BirthsGrow, NEW type, NEW pre, Create(type, pre)
  PROVE  /\ BirthsGrow' /\ births' = births + 1
         /\ DOMAIN snapshots' = DOMAIN snapshots \cup {NextNumber}
         /\ snapshots'[NextNumber].birth = births + 1
         /\ \A n \in DOMAIN snapshots : snapshots'[n] = snapshots[n]
<1> DEFINE new == [type |-> type, pre |-> pre, birth |-> births + 1]
<1>1. NextNumber \in Nat \ {0} /\ \A n \in DOMAIN snapshots : n < NextNumber
  BY NextNumberIsNew
<1>2. /\ births' = births + 1
      /\ snapshots' = [n \in DOMAIN snapshots \cup {NextNumber} |->
                         IF n = NextNumber THEN new ELSE snapshots[n]]
  BY DEF Create
<1>3. NextNumber \notin DOMAIN snapshots
  BY <1>1
<1>4. /\ DOMAIN snapshots' = DOMAIN snapshots \cup {NextNumber}
      /\ snapshots' = [n \in DOMAIN snapshots' |-> snapshots'[n]]
      /\ snapshots'[NextNumber].birth = births + 1
      /\ \A n \in DOMAIN snapshots : snapshots'[n] = snapshots[n]
  BY <1>2, <1>3
<1>5. IsFiniteSet(DOMAIN snapshots')
  BY <1>4, FS_AddElement DEF BirthsGrow
<1>6. BirthsGrow'
  <2>1. births' \in Nat /\ DOMAIN snapshots' \subseteq Nat \ {0}
    BY <1>1, <1>2, <1>4 DEF BirthsGrow
  <2>2. ASSUME NEW n \in DOMAIN snapshots'
        PROVE  snapshots'[n].birth \in Nat /\ snapshots'[n].birth <= births'
    BY <1>2, <1>4 DEF BirthsGrow
  <2>3. ASSUME NEW n \in DOMAIN snapshots', NEW m \in DOMAIN snapshots', n < m
        PROVE  snapshots'[n].birth < snapshots'[m].birth
    <3>1. n \in DOMAIN snapshots
      <4>1. m <= NextNumber /\ m \in Nat /\ n \in Nat
        BY <1>1, <1>4, <2>1
      <4> QED
        BY <1>1, <1>4, <2>3, <4>1
    <3> QED
      BY <1>4, <2>3, <3>1 DEF BirthsGrow
  <2> QED
    BY <1>4, <1>5, <2>1, <2>2, <2>3 DEF BirthsGrow
<1> QED
  BY <1>2, <1>4, <1>6

(* Deleting snapshots leaves the others as they are.                       *)
LEMMA DeletedGrows ==
  ASSUME BirthsGrow, NEW S \in SUBSET DOMAIN snapshots,
         snapshots' = [n \in S |-> snapshots[n]], births' = births
  PROVE  BirthsGrow'
<1>1. IsFiniteSet(S)
  BY FS_Subset DEF BirthsGrow
<1>2. DOMAIN snapshots' = S /\ \A n \in S : snapshots'[n] = snapshots[n]
  OBVIOUS
<1> QED
  BY <1>1, <1>2 DEF BirthsGrow

(* What is told now is true now, and what was told before stays as fresh   *)
(* as it was: what is new is born after it.                                *)
TrueNews(news) ==
  \A n \in DOMAIN news :
    /\ news[n] \in Nat /\ news[n] <= births
    /\ n \in DOMAIN snapshots => news[n] = snapshots[n].birth
Outlives ==
  \A n \in DOMAIN snapshots' :
    \/ n \in DOMAIN snapshots /\ snapshots'[n].birth = snapshots[n].birth
    \/ snapshots'[n].birth > births

LEMMA FreshStep ==
  ASSUME BirthsGrow, ToldBefore, Fresh, BirthsGrow', births' >= births, Outlives,
         told' = [c \in Client |-> told'[c]],
         \A c \in Client : told'[c] = told[c] \/ TrueNews(told[c])'
  PROVE  ToldBefore' /\ Fresh'
<1>1. births \in Nat /\ births' \in Nat
  BY DEF BirthsGrow
<1>2. ASSUME NEW c \in Client, told'[c] = told[c]
      PROVE  /\ \A n \in DOMAIN told'[c] : told'[c][n] \in Nat /\ told'[c][n] <= births'
             /\ \A n \in DOMAIN told'[c] \cap DOMAIN snapshots' :
                  \/ told'[c][n] = snapshots'[n].birth
                  \/ \A k \in DOMAIN told'[c] : told'[c][k] < snapshots'[n].birth
  <2>1. \A k \in DOMAIN told[c] : told[c][k] \in Nat /\ told[c][k] <= births
    BY DEF ToldBefore
  <2>2. \A k \in DOMAIN told[c] : told[c][k] <= births'
    BY <1>1, <2>1
  <2>3. ASSUME NEW n \in DOMAIN told[c] \cap DOMAIN snapshots'
        PROVE  \/ told[c][n] = snapshots'[n].birth
               \/ \A k \in DOMAIN told[c] : told[c][k] < snapshots'[n].birth
    <3>1. CASE n \in DOMAIN snapshots /\ snapshots'[n].birth = snapshots[n].birth
      BY <3>1 DEF Fresh
    <3>2. CASE snapshots'[n].birth > births
      <4>1. snapshots'[n].birth \in Nat
        BY DEF BirthsGrow
      <4> QED
        BY <1>1, <2>1, <3>2, <4>1
    <3> QED
      BY <3>1, <3>2 DEF Outlives
  <2> QED
    BY <1>2, <2>1, <2>2, <2>3
<1>3. ASSUME NEW c \in Client, TrueNews(told[c])'
      PROVE  /\ \A n \in DOMAIN told'[c] : told'[c][n] \in Nat /\ told'[c][n] <= births'
             /\ \A n \in DOMAIN told'[c] \cap DOMAIN snapshots' :
                  told'[c][n] = snapshots'[n].birth
  BY <1>3 DEF TrueNews
<1>4. ToldBefore'
  BY <1>2, <1>3 DEF ToldBefore
<1>5. Fresh'
  BY <1>2, <1>3 DEF Fresh
<1> QED
  BY <1>4, <1>5

(* Steps that create and delete nothing and tell at most one tool to       *)
(* forget.                                                                 *)
LEMMA QuietStep ==
  ASSUME NumberInv, UNCHANGED <<snapshots, births>>, WaitingClients',
         \/ UNCHANGED told
         \/ \E c \in Client : told' = [told EXCEPT ![c] = Nothing]
  PROVE  NumberInv'
<1>1. BirthsGrow' /\ births' >= births /\ Outlives
  BY DEF NumberInv, BirthsGrow, Outlives
<1>2. /\ told' = [c \in Client |-> told'[c]]
      /\ \A c \in Client : told'[c] = told[c] \/ TrueNews(told[c])'
  <2>1. /\ told' = [c \in Client |-> told'[c]]
        /\ \A c \in Client : told'[c] = told[c] \/ told'[c] = Nothing
    BY DEF NumberInv, ToldBefore
  <2> QED
    BY <2>1 DEF TrueNews, Nothing
<1> QED
  BY <1>1, <1>2, FreshStep DEF NumberInv

(* Every call a tool can make.                                             *)
LEMMA NumberWork ==
  ASSUME NumberInv, NEW c \in Client, Work(c)
  PROVE  NumberInv'
<1> DEFINE call == Task(c)
<1>1. Effect(c, call) /\ Hear(c, call)
  BY DEF Work
<1>2. WaitingClients'
  BY DEF Work, Serve, Restrict, NumberInv, WaitingClients
<1>3. BirthsGrow /\ ToldBefore /\ Fresh
  BY DEF NumberInv
<1>4. \/ UNCHANGED told
      \/ /\ Accepted(call) /\ call.name \in Telling
         /\ told' = [told EXCEPT ![c] = News(call)]
  BY <1>1 DEF Hear, toolVars
<1> HIDE DEF call
<1>5. /\ told' = [d \in Client |-> told'[d]]
      /\ \A d \in Client : \/ told'[d] = told[d]
                           \/ /\ Accepted(call) /\ call.name \in Telling
                              /\ told'[d] = News(call)
  BY <1>3, <1>4 DEF ToldBefore
<1>6. CASE UNCHANGED <<snapshots, births>>
           /\ (Accepted(call) => call.name # "CreatePreSnapshot")
  <2>1. BirthsGrow' /\ births' >= births /\ Outlives
    BY <1>3, <1>6 DEF BirthsGrow, Outlives
  <2>2. ASSUME Accepted(call), call.name \in Telling
        PROVE  \A n \in DOMAIN News(call) :
                 n \in DOMAIN snapshots /\ News(call)[n] = snapshots[n].birth
    <3>1. CASE call.name = "ListSnapshots"
      BY <3>1 DEF News
    <3>2. CASE call.name = "GetSnapshot" /\ call.nums[1] # 0
      <4>1. call.nums[1] \in DOMAIN snapshots
        BY <2>2, <3>2 DEF Accepted, Exists
      <4>2. News(call) = [n \in {call.nums[1]} |-> snapshots[n].birth]
        BY <3>2 DEF News
      <4> QED
        BY <4>1, <4>2
    <3>3. CASE call.name = "GetSnapshot" /\ call.nums[1] = 0
      BY <3>3 DEF News, Nothing
    <3> QED
      BY <1>6, <2>2, <3>1, <3>2, <3>3 DEF Telling
  <2>3. \A d \in Client : told'[d] = told[d] \/ TrueNews(told[d])'
    BY <1>3, <1>5, <1>6, <2>2 DEF TrueNews, BirthsGrow
  <2> QED
    BY <1>2, <1>3, <1>5, <2>1, <2>3, FreshStep DEF NumberInv
<1>7. CASE \E type, pre : Create(type, pre)
  <2>1. /\ BirthsGrow' /\ births' = births + 1
        /\ DOMAIN snapshots' = DOMAIN snapshots \cup {NextNumber}
        /\ snapshots'[NextNumber].birth = births + 1
        /\ \A n \in DOMAIN snapshots : snapshots'[n] = snapshots[n]
    BY <1>3, <1>7, CreateGrows
  <2>2. births \in Nat
    BY <1>3 DEF BirthsGrow
  <2>3. births' >= births /\ Outlives
    BY <2>1, <2>2 DEF Outlives
  <2>4. call.name \in Telling /\ Accepted(call) => call.name = "CreatePreSnapshot"
    <3>1. call.name \notin {"CreateSingleSnapshot", "CreatePreSnapshot", "CreatePostSnapshot"}
            /\ call.name \in Telling => UNCHANGED births
      BY <1>1 DEF Effect, Telling, storeVars
    <3> QED
      BY <2>1, <2>2, <3>1 DEF Telling
  <2>5. call.name = "CreatePreSnapshot" => News(call) = [n \in {NextNumber} |-> births + 1]
    BY DEF News
  <2>6. \A d \in Client : told'[d] = told[d] \/ TrueNews(told[d])'
    BY <1>5, <2>1, <2>2, <2>4, <2>5 DEF TrueNews
  <2> QED
    BY <1>2, <1>3, <1>5, <2>1, <2>3, <2>6, FreshStep DEF NumberInv
<1>8. ASSUME NEW S \in SUBSET DOMAIN snapshots,
             snapshots' = [n \in S |-> snapshots[n]], births' = births, UNCHANGED told
      PROVE  NumberInv'
  <2>1. BirthsGrow'
    BY <1>3, <1>8, DeletedGrows
  <2>2. births' >= births /\ Outlives
    BY <1>3, <1>8 DEF Outlives, BirthsGrow
  <2> QED
    BY <1>2, <1>3, <1>5, <1>8, <2>1, <2>2, FreshStep DEF NumberInv
<1>9. CASE call.name \in {"CreateSingleSnapshot", "CreatePreSnapshot", "CreatePostSnapshot"}
           /\ Accepted(call)
  <2>1. \E type, pre : Create(type, pre)
    BY <1>1, <1>9 DEF Effect
  <2> QED
    BY <1>7, <2>1
<1>10. CASE call.name = "DeleteSnapshots" /\ config /\ ~ConfigInUse
  <2>1. births' = births
        /\ snapshots' = Restrict(snapshots, DOMAIN snapshots \ Deleted(call.nums))
    BY <1>1, <1>10 DEF Effect
  <2>2. UNCHANGED told
    BY <1>4, <1>10 DEF Telling
  <2> QED
    BY <1>8, <2>1, <2>2 DEF Restrict
<1>11. CASE call.name = "DeleteConfig" /\ Accepted(call)
  <2>1. births' = births /\ snapshots' = [n \in {} |-> snapshots[n]]
    BY <1>1, <1>11 DEF Effect, Nothing
  <2>2. UNCHANGED told
    BY <1>4, <1>11 DEF Telling
  <2> QED
    BY <1>8, <2>1, <2>2
<1>12. \/ UNCHANGED <<snapshots, births>>
             /\ (Accepted(call) => call.name # "CreatePreSnapshot")
       \/ /\ call.name \in {"CreateSingleSnapshot", "CreatePreSnapshot", "CreatePostSnapshot"}
          /\ Accepted(call)
       \/ call.name = "DeleteSnapshots" /\ config /\ ~ConfigInUse
       \/ call.name = "DeleteConfig" /\ Accepted(call)
  BY <1>1 DEF Effect, storeVars
<1> QED
  BY <1>6, <1>9, <1>10, <1>11, <1>12

LEMMA NumberStep ==
  ASSUME NumberInv, [Next]_vars
  PROVE  NumberInv'
<1>1. ASSUME NEW c \in Client, Ask(c)
      PROVE  NumberInv'
  <2>1. UNCHANGED <<snapshots, births, told>>
    BY <1>1 DEF Ask, storeVars
  <2>2. DOMAIN waiting' = DOMAIN waiting \cup {c}
    BY <1>1 DEF Ask, Send
  <2> QED
    BY <2>1, <2>2, QuietStep DEF NumberInv, WaitingClients
<1>2. ASSUME NEW c \in Client, Leave(c), Forgets(c)
      PROVE  NumberInv'
  <2>1. UNCHANGED <<snapshots, births>> /\ told' = [told EXCEPT ![c] = Nothing]
    BY <1>2 DEF Forgets, storeVars
  <2>2. DOMAIN waiting' \subseteq DOMAIN waiting
    BY <1>2 DEF Leave, Restrict
  <2> QED
    BY <2>1, <2>2, QuietStep DEF NumberInv, WaitingClients
<1>3. CASE ExitLoop
  <2>1. UNCHANGED <<snapshots, births, told>> /\ DOMAIN waiting' = {}
    BY <1>3 DEF ExitLoop, Exit, storeVars
  <2> QED
    BY <2>1, QuietStep DEF WaitingClients
<1>4. CASE StartLoop \/ PollLoop \/ HandleLoop \/ TickLoop \/ BackgroundEnds \/ UNCHANGED vars
  <2>1. UNCHANGED <<snapshots, births, told, waiting>>
    BY <1>4 DEF StartLoop, Start, PollLoop, Poll, HandleLoop, Handle, TickLoop, Tick, BackgroundEnds,
                vars, busVars, toolVars, storeVars
  <2> QED
    BY <2>1, QuietStep DEF NumberInv, WaitingClients
<1> QED
  BY <1>1, <1>2, <1>3, <1>4, NumberWork DEF Next, Run, Quit, Kill, MainLoop

(* A command that goes by numbers it was given a while ago (delete,        *)
(* modify, cleanup of client/snapper.cc) can hit another snapshot only     *)
(* where everything it was told of from there on is gone, and what it hits *)
(* is older than all that is above it: for any commands of any clients.    *)
THEOREM MistakesOnlyAtEnd == Spec => []MistakenOnlyAtEnd
<1>1. Init => NumberInv
  BY NumberInit
<1>2. NumberInv /\ [Next]_vars => NumberInv'
  BY NumberStep
<1>3. NumberInv => MistakenOnlyAtEnd
  <2> SUFFICES ASSUME NumberInv, NEW c \in DOMAIN waiting, NEW n, Mistaken(c, n),
                      NEW m \in DOMAIN snapshots, m > n
               PROVE  /\ m \in DOMAIN told[c] => Mistaken(c, m)
                      /\ snapshots[m].birth > snapshots[n].birth
    BY DEF MistakenOnlyAtEnd
  <2>1. c \in Client /\ n \in DOMAIN told[c] /\ n \in DOMAIN snapshots
    BY DEF NumberInv, WaitingClients, Mistaken
  <2>2. \A k \in DOMAIN told[c] : told[c][k] < snapshots[n].birth /\ told[c][k] \in Nat
    BY <2>1 DEF NumberInv, Fresh, ToldBefore, Mistaken
  <2>3. /\ snapshots[n].birth < snapshots[m].birth
        /\ snapshots[n].birth \in Nat /\ snapshots[m].birth \in Nat
    <3>1. n \in Nat /\ m \in Nat
      BY <2>1 DEF NumberInv, BirthsGrow
    <3>2. n < m
      BY <3>1
    <3> QED
      BY <2>1, <3>2 DEF NumberInv, BirthsGrow
  <2>4. ASSUME m \in DOMAIN told[c]
        PROVE  told[c][m] # snapshots[m].birth
    <3>1. told[c][m] < snapshots[n].birth /\ told[c][m] \in Nat
      BY <2>2, <2>4
    <3> QED
      BY <2>3, <3>1
  <2> QED
    BY <2>3, <2>4 DEF Mistaken
<1> QED
  BY <1>1, <1>2, <1>3, PTL DEF Spec

=============================================================================
