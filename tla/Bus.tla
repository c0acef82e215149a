--------------------------------- MODULE Bus ---------------------------------
(***************************************************************************)
(* The message bus, the main loop of snapperd and the threads of its       *)
(* clients (src/dbus/DBusMainLoop.cc, DBusConnection.cc, src/server/       *)
(* snapperd.cc, Clients and the task queue of src/server/Client.cc).  What *)
(* a call does is left to the module that extends this one.                *)
(*                                                                         *)
(* The loop sleeps in poll until a byte is in the wakeup pipe, the socket  *)
(* can be read or a timeout has passed.  libdbus writes a byte for each    *)
(* message it has read, and now and then one for a message to be sent; a   *)
(* turn reads one byte and dispatches one message.                         *)
(***************************************************************************)
EXTENDS Integers, Sequences, FiniteSets, Functions, TLC

CONSTANTS
  Client,   \* unique names on the bus: one per run of the client tool
  Call,     \* method calls
  MaxPipe   \* bound on the spare bytes in the wakeup pipe

ASSUME BusConstants == MaxPipe \in Nat \ {0}

VARIABLES
  online,   \* the clients on the bus
  waiting,  \* for each client that waits for an answer, its call
  matches,  \* the clients whose leaving the bus will tell (add_client_match)
  socket,   \* messages the bus has sent to the daemon
  incoming, \* those libdbus has read
  pipe,     \* the number of bytes in the wakeup pipe
  clients,  \* for each entry of Clients: its tasks, and whether it is a zombie
  idle,     \* idle_timeout is set
  due,      \* last_action is idle_timeout or more ago
  at,       \* "poll", "handle" (after poll and periodic) or "off"
  saw       \* what poll has reported: "pipe", "socket"

loopVars == <<socket, incoming, pipe, clients, matches, idle, due, at, saw>>
busVars == <<online, waiting, loopVars>>

CallOf(c, call) == [type |-> "call", from |-> c, call |-> call]
NameOwnerChanged(c) == [type |-> "gone", from |-> c]
Message == [type : {"call"}, from : Client, call : Call] \cup [type : {"gone"}, from : Client]
NewClient == [tasks |-> <<>>, zombie |-> FALSE]

BusInit ==
  /\ online \subseteq Client /\ waiting = [c \in {} |-> {}] /\ matches = {}
  /\ socket = <<>> /\ incoming = <<>> /\ pipe = 0 /\ clients = [c \in {} |-> {}]
  /\ idle = FALSE /\ due = FALSE /\ at = "off" /\ saw = {}

-----------------------------------------------------------------------------
(* The bus and the clients                                                 *)

(* send_with_reply_and_block: one call at a time                           *)
Send(c, call) ==
  /\ c \in online /\ c \notin DOMAIN waiting
  /\ waiting' = [d \in DOMAIN waiting \cup {c} |-> IF d = c THEN call ELSE waiting[d]]
  /\ socket' = Append(socket, CallOf(c, call))
  /\ UNCHANGED <<online, incoming, pipe, clients, matches, idle, due, at, saw>>

(* A client leaves the bus, done or killed.                                *)
Leave(c) ==
  /\ c \in online /\ online' = online \ {c}
  /\ waiting' = Restrict(waiting, DOMAIN waiting \ {c})
  /\ socket' = IF c \in matches THEN Append(socket, NameOwnerChanged(c)) ELSE socket
  /\ UNCHANGED <<incoming, pipe, clients, matches, idle, due, at, saw>>

(* The bus starts the daemon for a message to it: main and its init.       *)
Start ==
  /\ at = "off" /\ socket # <<>>
  /\ at' = "poll" /\ idle' = TRUE /\ due' = FALSE
  /\ UNCHANGED <<online, waiting, socket, incoming, pipe, clients, matches, saw>>

(* idle_time passes.                                                       *)
Tick ==
  /\ at # "off" /\ idle /\ ~due /\ due' = TRUE
  /\ UNCHANGED <<online, waiting, socket, incoming, pipe, clients, matches, idle, at, saw>>

-----------------------------------------------------------------------------
(* MainLoop::run                                                           *)

Zombies == {c \in DOMAIN clients : clients[c].zombie}
(* A thread with nothing to do has ended soon after it is interrupted.     *)
Ended == {c \in Zombies : clients[c].tasks = <<>>}

(* What ends the sleep in poll: a byte, a message, or the timeout computed *)
(* from periodic_timeout and the idle timeout.  `busy': backgrounds is not *)
(* empty.                                                                  *)
WakesForMessages(busy) == pipe > 0 \/ socket # <<>> \/ busy \/ idle
Wakes(busy) == pipe > 0 \/ socket # <<>> \/ Zombies # {} \/ busy \/ idle

(* poll and then periodic, which removes zombies whose thread has ended.   *)
Poll(busy) ==
  /\ at = "poll" /\ Wakes(busy)
  /\ saw' = {s \in {"pipe", "socket"} : IF s = "pipe" THEN pipe > 0 ELSE socket # <<>>}
  /\ clients' = Restrict(clients, DOMAIN clients \ Ended)
  /\ idle' = (idle \/ (Ended = DOMAIN clients /\ ~busy))
  /\ at' = "handle"
  /\ UNCHANGED <<online, waiting, socket, incoming, pipe, matches, due>>

(* The bytes libdbus writes when n messages have been read.                *)
WokenByTurn(n) == IF n = 0 THEN 0 ELSE 1
WokenBy(n) == n

(* n messages are read from the socket; a spare byte may be written for a  *)
(* message that is sent or a reply the daemon itself has waited for.       *)
Woken(before, n) ==
  pipe' \in {before + WokenBy(n)} \cup ((before + WokenBy(n) + 1)..MaxPipe)

(* dispatch_incoming, with method_call and add_task, or with               *)
(* client_disconnected                                                     *)
MethodCallOnly(c) == due' = FALSE /\ UNCHANGED <<matches, idle>>
MethodCall(c) ==
  /\ due' = FALSE
  /\ IF c \in DOMAIN clients THEN UNCHANGED <<matches, idle>>
     ELSE matches' = matches \cup {c} /\ idle' = FALSE
AddTask(c, call) ==
  LET entry == IF c \in DOMAIN clients THEN clients[c] ELSE NewClient
  IN  clients' = [d \in DOMAIN clients \cup {c} |->
                    IF d = c THEN [entry EXCEPT !.tasks = Append(@, call)] ELSE clients[d]]
ClientDisconnected(c) ==
  /\ clients' = IF c \in DOMAIN clients THEN [clients EXCEPT ![c].zombie = TRUE] ELSE clients
  /\ matches' = matches \ {c} /\ due' = FALSE /\ UNCHANGED idle
DispatchIncoming(m) ==
  IF m.type = "call" THEN MethodCall(m.from) /\ AddTask(m.from, m.call)
  ELSE ClientDisconnected(m.from)

(* add_client_match and remove_client_match wait for the answer of the bus,*)
(* so more messages may be read before they return.                        *)
WaitsForBus(m) == m.type = "gone" \/ m.from \notin DOMAIN clients

(* The rest of a turn: a byte is read from the pipe, the socket is read if *)
(* poll has reported it, and the first message is dispatched.              *)
Handle ==
  /\ at = "handle"
  /\ \E n, more \in 0..Len(socket) :
       LET read == incoming \o SubSeq(socket, 1, n)
       IN  /\ n + more <= Len(socket) /\ (n > 0 <=> "socket" \in saw /\ socket # <<>>)
           /\ Woken(pipe - (IF "pipe" \in saw THEN 1 ELSE 0), n + more)
           /\ socket' = SubSeq(socket, n + more + 1, Len(socket))
           /\ IF read = <<>>
              THEN /\ ~(idle /\ due) /\ more = 0
                   /\ incoming' = <<>> /\ UNCHANGED <<clients, matches, idle, due>>
              ELSE /\ more > 0 => WaitsForBus(Head(read))
                   /\ incoming' = Tail(read) \o SubSeq(socket, n + 1, n + more)
                   /\ DispatchIncoming(Head(read))
  /\ at' = "poll" /\ saw' = {} /\ UNCHANGED <<online, waiting>>

(* Nothing to dispatch and the idle timeout has passed: run returns, the   *)
(* process ends, and the bus answers the calls it has already passed on.   *)
Exit ==
  /\ at = "handle" /\ idle /\ due /\ incoming = <<>> /\ ("socket" \in saw => socket = <<>>)
  /\ at' = "off" /\ pipe' = 0 /\ socket' = <<>> /\ matches' = {} /\ saw' = {}
  /\ clients' = [c \in {} |-> {}] /\ idle' = FALSE /\ due' = FALSE
  /\ waiting' = [c \in {} |-> {}] /\ UNCHANGED <<online, incoming>>

-----------------------------------------------------------------------------
(* Client::worker: the thread of client c takes a call and answers it.  It *)
(* waits for the bus where it asks for the caller's user id.               *)
CanServe(c) == c \in DOMAIN clients /\ clients[c].tasks # <<>>
Task(c) == Head(clients[c].tasks)
Serve(c) ==
  /\ CanServe(c)
  /\ clients' = [clients EXCEPT ![c].tasks = Tail(@)]
  /\ waiting' = Restrict(waiting, DOMAIN waiting \ {c})
  /\ \E n \in 0..Len(socket) :
       /\ Woken(pipe, n)
       /\ incoming' = incoming \o SubSeq(socket, 1, n)
       /\ socket' = SubSeq(socket, n + 1, Len(socket))
  /\ UNCHANGED <<online, matches, idle, due, at, saw>>

=============================================================================
