-------------------------------- MODULE Tool --------------------------------
(***************************************************************************)
(* The command line tool (src/client/snapper.cc, commands.cc) at work with *)
(* the daemon over the bus: each client runs one command, a sequence of    *)
(* calls that depends on what earlier calls have returned.  Between two    *)
(* calls of a command other clients are served, so what it has been told   *)
(* may be out of date.  One config; what the daemon does for a call is     *)
(* kept to what other clients can notice (modules Snapperd, SnapshotStore  *)
(* and Undo have the rest).                                                *)
(***************************************************************************)
EXTENDS Bus, SequencesExt

CONSTANTS
  Plans,       \* who runs which command: functions from clients to commands
  FirstPairs,  \* the snapshots there are at first: from number to type, pre_num
  Impatient    \* the clients that may be killed while they wait

ASSUME ToolConstants ==
  /\ \A p \in Plans : DOMAIN p \subseteq Client
  /\ DOMAIN FirstPairs \subseteq Nat \ {0} /\ IsFiniteSet(DOMAIN FirstPairs)

VARIABLES
  todo,        \* the calls a tool is yet to make
  plan,        \* what it does with a list of snapshots, or with a number
  told,        \* the snapshots a tool goes by: from number to birth
  config,      \* the config exists
  snapshots,   \* from number to type, pre_num and birth
  births,      \* the birth of the snapshot created last: they are counted
  comparing,   \* the clients that own a comparison
  background   \* a background comparison is queued or running

toolVars == <<todo, plan, told>>
storeVars == <<config, snapshots, births, comparing, background>>
vars == <<busVars, toolVars, storeVars>>

Asks(name, nums) == [name |-> name, nums |-> nums]
Nothing == [n \in {} |-> 0]

-----------------------------------------------------------------------------
(* The commands, as records of a name and arguments                        *)

Each(nums, name) == [i \in DOMAIN nums |-> Asks(name, <<nums[i]>>)]

CommandListConfigs == <<Asks("ListConfigs", <<>>)>>
CommandCreateConfig == <<Asks("CreateConfig", <<>>)>>
CommandDeleteConfig == <<Asks("DeleteConfig", <<>>)>>
CommandList == <<Asks("ListSnapshots", <<>>)>>
CommandCreate(type, nums) ==
  CASE type = "single" -> <<Asks("CreateSingleSnapshot", <<>>)>>
    [] type \in {"pre", "pre-post"} -> <<Asks("CreatePreSnapshot", <<>>)>>
    [] type = "post" -> <<Asks("CreatePostSnapshot", nums)>>
CommandModify(nums) ==
  [i \in 1..(2 * Len(nums)) |->
     Asks(IF i % 2 = 1 THEN "GetSnapshot" ELSE "SetSnapshot", <<nums[(i + 1) \div 2]>>)]
CommandMount(nums) == Each(nums, "MountSnapshot")
CommandUmount(nums) == Each(nums, "UmountSnapshot")
CommandCleanup == <<Asks("GetConfig", <<>>), Asks("ListSnapshots", <<>>)>>
CommandDebug == <<Asks("Debug", <<>>)>>

(* MyComparison, with or without mounts; number 0 is the running system    *)
MyComparison(nums, mount) ==
  <<Asks("CreateComparison", nums), Asks("GetMountPoint", <<0>>)>>
  \o (IF mount THEN Each(SelectSeq(nums, LAMBDA n : n # 0), "MountSnapshot") ELSE <<>>)
  \o <<Asks("GetFiles", nums)>>
CommandStatus(nums) == MyComparison(nums, FALSE)
CommandDiff(nums) == MyComparison(nums, TRUE)
CommandUndo(nums) == MyComparison(nums, TRUE)

(* main: the calls of a command that are known from the start              *)
Script(command) ==
  LET nums == command.nums
  IN  CASE command.name = "list-configs" -> CommandListConfigs
        [] command.name = "create-config" -> CommandCreateConfig
        [] command.name = "delete-config" -> CommandDeleteConfig
        [] command.name \in {"list", "delete"} -> CommandList
        [] command.name = "create" -> CommandCreate(command.type, nums)
        [] command.name = "modify" -> CommandModify(nums)
        [] command.name = "mount" -> CommandMount(nums)
        [] command.name = "umount" -> CommandUmount(nums)
        [] command.name = "status" -> CommandStatus(nums)
        [] command.name = "diff" -> CommandDiff(nums)
        [] command.name = "undochange" -> CommandUndo(nums)
        [] command.name = "cleanup" -> CommandCleanup
        [] command.name = "debug" -> CommandDebug

(* The numbers "delete" asks for: single numbers as they are, and those of *)
(* a range that are listed and not already asked for.                      *)
ToDelete(command, listed) ==
  command.nums
  \o SetToSortSeq(((command.from..command.to) \cap listed) \ Range(command.nums), <)

(* The calls that follow the answer to a call: "cleanup" deletes some of   *)
(* the snapshots listed (module Cleanup), one by one.                      *)
Follow(command, call, number, listed) ==
  CASE command.name = "delete" /\ call.name = "ListSnapshots" ->
         {<<Asks("DeleteSnapshots", ToDelete(command, listed))>>}
    [] command.name = "cleanup" /\ call.name = "ListSnapshots" ->
         {Each(SetToSortSeq(S, <), "DeleteSnapshots") : S \in SUBSET listed}
    [] command.name = "create" /\ command.type = "pre-post" /\ call.name = "CreatePreSnapshot" ->
         {<<Asks("CreatePostSnapshot", <<number>>)>>}
    [] OTHER -> {<<>>}

Init ==
  /\ plan \in Plans /\ online = DOMAIN plan /\ BusInit
  /\ todo = [c \in Client |-> IF c \in DOMAIN plan THEN Script(plan[c]) ELSE <<>>]
  /\ told = [c \in Client |-> Nothing]
  /\ config = TRUE /\ comparing = {} /\ background = FALSE
  /\ snapshots = [n \in DOMAIN FirstPairs |->
                    [type |-> FirstPairs[n].type, pre |-> FirstPairs[n].pre, birth |-> n]]
  /\ births = Max(DOMAIN FirstPairs \cup {0})

(* send_with_reply_and_block                                               *)
Ask(c) ==
  /\ todo[c] # <<>> /\ Send(c, Head(todo[c]))
  /\ todo' = [todo EXCEPT ![c] = Tail(@)]
  /\ UNCHANGED <<plan, told, storeVars>>

(* main returns, or the tool is killed while it waits.                     *)
Forgets(c) ==
  /\ todo' = [todo EXCEPT ![c] = <<>>] /\ told' = [told EXCEPT ![c] = Nothing]
  /\ plan' = Restrict(plan, DOMAIN plan \ {c}) /\ UNCHANGED storeVars
Quit(c) == c \notin DOMAIN waiting /\ todo[c] = <<>> /\ Leave(c) /\ Forgets(c)
Kill(c) == c \in Impatient \cap DOMAIN waiting /\ Leave(c) /\ Forgets(c)

-----------------------------------------------------------------------------
(* The daemon's side of the calls                                          *)

NextFree == Min((1..(Cardinality(DOMAIN snapshots) + 1)) \ DOMAIN snapshots)
NextNumber == IF snapshots = Nothing THEN 1 ELSE Max(DOMAIN snapshots) + 1
Exists(n) == n = 0 \/ n \in DOMAIN snapshots
HasPost(n) == \E m \in DOMAIN snapshots : snapshots[m].type = "post" /\ snapshots[m].pre = n
ConfigInUse == comparing # {} \/ background

Create(type, pre) ==
  /\ snapshots' = [n \in DOMAIN snapshots \cup {NextNumber} |->
                     IF n = NextNumber THEN [type |-> type, pre |-> pre, birth |-> births + 1]
                     ELSE snapshots[n]]
  /\ births' = births + 1 /\ UNCHANGED <<config, comparing>>

(* delete_snapshots deletes up to the first number that is not a snapshot. *)
Deleted(nums) ==
  LET good == {i \in 0..Len(nums) :
                 \A j \in 1..i : nums[j] \in DOMAIN snapshots \ Range(SubSeq(nums, 1, j - 1))}
  IN  Range(SubSeq(nums, 1, Max(good)))

Accepted(call) ==
  LET nums == call.nums
  IN  CASE call.name \in {"ListConfigs", "Debug"} -> TRUE
        [] call.name = "CreateConfig" -> ~config
        [] call.name = "DeleteConfig" -> config /\ ~ConfigInUse
        [] call.name \in {"GetConfig", "ListSnapshots", "CreateSingleSnapshot", "CreatePreSnapshot"} ->
             config
        [] call.name \in {"SetSnapshot", "MountSnapshot", "UmountSnapshot"} ->
             config /\ nums[1] \in DOMAIN snapshots
        [] call.name \in {"GetSnapshot", "GetMountPoint"} -> config /\ Exists(nums[1])
        [] call.name = "CreatePostSnapshot" ->
             /\ config /\ nums[1] \in DOMAIN snapshots
             /\ snapshots[nums[1]].type = "pre" /\ ~HasPost(nums[1])
        [] call.name = "DeleteSnapshots" ->
             config /\ ~ConfigInUse /\ Deleted(nums) = Range(nums)
        [] call.name \in {"CreateComparison", "GetFiles"} ->
             config /\ \A i \in DOMAIN nums : Exists(nums[i])

Effect(c, call) ==
  CASE call.name \in {"CreateSingleSnapshot", "CreatePreSnapshot", "CreatePostSnapshot"} /\ Accepted(call) ->
         /\ Create(CASE call.name = "CreateSingleSnapshot" -> "single"
                     [] call.name = "CreatePreSnapshot" -> "pre"
                     [] OTHER -> "post",
                   IF call.nums = <<>> THEN 0 ELSE call.nums[1])
         /\ background' = (background \/ call.name = "CreatePostSnapshot")
    [] call.name = "DeleteSnapshots" /\ config /\ ~ConfigInUse ->
         /\ snapshots' = Restrict(snapshots, DOMAIN snapshots \ Deleted(call.nums))
         /\ UNCHANGED <<config, births, comparing, background>>
    [] call.name = "CreateConfig" /\ Accepted(call) ->
         config' = TRUE /\ UNCHANGED <<snapshots, births, comparing, background>>
    [] call.name = "DeleteConfig" /\ Accepted(call) ->
         config' = FALSE /\ snapshots' = Nothing /\ UNCHANGED <<births, comparing, background>>
    [] call.name = "CreateComparison" /\ Accepted(call) ->
         comparing' = comparing \cup {c} /\ UNCHANGED <<config, snapshots, births, background>>
    [] OTHER -> UNCHANGED storeVars

(* What the tool learns from the answer: an error ends the command.  It    *)
(* goes by one list, or by one snapshot, at a time: command_modify gets    *)
(* each snapshot just before it sets it.                                   *)
Telling == {"ListSnapshots", "GetSnapshot", "CreatePreSnapshot"}
News(call) ==
  CASE call.name = "ListSnapshots" -> [n \in DOMAIN snapshots |-> snapshots[n].birth]
    [] call.name = "GetSnapshot" /\ call.nums[1] # 0 ->
         [n \in {call.nums[1]} |-> snapshots[n].birth]
    [] call.name = "CreatePreSnapshot" -> [n \in {NextNumber} |-> births + 1]
    [] OTHER -> Nothing

Hear(c, call) ==
  IF c \notin online \/ c \notin DOMAIN waiting THEN UNCHANGED toolVars
  ELSE IF ~Accepted(call)
  THEN todo' = [todo EXCEPT ![c] = <<>>] /\ UNCHANGED <<plan, told>>
  ELSE /\ told' = IF call.name \in Telling THEN [told EXCEPT ![c] = News(call)] ELSE told
       /\ \E more \in Follow(plan[c], call, NextNumber, DOMAIN snapshots) :
            todo' = [todo EXCEPT ![c] = more \o @]
       /\ UNCHANGED plan

Work(c) == Serve(c) /\ Effect(c, Task(c)) /\ Hear(c, Task(c))

(* ~Client deletes the comparisons of a client whose entry is removed.     *)
PollLoop ==
  /\ Poll(background) /\ comparing' = comparing \cap DOMAIN clients'
  /\ UNCHANGED <<toolVars, config, snapshots, births, background>>

(* Clients that wait get the error NoReply.                                *)
ExitLoop ==
  /\ Exit /\ todo' = [c \in Client |-> IF c \in DOMAIN waiting THEN <<>> ELSE todo[c]]
  /\ UNCHANGED <<plan, told, storeVars>>

BackgroundEnds ==
  /\ background /\ background' = FALSE
  /\ UNCHANGED <<busVars, toolVars, config, snapshots, births, comparing>>

StartLoop == Start /\ UNCHANGED <<toolVars, storeVars>>
TickLoop == Tick /\ UNCHANGED <<toolVars, storeVars>>
HandleLoop == Handle /\ UNCHANGED <<toolVars, storeVars>>

Run(c) == Ask(c) \/ Quit(c)
MainLoop == StartLoop \/ PollLoop \/ HandleLoop \/ ExitLoop

Next ==
  \/ \E c \in Client : Run(c) \/ Kill(c) \/ Work(c)
  \/ MainLoop \/ TickLoop \/ BackgroundEnds

(* Tools do not stop half way, threads are scheduled, comparisons end.     *)
Fairness ==
  /\ \A c \in Client : WF_vars(Run(c)) /\ WF_vars(Work(c))
  /\ WF_vars(MainLoop) /\ WF_vars(BackgroundEnds)

Spec == Init /\ [][Next]_vars /\ Fairness

-----------------------------------------------------------------------------
(* Properties                                                              *)

(* A message libdbus has queued is dispatched without waiting for another  *)
(* one: the loop reads one byte of the pipe and dispatches one message per *)
(* turn, and while it sleeps there is a byte left for each message.        *)
QueueWakesLoop == at = "poll" /\ incoming # <<>> => pipe > 0

(* The daemon leaves only when no client is registered, no background      *)
(* comparison is under way and no message it has read is unanswered.       *)
LeavesNothing ==
  [][at # "off" /\ at' = "off" => clients = Nothing /\ ~background /\ incoming = <<>>]_vars

(* A client whose going has been told to the daemon is forgotten, and its  *)
(* comparisons no longer keep the config in use.                           *)
Told(c) == NameOwnerChanged(c) \in Range(socket) \cup Range(incoming)
GoneForgotten == \A c \in Client : Told(c) ~> c \notin DOMAIN clients \cup comparing

(* Every command comes to its end, whatever the other clients do.          *)
CommandsEnd == <>(online = {})

(* A tool may ask for a snapshot it has been told of when another one has  *)
(* that number by now.  But this only happens at the end of the list: of   *)
(* what the tool has been told of higher numbers nothing is true any more, *)
(* and no snapshot that was there before the one that is hit is above it.  *)
Mistaken(c, n) ==
  n \in DOMAIN told[c] \cap DOMAIN snapshots /\ told[c][n] # snapshots[n].birth
MistakenOnlyAtEnd ==
  \A c \in DOMAIN waiting : \A n \in Range(waiting[c].nums) :
    Mistaken(c, n) => \A m \in DOMAIN snapshots :
                        m > n => /\ m \in DOMAIN told[c] => Mistaken(c, m)
                                 /\ snapshots[m].birth > snapshots[n].birth

=============================================================================
