----------------------------- MODULE SnapshotSet -----------------------------
(***************************************************************************)
(* What the snapshot store of a config promises, whatever fails and        *)
(* whenever the daemon dies: module SnapshotStore implements it.           *)
(* `durable' is the set of snapshots a newly started daemon would list.    *)
(* One call changes at most one of them, a number is never taken over from *)
(* a snapshot that is still there, nothing but its information text ever   *)
(* changes, and a call is only answered "ok" after it has taken effect.    *)
(* An error answer promises nothing about the call's own effect, but       *)
(* nothing else has happened either.                                       *)
(***************************************************************************)
EXTENDS Functions

CONSTANT Num   \* snapshot numbers

VARIABLES
  durable,    \* what would be listed: from number to type, pre_num and text
  call,       \* the call being served, its snapshot and its result so far
  unwritten   \* snapshots whose changed text is yet to be written

vars == <<durable, call, unwritten>>

Kinds == {"create", "set", "delete", "create_config", "delete_config"}
NoCall == [kind |-> "none", num |-> 0, result |-> "none"]
Serving(kind) == call.kind = kind /\ call.result = "none"

Init ==
  /\ durable = [n \in {} |-> 0] /\ unwritten = {}
  /\ call = NoCall

(* Only the texts of the snapshots N change.                               *)
Rewrite(N) ==
  /\ DOMAIN durable' = DOMAIN durable
  /\ \A n \in DOMAIN durable :
       /\ n \notin N => durable'[n] = durable[n]
       /\ durable'[n].type = durable[n].type /\ durable'[n].pre_num = durable[n].pre_num

(* Some calls are refused at once.                                         *)
Begin(kind, n, result) ==
  /\ call = NoCall
  /\ call' = [kind |-> kind, num |-> n, result |-> result]
  /\ UNCHANGED <<durable, unwritten>>

(* A snapshot is created with its first text; Succeed adds the rest.       *)
Appear(n) ==
  /\ Serving("create") /\ n \notin DOMAIN durable
  /\ DOMAIN durable' = DOMAIN durable \cup {n}
  /\ Restrict(durable', DOMAIN durable) = durable
  /\ call' = [call EXCEPT !.num = n]
  /\ UNCHANGED unwritten

(* A snapshot of the call is deleted.                                      *)
Vanish(kind) ==
  /\ Serving(kind)
  /\ \E n \in DOMAIN durable :
       /\ kind = "delete" => n = call.num
       /\ durable' = Restrict(durable, DOMAIN durable \ {n})
  /\ UNCHANGED <<call, unwritten>>

(* A text is changed, but is not written, or no longer needs to be.      *)
Remembered == unwritten' \in {unwritten, unwritten \cup {call.num}, unwritten \ {call.num}}

(* A "set" may find a snapshot whose deletion has failed half way.         *)
Succeed(kind) ==
  /\ Serving(kind) /\ kind # "delete_config"
  /\ kind = "create" => call.num \in DOMAIN durable
  /\ kind = "delete" => call.num \notin DOMAIN durable
  /\ IF kind \in {"create", "set"} THEN Rewrite({call.num}) ELSE UNCHANGED durable
  /\ call' = [call EXCEPT !.result = "ok"]
  /\ Remembered

(* The config is forgotten, with the texts that could still be written.    *)
Forget ==
  /\ Serving("delete_config")
  /\ Rewrite(unwritten) /\ unwritten' = {}
  /\ call' = [call EXCEPT !.result = "ok"]

Fail(kind) ==
  /\ Serving(kind)
  /\ call' = [call EXCEPT !.result = "error"]
  /\ Remembered
  /\ UNCHANGED durable

Return ==
  /\ call.result # "none"
  /\ call' = NoCall
  /\ UNCHANGED <<durable, unwritten>>

(* Texts of calls answered "error" may still be written later.             *)
WriteLate ==
  /\ call = NoCall
  /\ Rewrite(unwritten) /\ unwritten' = {}
  /\ UNCHANGED call

(* The daemon dies, perhaps while writing them.                            *)
Restart ==
  /\ call' = NoCall /\ unwritten' = {}
  /\ \/ UNCHANGED durable
     \/ Rewrite(unwritten) /\ (call = NoCall \/ Serving("delete_config"))

Next ==
  \/ \E kind \in Kinds, n \in Num \cup {0}, result \in {"none", "error"} : Begin(kind, n, result)
  \/ \E n \in Num : Appear(n)
  \/ Vanish("delete") \/ Vanish("delete_config")
  \/ \E kind \in Kinds : Succeed(kind) \/ Fail(kind)
  \/ Forget \/ Return \/ WriteLate \/ Restart

Spec == Init /\ [][Next]_vars

=============================================================================
