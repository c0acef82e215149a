------------------------------- MODULE MCTool -------------------------------
(* Small instances of Tool for TLC.                                        *)
EXTENDS Tool

CONSTANTS t1, t2, t3

Command(name, type, nums, from, to) ==
  [name |-> name, type |-> type, nums |-> nums, from |-> from, to |-> to]
Numbered(name, nums) == Command(name, "", nums, 1, 0)
Plain(name) == Numbered(name, <<>>)
Ranged(from, to) == Command("delete", "", <<>>, from, to)
Creates(type, nums) == Command("create", type, nums, 1, 0)

(* A pre snapshot without a post and a single snapshot                     *)
TwoSnapshots == 1 :> [type |-> "pre", pre |-> 0] @@ 2 :> [type |-> "single", pre |-> 0]

(* Three tools of which two change the list while the first relies on it,  *)
(* or two tools with most of the other commands.                           *)
SomePlans ==
  {t1 :> Ranged(2, 2) @@ t2 :> Numbered("delete", <<2>>) @@ t3 :> Creates("single", <<>>),
   t1 :> Numbered("modify", <<1>>) @@ t2 :> Numbered("delete", <<1>>) @@ t3 :> Creates("single", <<>>),
   t1 :> Creates("pre-post", <<>>) @@ t2 :> Numbered("delete", <<3>>) @@ t3 :> Creates("pre", <<>>)}
  \cup
  {t1 :> command @@ t2 :> Numbered("delete", <<2, 1>>) :
     command \in {Creates("pre-post", <<>>), Plain("cleanup"), Numbered("diff", <<0, 1>>),
                  Creates("post", <<1>>), Numbered("mount", <<1>>), Plain("list")}}
  \cup
  {t1 :> command @@ t2 :> Plain("delete-config") :
     command \in {Plain("create-config"), Numbered("umount", <<1>>), Creates("pre", <<>>), Plain("debug"),
                  Plain("list-configs"), Numbered("status", <<1, 2>>), Numbered("undochange", <<1, 0>>)}}

ToolCall == {}
=============================================================================
