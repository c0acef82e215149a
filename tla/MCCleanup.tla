----------------------------- MODULE MCCleanup -----------------------------
(* Values of the constants of Cleanup for model checking.                  *)
EXTENDS Cleanup

(* Two moments make an hour, two hours a day, two days a month, two months *)
(* a year.                                                                 *)
Calendar == <<2, 4, 8, 16>>
OneEach == <<1, 1, 1, 1>>

A(type, cleanup, same) == [type |-> type, cleanup |-> cleanup, same |-> same]
TimelineKinds == {A("single", "timeline", FALSE)}
NumberKinds == {A("pre", "number", FALSE), A("post", "number", TRUE), A("pre", "", FALSE)}
PairKinds == {A("pre", "", FALSE), A("post", "", FALSE), A("post", "", TRUE)}
=============================================================================
