------------------------------ MODULE MCPodList ------------------------------
(***************************************************************************)
(* Instances of PodList for TLC: three pods of two namespaces.             *)
(***************************************************************************)
EXTENDS PodList, TLC

CONSTANTS a1, a2, b1

SomePods == {a1, a2, b1}
SomeRankings == {<<a1, b1, a2>>, <<b1, a2, a1>>}
SomeQueries == {SomePods, {a2, b1}, {a1}}

MCNamespaceOf == (a1 :> "a") @@ (a2 :> "a") @@ (b1 :> "b")
MCWorkloadOf == (a1 :> "x") @@ (a2 :> "y") @@ (b1 :> "x")

(* Of what was painted no step reads more than its footer and its order,   *)
(* and no property more than the order of a flat list and whether the      *)
(* selected pod was on the page.                                           *)
LiveList ==
  <<live, order, paused, viewVars, selected, pinned, page, doing, SelectionIsOnPage,
    IF shown.mode = "flat" THEN <<shown.rows, shown.kept>> ELSE <<>>>>
=============================================================================
