--------------------------- MODULE MCMetricsPoller ---------------------------
(***************************************************************************)
(* Instances of MetricsPoller for TLC: two pods, on a node each.           *)
(***************************************************************************)
EXTENDS MetricsPoller, TLC

CONSTANTS p1, p2, n1, n2

MCNodeOf == (p1 :> n1) @@ (p2 :> n2)
=============================================================================
