------------------------------ MODULE MCScreen ------------------------------
(***************************************************************************)
(* An instance of Screen for TLC: pods of two namespaces, terminals with   *)
(* and without a sidebar, and fleets of none to five nodes.                *)
(***************************************************************************)
EXTENDS Screen, TLC

CONSTANTS a1, a2, a3, b1

AllPods == {a1, a2, a3, b1}
OneRanking == {<<a1, b1, a2, a3>>}
NoMatch == {{}}

MCNamespaceOf == (a1 :> "a") @@ (a2 :> "a") @@ (a3 :> "a") @@ (b1 :> "b")
MCWorkloadOf == (a1 :> "x") @@ (a2 :> "y") @@ (a3 :> "x") @@ (b1 :> "x")

Compact == 3
Detailed == 5
ColumnsAt(few, many) == (Compact :> many) @@ (Detailed :> few)

Terminal(height, banner, sidebar, columns) ==
  [height |-> height, banner |-> banner, sidebar |-> sidebar, columns |-> columns]

SomeTerminals ==
  {Terminal(15, 6, 0, ColumnsAt(1, 1)), Terminal(18, 5, 0, ColumnsAt(1, 2)),
   Terminal(24, 5, 64, ColumnsAt(1, 1)), Terminal(50, 6, 72, ColumnsAt(2, 2))}

Info == [os |-> "linux", arch |-> "amd64", osImage |-> "Bottlerocket", kubelet |-> "v1.31.2", runtime |-> "containerd"]
NoInfo == [f \in DOMAIN Info |-> ""]

Bare(alias) == [labels |-> <<>>, provider |-> "", alias |-> alias, machine |-> "", info |-> NoInfo]
Kind(alias) == [Bare(alias) EXCEPT !.info = Info]
Cloud(alias, provider, machine, labels) ==
  [labels |-> labels @@ ("instance-type" :> "m5.xlarge") @@ ("region" :> "eu-west-1"),
   provider |-> provider, alias |-> alias, machine |-> machine, info |-> Info]

Eks(alias) == Cloud(alias, "aws", "i-0123456789abcdef0",
  ("eks-nodegroup" :> "general-purpose-pool") @@ ("eks-capacity" :> "on-demand") @@ ("zone" :> "eu-west-1a"))
Karpenter(alias) == Cloud(alias, "azure", "vm-3", "karpenter-nodepool" :> "default")
Gke(alias) == Cloud(alias, "gce", "gke-1", ("gke-nodepool" :> "pool") @@ ("gke-spot" :> "true"))

SomeFleets ==
  {<<>>, <<Bare("node-1")>>, <<Kind("node-1"), Eks("node-2")>>,
   <<Gke("node-1"), Karpenter("node-2"), Eks("node-3"), Gke("node-4"), Eks("node-5")>>}

(* No property of the screen reads what was painted but through frame, and *)
(* of that, when a View is over, only these two; nothing reads how long a  *)
(* message was that is over.                                               *)
FramePasses == <<ScreenFits, FleetFitsItsBudget>>

LiveScreen ==
  <<live, order, paused, viewVars, selected, pinned, page, doing, status, reading,
    IF CurrentStatus THEN statusLines ELSE 0, terminal, fleet, messages,
    IF doing = Idle THEN FramePasses ELSE frame>>
=============================================================================
