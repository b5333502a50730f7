------------------------------ MODULE NodeFleet ------------------------------
(***************************************************************************)
(* The metadata of nodes and the fleet panel of the sidebar                *)
(* (pkg/model/node.go, node_fleet.go, node_fleet_render.go) as operators.  *)
(*                                                                         *)
(* A node is a record: its labels, a function from the names of those that *)
(* are not blank; its provider, the scheme of its provider ID, and machine,*)
(* the ID's last segment; info, its NodeInfo.  A blank text is "".  A label *)
(* stands for its beta form too.                                           *)
(***************************************************************************)
EXTENDS Lists

-----------------------------------------------------------------------------
(* Details of a node *)

Label(node, name) == IF name \in DOMAIN node.labels THEN node.labels[name] ELSE ""

FirstNonEmpty(texts) ==
  LET filled == SelectSeq(texts, LAMBDA t : t # "")
  IN  IF filled = <<>> THEN "" ELSE filled[1]

PoolLabels == <<"eks-nodegroup", "gke-nodepool", "aks-agentpool",
                "karpenter-nodepool", "karpenter-provisioner">>

CloudPlatform(node, own, ofAws, ofGce, ofAzure) ==
  CASE node.provider = "aws" -> ofAws
    [] node.provider = "gce" -> ofGce
    [] node.provider = "azure" -> ofAzure
    [] OTHER -> own

(* nodePlatform: the labels of a managed node group first, then Karpenter, *)
(* which is on top of some cloud, then the machine's cloud.                *)
Platform(node) ==
  LET Has(name) == Label(node, name) # ""
  IN  IF Has("eks-nodegroup") \/ Has("eks-image") \/ Has("eks-capacity") THEN "EKS"
      ELSE IF Has("gke-nodepool") THEN "GKE"
      ELSE IF Has("aks-agentpool") THEN "AKS"
      ELSE IF Has("karpenter-nodepool") \/ Has("karpenter-provisioner")
        THEN CloudPlatform(node, "Karpenter", "EKS", "GKE", "AKS")
      ELSE CloudPlatform(node, "Kubernetes", "AWS", "GCP", "Azure")

(* nodePool *)
Pool(node) == FirstNonEmpty([i \in DOMAIN PoolLabels |-> Label(node, PoolLabels[i])])

(* nodeCapacityType; its spelling in lower case is left out. *)
CapacityType(node) ==
  FirstNonEmpty(<<Label(node, "eks-capacity"), Label(node, "karpenter-capacity"),
                  Label(node, "gke-provisioning"), Label(node, "aks-priority"),
                  IF Label(node, "gke-spot") = "true" THEN "spot" ELSE "">>)

(* nodeArchLabel *)
ArchLabel(os, arch) ==
  IF os # "" /\ arch # "" THEN os \o "/" \o arch ELSE FirstNonEmpty(<<arch, os>>)

(* Details, with what the columns of the panel read. *)
Details(node) ==
  LET os == FirstNonEmpty(<<Label(node, "os"), node.info.os>>)
      arch == FirstNonEmpty(<<Label(node, "arch"), node.info.arch>>)
  IN  [platform |-> Platform(node), alias |-> node.alias, machine |-> node.machine,
       instance |-> Label(node, "instance-type"), capacity |-> CapacityType(node),
       pool |-> Pool(node), region |-> Label(node, "region"), zone |-> Label(node, "zone"),
       place |-> FirstNonEmpty(<<Label(node, "zone"), Label(node, "region")>>),
       image |-> FirstNonEmpty(<<Label(node, "eks-image"), Label(node, "node-image")>>),
       system |-> ArchLabel(os, arch),
       osImage |-> node.info.osImage, kubelet |-> node.info.kubelet, runtime |-> node.info.runtime]

-----------------------------------------------------------------------------
(* The fleet: a sequence of Details *)

(* platformProfiles, by specificity *)
Profiles == <<"EKS", "GKE", "AKS", "Karpenter", "AWS", "GCP", "Azure", "Kubernetes">>

PoolTitle(platform) ==
  CASE platform = "EKS" -> "NODEGROUP"
    [] platform \in {"GKE", "Karpenter"} -> "NODEPOOL"
    [] platform = "AKS" -> "AGENTPOOL"
    [] OTHER -> "POOL"

PlatformRank(platform) == CHOOSE i \in DOMAIN Profiles : Profiles[i] = platform

Platforms(fleet) == {fleet[i].platform : i \in DOMAIN fleet}

NodesOf(fleet, platform) == Cardinality({i \in DOMAIN fleet : fleet[i].platform = platform})

(* Mutant: among as many nodes the platform that comes later wins. *)
LastDominantPlatform(fleet, order) ==
  LET best[i \in 1..Len(order)] ==
        IF i = 1 THEN order[1]
        ELSE LET b == best[i - 1]
             IN  IF NodesOf(fleet, order[i]) >= NodesOf(fleet, b) THEN order[i] ELSE b
  IN  IF order = <<>> THEN "" ELSE best[Len(order)]

(* dominantPlatform: the loop over a Go map takes the platforms in any     *)
(* order.                                                                  *)
DominantPlatform(fleet, order) ==
  LET IsBetter(p, b) ==
        \/ NodesOf(fleet, p) > NodesOf(fleet, b)
        \/ NodesOf(fleet, p) = NodesOf(fleet, b) /\ PlatformRank(p) < PlatformRank(b)
      best[i \in 1..Len(order)] ==
        IF i = 1 THEN order[1]
        ELSE LET b == best[i - 1] IN IF IsBetter(order[i], b) THEN order[i] ELSE b
  IN  IF order = <<>> THEN "" ELSE best[Len(order)]

(* The values of a field, without the blank ones: sortedFleetCounts. *)
Counted(fleet, field) == {fleet[i][field] : i \in DOMAIN fleet} \ {""}

RollupFields(details) ==
  {"pool", "capacity", "instance", "zone", "kubelet"} \cup
  (IF details THEN {"region", "system", "image", "osImage", "runtime"} ELSE {})

(* fleetRollupLines: a line for each field that any node has. *)
RollupLines(fleet, details) ==
  Cardinality({f \in RollupFields(details) : Counted(fleet, f) # {}})

-----------------------------------------------------------------------------
(* The panel *)

ColumnGap == 2

Titles == {"NODE", "MACHINE", "INSTANCE", "CAPACITY", "ZONE", "ARCH", "KUBELET",
           "NODEGROUP", "NODEPOOL", "AGENTPOOL", "POOL"}

Candidates(platform, details) ==
  LET C(title, field, most) == [title |-> title, field |-> field, width |-> most]
  IN  <<C("NODE", "alias", 20)>> \o
      (IF details THEN <<C("MACHINE", "machine", 21)>> ELSE <<>>) \o
      <<C("INSTANCE", "instance", 16), C("CAPACITY", "capacity", 10), C("ZONE", "place", 16),
        C(PoolTitle(platform), "pool", 18), C("ARCH", "system", 14), C("KUBELET", "kubelet", 22)>>

(* The widest of the title and the values, up to the candidate's width. *)
ColumnWidth(fleet, column) ==
  LET lengths == {Len(column.title)} \cup {Len(v) : v \in Counted(fleet, column.field)}
      widest == CHOOSE n \in lengths : \A m \in lengths : m <= n
  IN  IF widest > column.width THEN column.width ELSE widest

Populated(fleet, platform, details) ==
  LET candidates == Candidates(platform, details)
  IN  Only(candidates, {c \in Range(candidates) : Counted(fleet, c.field) # {}})

Width(columns) ==
  LET upTo[i \in 0..Len(columns)] == IF i = 0 THEN 0 ELSE upTo[i - 1] + columns[i].width
  IN  upTo[Len(columns)] + ColumnGap * (Len(columns) - 1)

(* Mutant: a column that does not fit gives way to the next that does. *)
FleetColumnsThatFit(fleet, platform, details, innerWidth) ==
  FoldLeft(LAMBDA columns, c :
             LET wider == Append(columns, [c EXCEPT !.width = ColumnWidth(fleet, c)])
             IN  IF Width(wider) <= innerWidth THEN wider ELSE columns,
           <<>>, Populated(fleet, platform, details))

(* fleetColumns: the first of the populated columns, as many as fit. *)
FleetColumns(fleet, platform, details, innerWidth) ==
  LET candidates == Populated(fleet, platform, details)
      columns == [i \in DOMAIN candidates |->
                    [candidates[i] EXCEPT !.width = ColumnWidth(fleet, candidates[i])]]
      fits == {n \in DOMAIN columns : Width(SubSeq(columns, 1, n)) <= innerWidth}
  IN  SubSeq(columns, 1, Cardinality(fits))

NoPlan == [rows |-> 0, hidden |-> 0, rollup |-> 0, lines |-> 0]

(* Mutant: no line is kept for the notice of the hidden nodes. *)
PlanWithoutNotice(nodes, rollup, maxLines) ==
  LET chrome == 3 + (IF rollup > 0 THEN 1 + rollup ELSE 0)
      available == maxLines - chrome
      Plan(rows) == [rows |-> rows, hidden |-> nodes - rows, rollup |-> rollup,
                     lines |-> chrome + rows + (IF rows < nodes THEN 1 ELSE 0)]
  IN  IF available < 1 THEN NoPlan ELSE Plan(IF nodes <= available THEN nodes ELSE available)

(* plan: the rows that fit, with one line for "+N more nodes". *)
PlanRows(nodes, rollup, maxLines) ==
  LET chrome == 3 + (IF rollup > 0 THEN 1 + rollup ELSE 0)
      available == maxLines - chrome
      Plan(rows) == [rows |-> rows, hidden |-> nodes - rows, rollup |-> rollup,
                     lines |-> chrome + rows + (IF rows < nodes THEN 1 ELSE 0)]
  IN  IF nodes <= available THEN Plan(nodes)
      ELSE IF available < 2 THEN NoPlan
      ELSE Plan(available - 1)

(* renderNodeFleetPanel: the rollup goes when less than three of more      *)
(* nodes would be shown, and when that is not enough there is no panel.    *)
FleetPlan(fleet, details, innerWidth, platform, maxLines) ==
  LET rollup == RollupLines(fleet, details)
      full == PlanRows(Len(fleet), rollup, maxLines)
      slim == PlanRows(Len(fleet), 0, maxLines)
  IN  IF fleet = <<>> \/ innerWidth < 12
           \/ FleetColumns(fleet, platform, details, innerWidth) = <<>> THEN NoPlan
      ELSE IF rollup > 0 /\ (full = NoPlan \/ (full.hidden > 0 /\ full.rows < 3)) /\ slim # NoPlan
        THEN slim
      ELSE full
=============================================================================
