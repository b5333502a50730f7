---------------------------- MODULE MCPodActions ----------------------------
(***************************************************************************)
(* An instance of PodActions for TLC: a pod of a Deployment with one       *)
(* container, and a bare pod with two.                                     *)
(***************************************************************************)
EXTENDS PodActions, TLC

CONSTANTS a, b

TwoPods == {a, b}
OneRanking == {<<a, b>>}
TwoQueries == {{b}, {a, b}}

MCNamespaceOf == a :> "n" @@ b :> "n"
MCWorkloadOf == a :> "x" @@ b :> "y"
MCContainers == a :> 1 @@ b :> 2
MCScalable == {a}

(* What a closed dialog leaves behind is written before it is read again;  *)
(* of what was painted, what matters is whether it asks for what Confirm   *)
(* would do, and the pod selected until the popup is painted.  When all    *)
(* the commands were started nothing is confirmed any more, and the        *)
(* replicas are as the last scale has left them.                           *)
AllStarted == asked.commands = MaxCommands
AsksToConfirm ==
  popup.pod # Nil => popup.dialog = "confirm" /\ popup.action = confirmAction /\ popup.index = 0
ScalesRun == \E i \in DOMAIN commands : commands[i].action \in ScaleActions

LiveState ==
  [list |-> <<live, order, paused, viewVars, selected, pinned, page, doing>>,
   menu |-> IF Dialog \in {"menu", "container", "confirm"} THEN menuVars ELSE <<>>,
   painted |-> IF doing = FooterDue THEN shown.selected ELSE Nil,
   confirm |-> IF confirmActionOpen THEN <<confirmVars, AllStarted \/ AsksToConfirm>> ELSE <<>>,
   container |-> IF containerMenuOpen THEN containerVars ELSE <<>>,
   viewer |-> IF viewer.open THEN viewer ELSE NoViewer,
   commands |-> IF AllStarted /\ ~ScalesRun THEN <<commands, NoScaleBeyondConfirmed>> ELSE commandVars]
=============================================================================
