----------------------------- MODULE PodActions -----------------------------
(***************************************************************************)
(* The dialogs over the pod list (pkg/model/pod_actions.go): the action    *)
(* menu, the container picker, the confirmation and the output viewer, and *)
(* the kubectl commands that they start.                                   *)
(*                                                                         *)
(* A dialog does not hold its pod: each key asks the list which pod is     *)
(* selected now.  Commands run in goroutines of their own and answer in    *)
(* any order.                                                              *)
(***************************************************************************)
EXTENDS PodList

CONSTANTS
  Containers,  \* Pod.Containers: how many each pod has
  Scalable,    \* the pods with a scalableWorkloadRef
  Replicas,    \* spec.replicas of the workload at the start
  MaxCommands  \* bound: commands started

ASSUME PodsHaveContainers == Containers \in [Pod -> Nat \ {0}]
ASSUME ScalableArePods == Scalable \subseteq Pod
ASSUME BoundsAreNat == {Replicas, MaxCommands} \subseteq Nat

VARIABLES
  actionMenuOpen, actionMenuIndex,
  confirmActionOpen, confirmActionIndex, confirmAction,
  containerMenuOpen, containerMenuIndex, pendingAction,
  viewer,   \* viewerOpen, viewerLoading, viewerTitle, viewerBody
  commands, \* the kubectl commands that run, in the order they started
  replicas, \* spec.replicas of the workload of the scalable pods
  asked,    \* history: replicas at the start; downs, ups and commands confirmed
  popup     \* history: the list painted last: its selected pod, and the popup over it

menuVars == <<actionMenuOpen, actionMenuIndex>>
confirmVars == <<confirmActionOpen, confirmActionIndex, confirmAction>>
containerVars == <<containerMenuOpen, containerMenuIndex, pendingAction>>
dialogVars == <<menuVars, confirmVars, containerVars, viewer>>
commandVars == <<commands, replicas, asked>>
vars == <<listVars, dialogVars, commandVars, popup>>

Inspect == {"exec", "logs", "describe"}
ScaleActions == {"scale_down", "scale_up"}
DangerousActions == ScaleActions \cup {"kill"}
Actions == Inspect \cup DangerousActions

(* displayedPodActionOptions *)
Options(p) ==
  <<"exec", "logs", "describe">> \o
  (IF p \in Scalable THEN <<"scale_down", "scale_up">> ELSE <<>>) \o <<"kill">>

NoViewer == [open |-> FALSE, loading |-> FALSE, title |-> Nil, body |-> Nil]
NoPopup == [dialog |-> "none", action |-> "none", index |-> 0, pod |-> Nil]

-----------------------------------------------------------------------------
(* The dialog that a key goes to, by the order of Update *)

Dialog ==
  IF viewer.open THEN "viewer"
  ELSE IF confirmActionOpen THEN "confirm"
  ELSE IF containerMenuOpen THEN "container"
  ELSE IF actionMenuOpen THEN "menu"
  ELSE "list"

DialogKey(dialog) == Key("menu") /\ Dialog = dialog /\ UNCHANGED <<viewVars, popup>>

(* closeMenus *)
CloseMenus ==
  /\ actionMenuOpen' = FALSE /\ confirmActionOpen' = FALSE /\ containerMenuOpen' = FALSE
  /\ confirmActionIndex' = 0
  /\ UNCHANGED <<actionMenuIndex, confirmAction, containerMenuIndex, pendingAction>>

(* The start of every handler: the list is built anew, which may move the  *)
(* selection; without a pod, the dialogs close.                            *)
NothingSelected(s) ==
  /\ s.selected = Nil
  /\ CloseMenus
  /\ Return
  /\ UNCHANGED <<viewer, commandVars>>

OpenActionMenu ==
  /\ actionMenuOpen' = TRUE
  /\ confirmActionOpen' = FALSE /\ confirmActionIndex' = 0
  /\ UNCHANGED <<actionMenuIndex, confirmAction, containerVars, viewer, commandVars>>

-----------------------------------------------------------------------------
(* startPodAction *)

Title(action, p) == <<action, p>>

Count(actions, action) == IF action \in actions THEN 1 ELSE 0

(* startPodAction: logs and describe open the viewer at once. *)
StartPodAction(action, p) ==
  /\ asked.commands < MaxCommands
  /\ commands' = Append(commands, [action |-> action, pod |-> p, read |-> Nil])
  /\ viewer' = IF action \in {"logs", "describe"}
                 THEN [open |-> TRUE, loading |-> TRUE, title |-> Title(action, p), body |-> Nil]
                 ELSE viewer
  /\ asked' = [asked EXCEPT !.commands = @ + 1,
                            !.downs = @ + Count({"scale_down"}, action),
                            !.ups = @ + Count({"scale_up"}, action)]
  /\ Return
  /\ UNCHANGED replicas

-----------------------------------------------------------------------------
(* Keys *)

NoDialogs == Dialog = "list"

(* openActionMenu *)
EnterKey ==
  /\ DialogKey("list") /\ ~filtering
  /\ LET s == Build(TRUE)
     IN  IF s.selected = Nil
           THEN Keep(s) /\ UNCHANGED dialogVars
           ELSE /\ Select(s, s.selected, s.page)
                /\ actionMenuOpen' = TRUE /\ actionMenuIndex' = 0
                /\ UNCHANGED <<confirmVars, containerVars, viewer>>
  /\ Return
  /\ UNCHANGED commandVars

(* Mutant: the index may move below the last option. *)
CanMovePastEnd(index, step, length) == IF step < 0 THEN index > 0 ELSE index < length

CanMove(index, step, length) == IF step < 0 THEN index > 0 ELSE index < length - 1

(* handleActionMenuKey.  A choice is resolved in a step of its own. *)
MenuArrow(s, step) ==
  /\ CanMove(actionMenuIndex, step, Len(Options(s.selected)))
  /\ actionMenuIndex' = actionMenuIndex + step
  /\ Return
  /\ UNCHANGED <<actionMenuOpen, confirmVars, containerVars>>

MenuChoose(s, index) ==
  /\ index < Len(Options(s.selected))
  /\ actionMenuIndex' = index
  /\ doing' = [op |-> "resolve", arg |-> Options(s.selected)[index + 1]]
  /\ UNCHANGED <<actionMenuOpen, confirmVars, containerVars>>

ActionMenuKey ==
  /\ DialogKey("menu")
  /\ LET s == Build(TRUE)
     IN  /\ Keep(s)
         /\ \/ NothingSelected(s)
            \/ /\ s.selected # Nil
               /\ \/ CloseMenus /\ Return
                  \/ \E step \in {-1, 1} : MenuArrow(s, step)
                  \/ \E index \in 0..5 : MenuChoose(s, index)
               /\ UNCHANGED <<viewer, commandVars>>

(* Mutant: the action menu stays open under the container picker. *)
PickContainerOverMenu(action) ==
  /\ pendingAction' = action /\ containerMenuIndex' = 0
  /\ containerMenuOpen' = TRUE
  /\ Return
  /\ UNCHANGED <<menuVars, confirmVars, viewer, commandVars>>

(* resolvePodAction asks for the selected pod once more. *)
PickContainer(action) ==
  /\ pendingAction' = action /\ containerMenuIndex' = 0
  /\ containerMenuOpen' = TRUE /\ actionMenuOpen' = FALSE
  /\ Return
  /\ UNCHANGED <<actionMenuIndex, confirmVars, viewer, commandVars>>

AskToConfirm(action) ==
  /\ confirmAction' = action
  /\ confirmActionOpen' = TRUE /\ confirmActionIndex' = 0
  /\ actionMenuOpen' = FALSE
  /\ Return
  /\ UNCHANGED <<actionMenuIndex, containerVars, viewer, commandVars>>

ResolvePodAction ==
  /\ doing.op = "resolve"
  /\ LET s == Build(paused)
         action == doing.arg
     IN  /\ Keep(s)
         /\ \/ NothingSelected(s)
            \/ /\ s.selected # Nil /\ action \in Inspect
               /\ action = "describe" \/ Containers[s.selected] = 1
               /\ CloseMenus
               /\ StartPodAction(action, s.selected)
            \/ /\ s.selected # Nil /\ action \in {"exec", "logs"}
               /\ Containers[s.selected] > 1
               /\ PickContainer(action)
            \/ /\ s.selected # Nil /\ action \in DangerousActions
               /\ AskToConfirm(action)
  /\ UNCHANGED <<live, paused, viewVars, shown, popup>>

(* handleContainerMenuKey *)
ContainerMenuKey ==
  /\ DialogKey("container")
  /\ LET s == Build(TRUE)
         Move(step) == /\ CanMove(containerMenuIndex, step, Containers[s.selected])
                       /\ containerMenuIndex' = containerMenuIndex + step
                       /\ Return
                       /\ UNCHANGED <<menuVars, confirmVars, containerMenuOpen, pendingAction,
                                      viewer, commandVars>>
         Back == /\ containerMenuOpen' = FALSE /\ actionMenuOpen' = TRUE
                 /\ Return
                 /\ UNCHANGED <<actionMenuIndex, confirmVars, containerMenuIndex, pendingAction,
                                viewer, commandVars>>
         Choose == /\ containerMenuIndex < Containers[s.selected]
                   /\ CloseMenus
                   /\ StartPodAction(pendingAction, s.selected)
     IN  /\ Keep(s)
         /\ \/ NothingSelected(s)
            \/ s.selected # Nil /\ (Back \/ Choose \/ \E step \in {-1, 1} : Move(step))

(* handleConfirmActionKey *)
FocusButton(index) ==
  /\ confirmActionIndex' = index
  /\ Return
  /\ UNCHANGED <<menuVars, confirmActionOpen, confirmAction, containerVars, viewer, commandVars>>

CancelAction ==
  /\ OpenActionMenu
  /\ Return

(* Mutant: enter confirms whichever button has the focus. *)
ConfirmEitherButton(s) ==
  /\ CloseMenus
  /\ StartPodAction(confirmAction, s.selected)

(* enter on the button Confirm: startPodAction with the pod selected now. *)
Confirm(s) ==
  /\ confirmActionIndex = 0
  /\ CloseMenus
  /\ StartPodAction(confirmAction, s.selected)

ConfirmActionKey ==
  /\ DialogKey("confirm")
  /\ LET s == Build(TRUE)
     IN  /\ Keep(s)
         /\ \/ NothingSelected(s)
            \/ /\ s.selected # Nil
               /\ CancelAction \/ Confirm(s) \/ \E index \in {0, 1} : FocusButton(index)

(* handleViewerKey: closeViewer.  No list is built. *)
CloseViewer ==
  /\ DialogKey("viewer")
  /\ viewer' = NoViewer
  /\ Return
  /\ UNCHANGED <<order, selected, pinned, page, menuVars, confirmVars, containerVars, commandVars>>

-----------------------------------------------------------------------------
(* Commands *)

Runs(i) == i \in DOMAIN commands

(* Mutant: the viewer keeps the title it was opened with. *)
OutputMsgKeepsTitle(i) ==
  /\ Runs(i) /\ commands[i].action \in {"logs", "describe"}
  /\ doing = Idle
  /\ commands' = RemoveAt(commands, i)
  /\ viewer' = [viewer EXCEPT !.loading = FALSE,
                              !.body = Title(commands[i].action, commands[i].pod)]
  /\ Return
  /\ UNCHANGED <<live, order, paused, viewVars, selected, pinned, page, shown,
                 menuVars, confirmVars, containerVars, replicas, asked, popup>>

(* podActionOutputMsg: the output of logs or describe, late or not. *)
OutputMsg(i) ==
  /\ Runs(i) /\ commands[i].action \in {"logs", "describe"}
  /\ doing = Idle
  /\ commands' = RemoveAt(commands, i)
  /\ LET title == Title(commands[i].action, commands[i].pod)
     IN  viewer' = [viewer EXCEPT !.loading = FALSE, !.title = title, !.body = title]
  /\ Return
  /\ UNCHANGED <<live, order, paused, viewVars, selected, pinned, page, shown,
                 menuVars, confirmVars, containerVars, replicas, asked, popup>>

CommandStep == UNCHANGED <<listVars, dialogVars, asked, popup>>

(* A command that answers with a status: exec, kill, and scale once it is  *)
(* done, fails, or finds that its pod has no scalable workload.            *)
CommandEnds(i) ==
  /\ Runs(i) /\ commands[i].action \notin {"logs", "describe"}
  /\ commands' = RemoveAt(commands, i)
  /\ UNCHANGED replicas
  /\ CommandStep

(* scaleWorkloadCmd: kubectl get, then kubectl scale. *)
ScaleLookup(i) ==
  /\ Runs(i) /\ commands[i].action \in ScaleActions /\ commands[i].pod \in Scalable
  /\ commands[i].read = Nil
  /\ commands' = [commands EXCEPT ![i].read = replicas]
  /\ UNCHANGED replicas
  /\ CommandStep

(* Mutant: the target may be below zero. *)
ScaleTargetNotClamped(read, action) == IF action = "scale_down" THEN read - 1 ELSE read + 1

ScaleTarget(read, action) ==
  IF action = "scale_up" THEN read + 1 ELSE IF read = 0 THEN 0 ELSE read - 1

ScaleWorkload(i) ==
  /\ Runs(i) /\ commands[i].read # Nil
  /\ replicas' = ScaleTarget(commands[i].read, commands[i].action)
  /\ commands' = RemoveAt(commands, i)
  /\ CommandStep

-----------------------------------------------------------------------------
(* The list under the dialogs *)

(* The dialogs are as the build for the footer left them, the pod is that  *)
(* of the build that was painted.                                          *)
Popup(pod) ==
  LET Over(dialog, action, index) ==
        [dialog |-> dialog, action |-> action, index |-> index, pod |-> pod]
  IN  CASE pod = Nil         -> NoPopup
        [] confirmActionOpen -> Over("confirm", confirmAction, confirmActionIndex)
        [] containerMenuOpen /\ ~confirmActionOpen -> Over("container", pendingAction, containerMenuIndex)
        [] actionMenuOpen /\ ~containerMenuOpen /\ ~confirmActionOpen -> Over("menu", "none", actionMenuIndex)
        [] OTHER             -> Over("none", "none", 0)

(* ensureSelectedPod: without a pod two of the dialogs close, not the      *)
(* third.                                                                  *)
MenusNeed(pod) ==
  /\ actionMenuOpen' = (actionMenuOpen /\ pod # Nil)
  /\ containerMenuOpen' = (containerMenuOpen /\ pod # Nil)
  /\ UNCHANGED <<actionMenuIndex, confirmVars, containerMenuIndex, pendingAction, viewer, commandVars>>

(* View paints the viewer alone, or the list, its footer, and then a popup *)
(* over the list.                                                          *)
ViewViewer ==
  /\ viewer.open
  /\ doing \in {Idle, ViewDue}
  /\ doing' = Idle
  /\ UNCHANGED <<live, order, paused, viewVars, selected, pinned, page, shown, dialogVars, popup>>
  /\ UNCHANGED commandVars

ViewList ==
  /\ ~viewer.open
  /\ View
  /\ MenusNeed(Build(paused).selected)
  /\ UNCHANGED popup

ViewPopup ==
  /\ WriteFooter
  /\ MenusNeed(Build(paused).selected)
  /\ popup' = Popup(shown.selected)'

ViewScreen == ViewViewer \/ ViewList \/ ViewPopup

DialogKeys == EnterKey \/ ActionMenuKey \/ ContainerMenuKey \/ ConfirmActionKey \/ CloseViewer

CommandSteps ==
  \E i \in 1..MaxCommands :
    OutputMsg(i) \/ CommandEnds(i) \/ ScaleLookup(i) \/ ScaleWorkload(i)

ListSteps ==
  /\ \/ NoDialogs /\ (ListKeys \/ SelectColumn \/ SelectPageStep)
     \/ \E b \in Budgets, c \in ColumnCounts : WindowSize(b, c)
     \/ ListEnvironment
  /\ UNCHANGED <<dialogVars, commandVars, popup>>

Init ==
  /\ ListInit
  /\ actionMenuOpen = FALSE /\ actionMenuIndex = 0
  /\ confirmActionOpen = FALSE /\ confirmActionIndex = 0 /\ confirmAction = "none"
  /\ containerMenuOpen = FALSE /\ containerMenuIndex = 0 /\ pendingAction = "none"
  /\ viewer = NoViewer
  /\ commands = <<>>
  /\ replicas = Replicas
  /\ asked = [start |-> replicas, downs |-> 0, ups |-> 0, commands |-> 0]
  /\ popup = NoPopup

Next == DialogKeys \/ ResolvePodAction \/ CommandSteps \/ ListSteps \/ ViewScreen

Spec == Init /\ [][Next]_vars

-----------------------------------------------------------------------------
(* Correctness *)

(* Every variable of the dialogs has its type. *)
ActionsTypeOK ==
  /\ {actionMenuOpen, confirmActionOpen, containerMenuOpen, viewer.open, viewer.loading} \subseteq BOOLEAN
  /\ actionMenuIndex \in 0..5 /\ confirmActionIndex \in {0, 1}
  /\ containerMenuIndex \in Nat
  /\ confirmAction \in DangerousActions \cup {"none"}
  /\ pendingAction \in {"exec", "logs", "none"}
  /\ \A i \in DOMAIN commands : commands[i].action \in Actions /\ commands[i].pod \in Pod
  /\ replicas \in Nat

(* At most one dialog is open, whatever pods left while it was: keys go to *)
(* the dialog that is painted.                                             *)
OneDialogAtATime ==
  Cardinality({dialog \in {"menu", "container", "confirm", "viewer"} :
                 \/ dialog = "menu" /\ actionMenuOpen
                 \/ dialog = "container" /\ containerMenuOpen
                 \/ dialog = "confirm" /\ confirmActionOpen
                 \/ dialog = "viewer" /\ viewer.open}) <= 1

(* The viewer never waits for nothing, and never shows one command's       *)
(* output under the title of another, though late outputs replace newer.   *)
ViewerShowsItsOutput ==
  viewer.open =>
    IF viewer.loading
      THEN \E i \in DOMAIN commands :
             Title(commands[i].action, commands[i].pod) = viewer.title
      ELSE viewer.body = viewer.title

Started == IF Len(commands') > Len(commands) THEN {Last(commands')} ELSE {}

(* If the list that was painted last had a pod selected, a pod is killed   *)
(* or scaled only after a popup that asked to confirm that very action,    *)
(* with the focus on Confirm.  (If it had none, nothing asked: the list    *)
(* was empty and the confirmation stayed open behind it.  A pod that comes *)
(* then, be it between the two builds of that View, is what enter kills.)  *)
DangerousAsConfirmed ==
  [][\A c \in Started : c.action \in DangerousActions /\ popup.pod # Nil =>
       popup.dialog = "confirm" /\ popup.action = c.action /\ popup.index = 0]_vars

(* Commands that overlap may lose a change, but the replicas never leave   *)
(* the range that the confirmed ones span.                                 *)
NoScaleBeyondConfirmed ==
  /\ replicas <= asked.start + asked.ups
  /\ replicas >= (IF asked.start > asked.downs THEN asked.start - asked.downs ELSE 0)

(* README: "Dangerous actions use a confirmation step."  A pod is killed   *)
(* or scaled only after a popup that named it, asking to confirm that.     *)
(* That is not so when the pod leaves between the popup and the key.       *)
DangerousIsConfirmed ==
  [][\A c \in Started : c.action \in DangerousActions =>
       popup = [dialog |-> "confirm", action |-> c.action, index |-> 0, pod |-> c.pod]]_vars
=============================================================================
