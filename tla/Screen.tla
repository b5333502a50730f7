------------------------------- MODULE Screen -------------------------------
(***************************************************************************)
(* What View paints (pkg/model/pods_ui_model.go): the banner, the pods and *)
(* the sidebar beside them, and the footer, in the lines of the terminal.  *)
(*                                                                         *)
(* The list is laid out for the lines that the other parts leave.  View    *)
(* reads the status line for that, paints the pods, reads it again for the *)
(* footer and a third time for the keys it offers there, while the watches *)
(* and the poller set it and time takes it away.  The pods stay as they    *)
(* are: PodList has the lists that change under a View.                    *)
(***************************************************************************)
EXTENDS PodList, NodeFleet, TransientStatus

CONSTANTS
  Terminals,     \* height; banner, the lines of renderHeader; sidebar, its
                 \* width, or 0; columns, of compact and of detailed pods
  Fleets,        \* sequences of nodes that Stats may have
  TrailingBlank, \* 1 if pods end with a blank line (comfortable density), else 0
  MaxMessages    \* bound: messages of the watches, the poller and the UI

ASSUME TerminalsHaveLines ==
  \A t \in Terminals :
    /\ {t.height, t.sidebar} \subseteq Nat /\ t.banner \in {5, 6}
    /\ t.columns \in [PodLines -> ColumnCounts]
ASSUME FleetsAreSequences == \A f \in Fleets : f \in Seq(Range(f))
ASSUME TextsHaveLengths ==
  /\ \A f \in Fleets : \A i \in DOMAIN f :
       LET node == Details(f[i]) IN \A field \in DOMAIN node : Len(node[field]) \in Nat
  /\ \A t \in Titles : Len(t) \in Nat
ASSUME BlankLineOrNone == TrailingBlank \in {0, 1}

VARIABLES
  terminal, \* of Terminals
  fleet,    \* the Details of the visible nodes
  messages, \* messages so far
  frame     \* local variables of View, and history: what it has painted

screenVars == <<listVars, statusVars, terminal, fleet, messages, frame>>

NoFrame == [seen |-> 0, body |-> 0, footer |-> 0, plan |-> NoPlan, lines |-> 0]

-----------------------------------------------------------------------------
(* The lines of the parts *)

Larger(a, b) == IF a > b THEN a ELSE b

ShowDetails == \E l \in PodLines : l < layout.podLines

(* The paginator and the keys, and the filter. *)
FooterLines == 2 + (IF filtering \/ query # Pod THEN 1 ELSE 0)

PodPanelChrome == 3
PodsChromeLines == 10

Room(seen) == terminal.height - terminal.banner - FooterLines - seen - PodPanelChrome

(* availablePodLines *)
AvailablePodLines(seen) == Larger(Room(seen), layout.podLines)

(* The body is the panel with its page, or what is said of an empty list.  *)
BodyLines(s) ==
  IF s.rows = <<>>
    THEN (IF query # Pod THEN 1 ELSE 2)
    ELSE LET pg == s.pages[s.page]
             tallest == CHOOSE j \in DOMAIN pg : \A i \in DOMAIN pg : Lines(pg[i]) <= Lines(pg[j])
         IN  Lines(pg[tallest]) - TrailingBlank + 2

(* renderNodeUsagePanel and its placeholder: three lines a node, with the  *)
(* details one more, and two if anything of its system is known.           *)
PressureLines ==
  LET HasSystem(n) == {n.system, n.osImage, n.kubelet, n.runtime} # {""}
      details == Len(fleet) + Cardinality({i \in DOMAIN fleet : HasSystem(fleet[i])})
  IN  IF fleet = <<>> THEN 3
      ELSE 2 + 3 * Len(fleet) + (IF ShowDetails THEN details ELSE 0) + (Len(fleet) - 1)

(* renderSignalsPanel: usage only of pods that are shown. *)
SignalLines == 2 + 2 + (IF live \cap query = {} THEN 0 ELSE 2)

SidebarLines == PressureLines + SignalLines

(* nodeFleetLineBudget; the body ends with a newline, and so counts for    *)
(* one line more than it has.                                              *)
FleetBudget(body) == Larger(body + 1, terminal.height - PodsChromeLines) - SidebarLines

Title == DominantPlatform(fleet, SetToSeq(Platforms(fleet)))

FleetPanel(body) ==
  FleetPlan(fleet, ShowDetails, terminal.sidebar - 4, Title, FleetBudget(body))

-----------------------------------------------------------------------------
(* View *)

ViewStep(from, to) ==
  /\ doing.op = from
  /\ reading = "no"
  /\ doing' = to
  /\ UNCHANGED <<live, paused, rank, mode, query, filtering, terminal, fleet, messages>>

Doing(op) == [op |-> op, arg |-> 0]

(* availablePodLines counts one line for a status, whatever it has. *)
Seen == IF CurrentStatus THEN 1 ELSE 0

(* Mutant: no line is left for the status. *)
MeasureWithoutStatus(from, to) ==
  /\ ViewStep(from, to)
  /\ ReadStatus
  /\ layout' = [layout EXCEPT !.budget = AvailablePodLines(0)]
  /\ UNCHANGED <<order, selected, pinned, page, shown>>

(* paginateGroups asks availablePodLines, which reads the status. *)
Measure(from, to) ==
  /\ ViewStep(from, to)
  /\ ReadStatus
  /\ layout' = [layout EXCEPT !.budget = AvailablePodLines(Seen)]
  /\ UNCHANGED <<order, selected, pinned, page, shown>>

(* A message, a resize or a tick has been handled. *)
MeasureBody ==
  /\ Measure("view", Doing("body"))
  /\ frame' = [frame EXCEPT !.seen = Seen]

PaintBody ==
  /\ ViewStep("body", Doing("footer"))
  /\ Keep(Build(paused))
  /\ shown' = Paint(Build(paused))
  /\ frame' = [frame EXCEPT !.body = BodyLines(Build(paused))]
  /\ UNCHANGED <<layout, statusVars>>

(* writeStatusLine paints all the lines that the message has. *)
PaintFooter ==
  /\ ViewStep("footer", Doing("keys"))
  /\ ReadStatus
  /\ frame' = [frame EXCEPT !.footer = FooterLines + IF CurrentStatus THEN statusLines ELSE 0]
  /\ UNCHANGED <<layout, order, selected, pinned, page, shown>>

(* writeFooter builds the list once more, to see if it has columns. *)
MeasureForKeys ==
  /\ Measure("keys", Doing("combine"))
  /\ UNCHANGED frame

(* combineWithNodeUsagePanel, with the fleet if there is room. *)
Combine ==
  /\ ViewStep("combine", Idle)
  /\ BuildForFooter
  /\ LET plan == IF terminal.sidebar = 0 THEN NoPlan ELSE FleetPanel(frame.body)
         sidebar == IF terminal.sidebar = 0 THEN 0 ELSE SidebarLines + plan.lines
     IN  frame' = [frame EXCEPT !.plan = plan,
                     !.lines = terminal.banner + Larger(frame.body, sidebar) + frame.footer]
  /\ UNCHANGED <<layout, statusVars>>

-----------------------------------------------------------------------------
(* Keys, resizes, ticks and messages *)

ScreenKey ==
  /\ \/ GroupModeKey
     \/ \E l \in PodLines : DetailsKey(l, terminal.columns[l])
     \/ FilterKey \/ ClearFilter \/ LeaveFilter
     \/ \E q \in Queries : EditFilter(q)
  /\ frame' = NoFrame
  /\ UNCHANGED <<statusVars, terminal, fleet, messages>>

Resize(t) ==
  /\ doing = Idle
  /\ terminal' = t
  /\ layout' = [layout EXCEPT !.columns = t.columns[layout.podLines]]
  /\ Return
  /\ frame' = NoFrame
  /\ UNCHANGED <<live, order, paused, rank, mode, query, filtering, selected, pinned, page, shown,
                 statusVars, fleet, messages>>

(* podsTickCmd *)
TickView ==
  /\ doing = Idle
  /\ Return
  /\ frame' = NoFrame
  /\ UNCHANGED <<live, order, paused, viewVars, selected, pinned, page, shown,
                 statusVars, terminal, fleet, messages>>

StatusStep ==
  /\ \/ /\ messages < MaxMessages /\ messages' = messages + 1
        /\ \E lines \in MessageLines : SetTransientStatus(lines)
     \/ (StatusExpires \/ ClearExpired) /\ UNCHANGED messages
  /\ UNCHANGED <<listVars, terminal, fleet, frame>>

ScreenInit ==
  /\ terminal \in Terminals
  /\ fleet \in {[i \in DOMAIN f |-> Details(f[i])] : f \in Fleets}
  /\ live \in SUBSET Pod
  /\ rank \in Rankings
  /\ order = <<>>
  /\ paused = TRUE
  /\ mode = "namespace"
  /\ query = Pod
  /\ filtering = FALSE
  /\ layout \in Layout
  /\ layout.columns = terminal.columns[layout.podLines]
  /\ selected \in live \cup {Nil}
  /\ pinned = (selected # Nil)
  /\ page = 1
  /\ doing = ViewDue
  /\ shown = [rows |-> <<>>, page |-> <<>>, selected |-> Nil, mode |-> mode, kept |-> FALSE]
  /\ StatusInit
  /\ messages = 0
  /\ frame = NoFrame

ScreenNext ==
  \/ MeasureBody \/ PaintBody \/ PaintFooter \/ MeasureForKeys \/ Combine
  \/ ScreenKey
  \/ \E t \in Terminals : Resize(t)
  \/ TickView
  \/ StatusStep

ScreenSpec == ScreenInit /\ [][ScreenNext]_screenVars

-----------------------------------------------------------------------------
(* Correctness *)

(* The lines of the status beyond the one that was measured, if any was.   *)
Unmeasured == Larger(0, frame.footer - (FooterLines + frame.seen))

(* A tall pod alone in its room, whose group's header leaves none.         *)
IsTight == layout.podLines > 10 /\ layout.podLines = Room(frame.seen)

(* The frame fits the terminal: the pods, however they are grouped and     *)
(* detailed, the sidebar with whatever of the fleet is shown, the filter   *)
(* and a status line leave the footer and the banner on the screen, if the *)
(* terminal has the lines for one pod and for the sidebar's first panels.  *)
(* Only what was not measured makes it taller: a status that came since,   *)
(* lines of one after the first, one line beside a pod of eleven or more.  *)
ScreenFits ==
  LET others == terminal.banner + FooterLines + frame.seen
      isTooSmall == \/ Room(frame.seen) < layout.podLines
                    \/ terminal.sidebar > 0 /\ others + SidebarLines > terminal.height
  IN  doing = Idle /\ ~isTooSmall =>
        frame.lines <= terminal.height + Unmeasured + IF IsTight THEN 1 ELSE 0

(* The fleet panel shows or counts every node, shows one at least, and     *)
(* takes no more lines than the sidebar has left.                          *)
FleetFitsItsBudget ==
  LET p == frame.plan
  IN  doing = Idle /\ p # NoPlan =>
        /\ p.rows + p.hidden = Len(fleet) /\ p.rows > 0
        /\ p.lines = 3 + p.rows + (IF p.hidden > 0 THEN 1 ELSE 0) + (IF p.rollup > 0 THEN 1 + p.rollup ELSE 0)
        /\ p.lines <= FleetBudget(frame.body)

(* No column of the fleet is shown before one that comes first, whatever   *)
(* widths the values have, and together they fit the panel.                *)
ColumnsByPriority ==
  doing = Idle /\ terminal.sidebar > 0 =>
    LET title == Title
        columns == FleetColumns(fleet, title, ShowDetails, terminal.sidebar - 4)
        populated == Populated(fleet, title, ShowDetails)
    IN  /\ Len(columns) <= Len(populated)
        /\ \A i \in DOMAIN columns : columns[i].title = populated[i].title
        /\ columns = <<>> \/ Width(columns) <= terminal.sidebar - 4

(* The title of the fleet is the same from one View to the next: it does   *)
(* not depend on the order in which Go walks the map of platforms.         *)
TitleIsSteady ==
  doing = Idle =>
    LET title == Title
    IN  \A o \in SetToSeqs(Platforms(fleet)) : DominantPlatform(fleet, o) = title
=============================================================================
