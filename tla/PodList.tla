------------------------------- MODULE PodList -------------------------------
(***************************************************************************)
(* The pod list of PodsUIModel (pkg/model/pods_ui_model.go and             *)
(* pod_actions.go): sorting and its keyboard pause, filter, groups, pages  *)
(* and columns, and the selection that survives them.                      *)
(*                                                                         *)
(* The UI runs in one goroutine: an Update for a message, then a View.     *)
(* The store changes under it at any time, and a handler that builds the   *)
(* list twice may build two different lists: each build is a step.         *)
(***************************************************************************)
EXTENDS Lists

CONSTANTS
  Pod,          \* objectKey's of the pods that may come and go
  NamespaceOf,  \* Pod.Namespace
  WorkloadOf,   \* Pod.Workload
  Rankings,     \* orders that podSorter may give the pods, best first
  Queries,      \* what a filter may match: sets of pods
  Budgets,      \* what availablePodLines may return
  ColumnCounts, \* what podColumnCount may return
  PodLines,     \* what linesPerPod may return: compact, detailed
  Keys,         \* bound: the kinds of keys that are pressed
  Nil

ASSUME NilIsNoPod == Nil \notin Pod
ASSUME RankingsRankAll ==
  \A r \in Rankings : r \in Seq(Pod) /\ IsInjective(r) /\ Range(r) = Pod
ASSUME QueriesMatchPods == Queries \subseteq SUBSET Pod
ASSUME LayoutsArePositive ==
  /\ Budgets \cup ColumnCounts \cup PodLines \subseteq Nat \ {0}
  /\ \A b \in Budgets, l \in PodLines : b >= l
ASSUME KeysAreThese ==
  Keys \subseteq {"arrows", "pages", "sort", "group", "details", "filter", "menu"}

VARIABLES
  live,      \* Cluster.VisiblePods
  rank,      \* how podSorter orders all the pods now
  order,     \* podOrder
  paused,    \* time.Now() < autoSortPausedUntil
  mode,      \* groupMode
  query,     \* the pods that match filterQuery
  filtering, \* the filter input has the focus
  layout,    \* budget, columns, podLines
  selected,  \* selectedPod, Nil without hasSelectedPod
  pinned,    \* selectionPinned
  page,      \* paginator.Page, from 1
  doing,     \* the handler in progress, "view" when the View is due
  shown      \* history: what the last View painted, without the rows of pods gone since;
             \* kept: the order that its footer's build left has these rows as painted

viewVars == <<rank, mode, query, filtering, layout>>
listVars == <<live, order, paused, viewVars, selected, pinned, page, doing, shown>>

Layout == [budget : Budgets, columns : ColumnCounts, podLines : PodLines]
Idle == [op |-> "idle", arg |-> 0]
ViewDue == [op |-> "view", arg |-> 0]
FooterDue == [op |-> "footer", arg |-> 0]

-----------------------------------------------------------------------------
(* Groups, columns and pages *)

GroupKey(p) ==
  CASE mode = "namespace" -> <<NamespaceOf[p]>>
    [] mode = "workload"  -> <<NamespaceOf[p], WorkloadOf[p]>>
    [] mode = "flat"      -> <<>>

HeaderLines == IF mode = "flat" THEN 0 ELSE 1

(* groupPods and flattenGroupedPods: the groups in the order of their      *)
(* first pods.                                                             *)
Grouped(pods) ==
  LET Group(i) == Only(pods, {p \in Pod : GroupKey(p) = GroupKey(pods[i])})
      IsFirst(i) == \A j \in 1..(i - 1) : GroupKey(pods[j]) # GroupKey(pods[i])
  IN  FlattenSeq([i \in 1..Len(pods) |-> IF IsFirst(i) THEN Group(i) ELSE <<>>])

(* Mutant: no line is set aside for the blank line between two groups. *)
PlaceNoSeparator(columns, p) ==
  LET top == Last(columns)
      continues == columns # <<>> /\ GroupKey(Last(top.pods)) = GroupKey(p)
      cost == layout.podLines + IF continues THEN 0 ELSE HeaderLines
  IN  IF columns # <<>> /\ top.left >= cost
        THEN Append(Front(columns), [pods |-> Append(top.pods, p), left |-> top.left - cost])
        ELSE Append(columns, [pods |-> <<p>>, left |-> layout.budget - HeaderLines - layout.podLines])

(* One pod goes below the last one if its lines, with a blank line and a   *)
(* header when a group begins, are left; else a column begins, with one    *)
(* pod even if that is too much.  A column that a group continues in       *)
(* repeats the header.                                                     *)
Place(columns, p) ==
  LET top == Last(columns)
      continues == columns # <<>> /\ GroupKey(Last(top.pods)) = GroupKey(p)
      cost == layout.podLines + IF continues THEN 0 ELSE 1 + HeaderLines
  IN  IF columns # <<>> /\ top.left >= cost
        THEN Append(Front(columns), [pods |-> Append(top.pods, p), left |-> top.left - cost])
        ELSE Append(columns, [pods |-> <<p>>, left |-> layout.budget - HeaderLines - layout.podLines])

Columns(rows) ==
  LET upTo[i \in 0..Len(rows)] == IF i = 0 THEN <<>> ELSE Place(upTo[i - 1], rows[i])
  IN  upTo[Len(rows)]

(* Mutant: the columns that do not fill a page are not shown. *)
PaginateFullPages(rows) ==
  LET filled == Columns(rows)
      width == layout.columns
  IN  [i \in 1..(Len(filled) \div width) |->
         [j \in 1..width |-> filled[(i - 1) * width + j].pods]]

(* paginateGroups: pages of columns of pods. *)
Paginate(rows) ==
  LET filled == Columns(rows)
      width == layout.columns
      count == (Len(filled) + width - 1) \div width
      Column(i) == filled[i].pods
      Lowest(a, b) == IF a < b THEN a ELSE b
  IN  [i \in 1..count |->
         [j \in 1..Lowest(width, Len(filled) - (i - 1) * width) |-> Column((i - 1) * width + j)]]

(* flattenPagePods *)
PagePods(pg) == FlattenSeq(pg)

PageOf(pages, p) ==
  IF \E i \in DOMAIN pages : p \in Range(PagePods(pages[i]))
    THEN CHOOSE i \in DOMAIN pages : p \in Range(PagePods(pages[i]))
    ELSE 1

-----------------------------------------------------------------------------
(* buildPodListState *)

Sorted == Only(rank, live)

(* Mutant: a new pod makes the whole list sort again. *)
OrderedResortsForNew(frozen) ==
  IF frozen /\ order # <<>> /\ live \subseteq Range(order)
    THEN Only(order, live)
    ELSE Sorted

(* Mutant: all the pods follow the remembered ones. *)
OrderedRepeatsKnown(frozen) ==
  IF frozen /\ order # <<>>
    THEN Only(order, live) \o Sorted
    ELSE Sorted

(* orderedVisiblePods: while autoSortPaused the remembered order stays and *)
(* new pods follow it.                                                     *)
Ordered(frozen) ==
  IF frozen /\ order # <<>>
    THEN Only(order, live) \o Only(Sorted, Pod \ Range(order))
    ELSE Sorted

(* ensureSelectedPod, and the first pod while the selection is not pinned. *)
SelectionIn(rows) ==
  IF rows = <<>> THEN Nil
  ELSE IF pinned /\ selected \in Range(rows) THEN selected
  ELSE rows[1]

(* Mutant: the page stays where it is when the selection moves. *)
BuildKeepsPage(frozen) ==
  LET ordered == Ordered(frozen)
      rows == Grouped(Only(ordered, query))
      pages == Paginate(rows)
  IN  [order |-> ordered, rows |-> rows, pages |-> pages, selected |-> SelectionIn(rows),
       pinned |-> pinned /\ rows # <<>>,
       page |-> IF page > Len(pages) THEN 1 ELSE page]

Build(frozen) ==
  LET ordered == Ordered(frozen)
      rows == Grouped(Only(ordered, query))
      pages == Paginate(rows)
  IN  [order |-> ordered, rows |-> rows, pages |-> pages, selected |-> SelectionIn(rows),
       pinned |-> pinned /\ rows # <<>>,
       page |-> PageOf(pages, SelectionIn(rows))]

(* Every build leaves its traces in the model. *)
Keep(s) ==
  /\ order' = s.order
  /\ selected' = s.selected
  /\ pinned' = s.pinned
  /\ page' = s.page

(* Select pod p of the list s and show page pg. *)
Select(s, p, pg) ==
  /\ order' = s.order
  /\ selected' = p
  /\ pinned' = TRUE
  /\ page' = pg

IsMultiColumn(s) == s.rows # <<>> /\ Len(s.pages[s.page]) > 1

ColumnOf(s) ==
  CHOOSE j \in DOMAIN s.pages[s.page] : s.selected \in Range(s.pages[s.page][j])
IndexIn(pods, p) == CHOOSE i \in DOMAIN pods : pods[i] = p
Clamp(i, n) == IF i < 1 THEN 1 ELSE IF i > n THEN n ELSE i

-----------------------------------------------------------------------------
(* Keys of the list.  Every key pauses the sorting first, so what its      *)
(* handler builds at once is frozen.                                       *)

Key(kind) ==
  /\ kind \in Keys
  /\ doing = Idle
  /\ paused' = TRUE
  /\ UNCHANGED <<live, shown>>

ListKey(kind) == Key(kind) /\ ~filtering

Return == doing' = ViewDue

(* selectPodByOffset: along the column when there are several, else along  *)
(* the whole list.                                                         *)
UpDown(offset) ==
  /\ ListKey("arrows")
  /\ LET s == Build(TRUE)
         pods == IF IsMultiColumn(s) THEN s.pages[s.page][ColumnOf(s)] ELSE s.rows
     IN  IF s.rows = <<>>
           THEN Keep(s)
           ELSE Select(s, pods[Clamp(IndexIn(pods, s.selected) + offset, Len(pods))], s.page)
  /\ Return
  /\ UNCHANGED viewVars

(* Left and right choose between columns and pages on one build and move   *)
(* on the next.                                                            *)
LeftRight(offset) ==
  /\ ListKey("arrows")
  /\ LET s == Build(TRUE)
     IN  /\ Keep(s)
         /\ doing' = IF IsMultiColumn(s) THEN [op |-> "column", arg |-> offset]
                                         ELSE [op |-> "page", arg |-> s.page + offset]
  /\ UNCHANGED viewVars

(* selectColumnOffset *)
SelectColumn ==
  /\ doing.op = "column"
  /\ LET s == Build(paused)
         columns == s.pages[s.page]
         target == Clamp(ColumnOf(s) + doing.arg, Len(columns))
         row == IndexIn(columns[ColumnOf(s)], s.selected)
     IN  IF ~IsMultiColumn(s) \/ target = ColumnOf(s)
           THEN Keep(s)
           ELSE Select(s, columns[target][Clamp(row, Len(columns[target]))], s.page)
  /\ Return
  /\ UNCHANGED <<live, paused, viewVars, shown>>

(* selectPage: the first pod of the page, or of the nearest there is. *)
SelectPage(s, target) ==
  LET pg == Clamp(target, Len(s.pages))
  IN  IF s.pages = <<>> THEN Keep(s) ELSE Select(s, PagePods(s.pages[pg])[1], pg)

SelectPageStep ==
  /\ doing.op = "page"
  /\ SelectPage(Build(paused), doing.arg)
  /\ Return
  /\ UNCHANGED <<live, paused, viewVars, shown>>

PageKey(offset) ==
  /\ ListKey("pages")
  /\ SelectPage(Build(TRUE), page + offset)
  /\ Return
  /\ UNCHANGED viewVars

(* resetSelectionAnchor, with the first page. *)
ResetAnchor ==
  /\ pinned' = FALSE
  /\ page' = 1
  /\ Return
  /\ UNCHANGED selected

(* c, m, s: setPodSorter forgets the remembered order. *)
SortKey(r) ==
  /\ ListKey("sort")
  /\ rank' = r
  /\ order' = <<>>
  /\ ResetAnchor
  /\ UNCHANGED <<mode, query, filtering, layout>>

(* g: groupMode.next *)
NextMode ==
  CASE mode = "namespace" -> "workload" [] mode = "workload" -> "flat" [] mode = "flat" -> "namespace"

GroupModeKey ==
  /\ ListKey("group")
  /\ mode' = NextMode
  /\ ResetAnchor
  /\ UNCHANGED <<rank, order, query, filtering, layout>>

(* i: showDetails changes linesPerPod and podColumnMinWidth. *)
DetailsKey(l, c) ==
  /\ ListKey("details")
  /\ l # layout.podLines
  /\ layout' = [layout EXCEPT !.podLines = l, !.columns = c]
  /\ ResetAnchor
  /\ UNCHANGED <<rank, order, mode, query, filtering>>

(* / opens the filter input; esc clears a filter. *)
FilterKey ==
  /\ ListKey("filter")
  /\ filtering' = TRUE
  /\ Return
  /\ UNCHANGED <<rank, order, mode, query, layout, selected, pinned, page>>

ClearFilter ==
  /\ ListKey("filter")
  /\ query # Pod
  /\ query' = Pod
  /\ ResetAnchor
  /\ UNCHANGED <<rank, order, mode, filtering, layout>>

(* handleFilteringKey: a key edits the filter; enter and esc leave it. *)
FilteringKey ==
  /\ Key("filter") /\ filtering
  /\ ResetAnchor
  /\ UNCHANGED <<rank, order, mode, layout>>

EditFilter(q) ==
  /\ FilteringKey
  /\ query' = q
  /\ UNCHANGED filtering

LeaveFilter ==
  /\ FilteringKey
  /\ filtering' = FALSE
  /\ UNCHANGED query

-----------------------------------------------------------------------------
(* The event loop, the terminal and the store *)

Paint(s) == [rows |-> s.rows, page |-> IF s.pages = <<>> THEN <<>> ELSE PagePods(s.pages[s.page]),
             selected |-> s.selected, mode |-> mode, kept |-> FALSE]

InOrderOf(rows, old) ==
  \A i, j \in DOMAIN rows :
    i < j /\ {rows[i], rows[j]} \subseteq Range(old) => IndexIn(old, rows[i]) < IndexIn(old, rows[j])

(* View, after the handler of a message or of a tick, paints the body ... *)
View ==
  /\ doing \in {Idle, ViewDue}
  /\ LET s == Build(paused) IN Keep(s) /\ shown' = Paint(s)
  /\ doing' = FooterDue
  /\ UNCHANGED <<live, paused, viewVars>>

(* ... and builds the list once more for the keys that the footer offers.  *)
(* That build is not painted, but it stays in the model.                   *)
BuildForFooter ==
  LET s == Build(paused)
  IN  Keep(s) /\ shown' = [shown EXCEPT !.kept = InOrderOf(shown.rows, s.order)]

WriteFooter ==
  /\ doing = FooterDue
  /\ BuildForFooter
  /\ doing' = Idle
  /\ UNCHANGED <<live, paused, viewVars>>

WindowSize(b, c) ==
  /\ doing = Idle
  /\ layout' = [layout EXCEPT !.budget = b, !.columns = c]
  /\ Return
  /\ UNCHANGED <<live, order, paused, rank, mode, query, filtering, selected, pinned, page, shown>>

(* A status line appears or expires: one line more or less for the pods. *)
StatusLine(b) ==
  /\ layout' = [layout EXCEPT !.budget = b]
  /\ UNCHANGED <<live, order, paused, rank, mode, query, filtering, selected, pinned, page, doing, shown>>

(* podAutoSortKeyboardPause is over. *)
PauseEnds ==
  /\ paused' = FALSE
  /\ UNCHANGED <<live, order, viewVars, selected, pinned, page, doing, shown>>

(* The watches and the metrics poller *)
PodComes(p) ==
  /\ live' = live \cup {p}
  /\ UNCHANGED <<order, paused, viewVars, selected, pinned, page, doing, shown>>

PodGoes(p) ==
  /\ live' = live \ {p}
  /\ shown' = [shown EXCEPT !.rows = Only(@, Pod \ {p})]
  /\ UNCHANGED <<order, paused, viewVars, selected, pinned, page, doing>>

UsageChanges(r) ==
  /\ rank' = r
  /\ UNCHANGED <<live, order, paused, mode, query, filtering, layout, selected, pinned, page, doing, shown>>

(* A filter matches the phase, the health and the node of a pod, too.      *)
MatchesChange(q) ==
  /\ Pod \notin {query, q}
  /\ query' = q
  /\ UNCHANGED <<live, order, paused, rank, mode, filtering, layout, selected, pinned, page, doing, shown>>

ListInit ==
  /\ live \in SUBSET Pod
  /\ rank \in Rankings
  /\ order = <<>>
  /\ paused = FALSE
  /\ mode = "namespace"
  /\ query = Pod
  /\ filtering = FALSE
  /\ layout \in Layout
  /\ selected = Nil
  /\ pinned = FALSE
  /\ page = 1
  /\ doing = Idle
  /\ shown = [rows |-> <<>>, page |-> <<>>, selected |-> Nil, mode |-> mode, kept |-> FALSE]

ListKeys ==
  \/ \E offset \in {-1, 1} : UpDown(offset) \/ LeftRight(offset) \/ PageKey(offset)
  \/ \E r \in Rankings : SortKey(r)
  \/ \E l \in PodLines, c \in ColumnCounts : DetailsKey(l, c)
  \/ GroupModeKey \/ FilterKey \/ ClearFilter \/ LeaveFilter
  \/ \E q \in Queries : EditFilter(q)

ListEnvironment ==
  \/ \E b \in Budgets : StatusLine(b)
  \/ PauseEnds
  \/ \E p \in Pod : PodComes(p) \/ PodGoes(p)
  \/ \E r \in Rankings : UsageChanges(r)
  \/ \E q \in Queries : MatchesChange(q)

ListNext ==
  \/ ListKeys
  \/ SelectColumn \/ SelectPageStep
  \/ View \/ WriteFooter
  \/ \E b \in Budgets, c \in ColumnCounts : WindowSize(b, c)
  \/ ListEnvironment

ListSpec == ListInit /\ [][ListNext]_listVars

-----------------------------------------------------------------------------
(* Correctness *)

(* Every variable has its type, and no pod is remembered twice.            *)
ListTypeOK ==
  /\ live \subseteq Pod /\ query \subseteq Pod
  /\ rank \in Rankings
  /\ Range(order) \subseteq Pod /\ IsInjective(order)
  /\ layout \in Layout
  /\ selected \in Pod \cup {Nil}
  /\ {paused, filtering, pinned} \subseteq BOOLEAN
  /\ page \in Nat \ {0}
  /\ doing.op \in {"idle", "view", "footer", "column", "page"}

(* Paging loses and doubles nothing: the pages, read in order, are the     *)
(* pods that live and match the filter, each once; no page and no column   *)
(* is empty.                                                               *)
PagesShowEveryPod ==
  LET pages == Build(paused).pages
      pods == FlattenSeq([i \in DOMAIN pages |-> PagePods(pages[i])])
  IN  /\ Range(pods) = live \cap query
      /\ IsInjective(pods)
      /\ \A i \in DOMAIN pages : pages[i] # <<>> /\ \A j \in DOMAIN pages[i] : pages[i][j] # <<>>

(* decorateColumnLayout: the lines a column takes on the screen. *)
Lines(column) ==
  LET begins == {i \in DOMAIN column : i = 1 \/ GroupKey(column[i]) # GroupKey(column[i - 1])}
  IN  Len(column) * layout.podLines + Cardinality(begins) * (1 + HeaderLines) - 1

(* What paginateGroups puts in a column fits the lines the panel has, but  *)
(* for a lone pod in a terminal that is too small for one.                 *)
ColumnsFit ==
  LET pages == Build(paused).pages
  IN  \A i \in DOMAIN pages : \A j \in DOMAIN pages[i] :
        Len(pages[i][j]) = 1 \/ Lines(pages[i][j]) <= layout.budget

(* The selected pod is on the page that is painted, whatever came, went,   *)
(* moved or was filtered between the key and the View.                     *)
SelectionIsOnPage ==
  shown.rows # <<>> => shown.selected \in Range(shown.page)

(* README: while a key was pressed lately the rows stay in their order,    *)
(* new pods or not.  The first View of a pause finds the rows as painted   *)
(* if the footer of the View before left them so, and within the pause     *)
(* every footer does.  (Outside it the store may change between the two    *)
(* builds of a View, and the order of the second, which nobody saw, is the *)
(* one that the pause then keeps.)  All of this is so in the flat list     *)
(* only: groups follow their first pods, and swap when such a pod goes.    *)
PausedFlatRowsKeepOrder ==
  [][paused /\ mode = "flat" /\ shown.mode = "flat" =>
       /\ View /\ shown.kept /\ order # <<>> => InOrderOf(shown'.rows, shown.rows)
       /\ WriteFooter => shown'.kept]_listVars
=============================================================================
