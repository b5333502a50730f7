----------------------------- MODULE ScreenProofs -----------------------------
(***************************************************************************)
(* Theorems about Screen: for any pods, terminals and fleets the frame     *)
(* fits the terminal, the fleet panel is whole, its columns come by their  *)
(* priority under a title that stays, and the status is not cut short.     *)
(***************************************************************************)
EXTENDS Screen, PodListProofs

-----------------------------------------------------------------------------
(* The invariant *)

KnownFleets == {[i \in DOMAIN f |-> Details(f[i])] : f \in Fleets}

ScreenTypes ==
  /\ live \subseteq Pod /\ query \subseteq Pod
  /\ rank \in Rankings
  /\ order \in Seq(Pod) /\ Once(order)
  /\ layout \in [budget : Int, columns : ColumnCounts, podLines : PodLines]
  /\ terminal \in Terminals
  /\ fleet \in KnownFleets
  /\ doing \in {Idle, ViewDue} \cup {Doing(op) : op \in {"body", "footer", "keys", "combine"}}

(* A reader that found a message over and unchanged still finds it so. *)
OverIsOver ==
  /\ statusLines \in Nat
  /\ reading = "same" => status = "over"

(* The list is laid out for the status that View measured. *)
BodyMeasured ==
  /\ frame.seen \in {0, 1}
  /\ doing.op = "body" => layout.budget = AvailablePodLines(frame.seen)

(* The pods take the lines that the others leave, or they are one pod with *)
(* its header.                                                             *)
BodyFits ==
  /\ frame.body \in Int
  /\ Room(frame.seen) >= layout.podLines =>
       \/ frame.body <= Room(frame.seen) + 2
       \/ frame.body <= layout.podLines + 3 /\ live \cap query # {}

(* The status adds to the footer what it has. *)
FooterFits == frame.footer \in Nat /\ frame.footer >= FooterLines

(* What Combine has put together. *)
Combined ==
  LET sidebar == IF terminal.sidebar = 0 THEN 0 ELSE SidebarLines + frame.plan.lines
  IN  /\ frame.plan = IF terminal.sidebar = 0 THEN NoPlan ELSE FleetPanel(frame.body)
      /\ frame.lines = terminal.banner + Larger(frame.body, sidebar) + frame.footer

Phases ==
  /\ DOMAIN frame = {"seen", "body", "footer", "plan", "lines"}
  /\ BodyMeasured
  /\ doing.op \in {"footer", "keys", "combine", "idle"} => BodyFits
  /\ doing.op \in {"keys", "combine", "idle"} => FooterFits
  /\ doing.op = "idle" => Combined

ScreenInv == ScreenTypes /\ OverIsOver /\ Phases
-----------------------------------------------------------------------------
(* The status line *)

LEMMA StatusStepOver ==
  ASSUME OverIsOver, StatusStep
  PROVE  OverIsOver' /\ (status = "valid" => status' # "none")
<1>1. ASSUME NEW lines \in MessageLines, SetTransientStatus(lines)
      PROVE  OverIsOver' /\ (status = "valid" => status' # "none")
  BY <1>1, MessagesHaveLines DEF SetTransientStatus, OverIsOver
<1>2. CASE StatusExpires \/ ClearExpired
  BY <1>2 DEF StatusExpires, ClearExpired, OverIsOver
<1> QED BY <1>1, <1>2 DEF StatusStep

LEMMA ReadStatusOver ==
  ASSUME OverIsOver, ReadStatus
  PROVE  OverIsOver' /\ status' = status
BY DEF ReadStatus, OverIsOver

LEMMA StatusHolds ==
  ASSUME OverIsOver, [ScreenNext]_screenVars
  PROVE  OverIsOver' /\ (status = "valid" => status' # "none")
<1>1. CASE StatusStep
  BY <1>1, StatusStepOver
<1>2. CASE MeasureBody \/ PaintFooter \/ MeasureForKeys
  <2>1. ReadStatus
    BY <1>2 DEF MeasureBody, PaintFooter, MeasureForKeys, Measure
  <2> QED BY <2>1, ReadStatusOver
<1>3. CASE UNCHANGED statusVars
  BY <1>3 DEF statusVars, OverIsOver
<1>4. PaintBody \/ Combine \/ ScreenKey \/ TickView => UNCHANGED statusVars
  BY DEF PaintBody, Combine, ScreenKey, TickView
<1>5. (\E t \in Terminals : Resize(t)) => UNCHANGED statusVars
  BY DEF Resize
<1>6. UNCHANGED screenVars => UNCHANGED statusVars
  BY DEF screenVars
<1> QED BY <1>1, <1>2, <1>3, <1>4, <1>5, <1>6 DEF ScreenNext

-----------------------------------------------------------------------------
(* The types *)

LEMMA ScreenFacts ==
  ASSUME ScreenTypes
  PROVE  /\ ListFacts /\ TypedLayout
         /\ layout.podLines \in Nat \ {0} /\ layout.podLines \in PodLines
         /\ terminal.height \in Nat /\ terminal.sidebar \in Nat /\ terminal.banner \in {5, 6}
         /\ terminal.columns \in [PodLines -> ColumnCounts]
<1>1. rank \in Seq(Pod) /\ IsInjective(rank) /\ Range(rank) = Pod
  BY RankingsRankAll DEF ScreenTypes
<1>2. ListFacts
  BY <1>1, OnceIsInjective DEF ScreenTypes, ListFacts
<1>3. /\ layout.budget \in Int /\ layout.columns \in Nat \ {0}
      /\ layout.podLines \in Nat \ {0} /\ layout.podLines \in PodLines
  BY LayoutsArePositive DEF ScreenTypes
<1>4. TypedLayout
  BY <1>3 DEF TypedLayout, LayoutFacts
<1> QED BY <1>2, <1>3, <1>4, TerminalsHaveLines DEF ScreenTypes

LEMMA FooterIs == FooterLines \in {2, 3}
BY DEF FooterLines

LEMMA AvailableIs ==
  ASSUME ScreenTypes, NEW seen \in {0, 1}
  PROVE  Room(seen) \in Int /\ AvailablePodLines(seen) \in Int
<1>1. Room(seen) \in Int
  BY ScreenFacts, FooterIs DEF Room, PodPanelChrome
<1> QED BY <1>1, ScreenFacts DEF AvailablePodLines, Larger

(* A list that is built keeps the order without doubles. *)
LEMMA KeepsOrder ==
  ASSUME ScreenTypes, Keep(Build(paused))
  PROVE  order' \in Seq(Pod) /\ Once(order')
<1>1. Build(paused).order = Ordered(paused)
  BY DEF Build
<1>2. order' = Ordered(paused)
  BY <1>1 DEF Keep
<1> QED BY <1>2, ScreenFacts, OrderedLive

LEMMA SeenIs == Seen \in {0, 1}
BY DEF Seen

(* The handlers of keys, ticks and resizes leave a View that is due. *)
Handled == ScreenKey \/ TickView \/ \E t \in Terminals : Resize(t)

LEMMA HandledTypes ==
  ASSUME ScreenTypes, Handled
  PROVE  ScreenTypes' /\ doing = Idle /\ doing' = ViewDue /\ frame' = NoFrame
<1>1. CASE TickView
  BY <1>1 DEF TickView, Return, viewVars, ScreenTypes
<1>2. ASSUME NEW t \in Terminals, Resize(t)
      PROVE  ScreenTypes' /\ doing = Idle /\ doing' = ViewDue /\ frame' = NoFrame
  <2>1. t.columns[layout.podLines] \in ColumnCounts
    BY ScreenFacts, TerminalsHaveLines
  <2>2. layout' \in [budget : Int, columns : ColumnCounts, podLines : PodLines]
    BY <1>2, <2>1 DEF Resize, ScreenTypes
  <2> QED BY <1>2, <2>2 DEF Resize, Return, ScreenTypes
<1>3. CASE ScreenKey
  <2>1. /\ UNCHANGED <<live, order, rank, terminal, fleet>> /\ doing = Idle /\ doing' = ViewDue
        /\ frame' = NoFrame
    BY <1>3 DEF ScreenKey, GroupModeKey, DetailsKey, FilterKey, ClearFilter, LeaveFilter, EditFilter,
         FilteringKey, ListKey, Key, ResetAnchor, Return
  <2>2. query' \subseteq Pod
    BY <1>3, QueriesMatchPods DEF ScreenKey, GroupModeKey, DetailsKey, FilterKey, ClearFilter, LeaveFilter,
         EditFilter, FilteringKey, ScreenTypes
  <2>3. layout' \in [budget : Int, columns : ColumnCounts, podLines : PodLines]
    <3>1. ASSUME NEW l \in PodLines, DetailsKey(l, terminal.columns[l])
          PROVE  layout' \in [budget : Int, columns : ColumnCounts, podLines : PodLines]
      <4>1. terminal.columns[l] \in ColumnCounts
        BY ScreenFacts
      <4> QED BY <3>1, <4>1 DEF DetailsKey, ScreenTypes
    <3>2. CASE ~\E l \in PodLines : DetailsKey(l, terminal.columns[l])
      <4>1. layout' = layout
        BY <1>3, <3>2 DEF ScreenKey, GroupModeKey, FilterKey, ClearFilter, LeaveFilter, EditFilter,
             FilteringKey
      <4> QED BY <4>1 DEF ScreenTypes
    <3> QED BY <3>1, <3>2
  <2> QED BY <2>1, <2>2, <2>3 DEF ScreenTypes
<1> QED BY <1>1, <1>2, <1>3 DEF Handled
LEMMA ViewTypes ==
  ASSUME ScreenTypes, MeasureBody \/ PaintBody \/ PaintFooter \/ MeasureForKeys \/ Combine
  PROVE  ScreenTypes'
<1>1. UNCHANGED <<live, rank, query, terminal, fleet>>
  BY DEF MeasureBody, PaintBody, PaintFooter, MeasureForKeys, Combine, Measure, ViewStep
<1>2. doing' \in {Idle, ViewDue} \cup {Doing(op) : op \in {"body", "footer", "keys", "combine"}}
  BY DEF MeasureBody, PaintBody, PaintFooter, MeasureForKeys, Combine, Measure, ViewStep
<1>3. order' \in Seq(Pod) /\ Once(order')
  <2>1. CASE PaintBody \/ Combine
    BY <2>1, KeepsOrder DEF PaintBody, Combine, BuildForFooter
  <2>2. CASE MeasureBody \/ PaintFooter \/ MeasureForKeys
    BY <2>2 DEF MeasureBody, PaintFooter, MeasureForKeys, Measure, ScreenTypes
  <2> QED BY <2>1, <2>2
<1>4. layout' \in [budget : Int, columns : ColumnCounts, podLines : PodLines]
  <2>1. CASE PaintBody \/ PaintFooter \/ Combine
    BY <2>1 DEF PaintBody, PaintFooter, Combine, ScreenTypes
  <2>2. CASE MeasureBody \/ MeasureForKeys
    <3>1. layout' = [layout EXCEPT !.budget = AvailablePodLines(Seen)]
      BY <2>2 DEF MeasureBody, MeasureForKeys, Measure
    <3>2. AvailablePodLines(Seen) \in Int
      BY SeenIs, AvailableIs
    <3> QED BY <3>1, <3>2 DEF ScreenTypes
  <2> QED BY <2>1, <2>2
<1> QED BY <1>1, <1>2, <1>3, <1>4 DEF ScreenTypes

LEMMA StatusTypes ==
  ASSUME ScreenTypes, StatusStep \/ UNCHANGED screenVars
  PROVE  ScreenTypes' /\ UNCHANGED <<listVars, terminal, fleet, frame>>
BY DEF StatusStep, screenVars, listVars, viewVars, ScreenTypes

-----------------------------------------------------------------------------
(* The lines of the pods *)

(* Among n numbers there is a greatest. *)
LEMMA Greatest ==
  ASSUME NEW g, NEW n \in Nat, n # 0, \A i \in 1..n : g[i] \in Int
  PROVE  \E j \in 1..n : \A i \in 1..n : g[i] <= g[j]
<1> DEFINE T == {m \in Nat : m + 1 <= n => \E j \in 1..(m + 1) : \A i \in 1..(m + 1) : g[i] <= g[j]}
<1>1. 0 \in T
  OBVIOUS
<1>2. ASSUME NEW m \in Nat, m \in T
      PROVE  m + 1 \in T
  <2> SUFFICES ASSUME m + 2 <= n
               PROVE  \E j \in 1..(m + 2) : \A i \in 1..(m + 2) : g[i] <= g[j]
    OBVIOUS
  <2>1. PICK j \in 1..(m + 1) : \A i \in 1..(m + 1) : g[i] <= g[j]
    BY <1>2
  <2>2. \A i \in 1..(m + 2) : i \in 1..(m + 1) \/ i = m + 2
    OBVIOUS
  <2>3. g[j] \in Int /\ g[m + 2] \in Int /\ \A i \in 1..(m + 2) : g[i] \in Int
    OBVIOUS
  <2>4. CASE g[j] >= g[m + 2]
    BY <2>1, <2>2, <2>3, <2>4
  <2>5. CASE g[j] < g[m + 2]
    <3>1. \A i \in 1..(m + 2) : g[i] <= g[m + 2]
      BY <2>1, <2>2, <2>3, <2>5
    <3> QED BY <3>1
  <2> QED BY <2>3, <2>4, <2>5
<1>3. Nat \subseteq T
  <2> HIDE DEF T
  <2> QED BY <1>1, <1>2, Induct
<1>4. n - 1 \in T
  BY <1>3
<1> QED BY <1>4

LEMMA LinesAreInt ==
  ASSUME NEW c \in Seq(Pod), LayoutFacts
  PROVE  Lines(c) \in Int
<1>1. IsFiniteSet(DOMAIN c)
  BY FS_Interval
<1>2. Begins(c) \in SUBSET DOMAIN c
  BY DEF Begins
<1>3. Cardinality(Begins(c)) \in Nat
  BY <1>1, <1>2, FS_Subset, FS_CardinalityType
<1> DEFINE k == Cardinality(Begins(c))
           n == Len(c)
<1>4. Lines(c) = n * layout.podLines + k * (1 + HeaderLines) - 1
  BY DEF Lines, Begins
<1>5. k \in Nat /\ n \in Nat
  BY <1>3
<1> HIDE DEF k, n
<1>6. n * layout.podLines \in Int /\ k * (1 + HeaderLines) \in Int
  BY <1>5, HeaderIs DEF LayoutFacts
<1> QED BY <1>4, <1>6

(* A page has no more lines than the list is laid out for, but for a lone  *)
(* pod with its header.                                                    *)
LEMMA BodyIs ==
  ASSUME ScreenTypes
  PROVE  LET body == BodyLines(Build(paused))
         IN  /\ body \in Int
             /\ \/ body <= 2
                \/ body <= layout.budget + 2
                \/ body <= layout.podLines + 3 /\ live \cap query # {}
<1> DEFINE s == Build(paused)
           pg == s.pages[s.page]
           IsTallest(j) == \A i \in DOMAIN pg : Lines(pg[i]) <= Lines(pg[j])
           tallest == CHOOSE j \in DOMAIN pg : IsTallest(j)
           body == BodyLines(s)
<1>1. /\ s.rows \in Seq(Pod) /\ Range(s.rows) = live \cap query /\ Once(s.rows)
      /\ s.pages = Paginate(s.rows) /\ s.pages \in Seq(Seq(Seq(Pod)))
      /\ s.rows # <<>> => s.page \in 1..Len(s.pages)
  BY ScreenFacts, BuildIs
<1>2. LayoutFacts /\ layout.columns \in Nat \ {0}
  BY ScreenFacts DEF TypedLayout
<1>3. body = IF s.rows = <<>> THEN (IF query # Pod THEN 1 ELSE 2) ELSE Lines(pg[tallest]) - TrailingBlank + 2
  BY DEF BodyLines
<1> HIDE DEF s, body
<1>4. CASE s.rows = <<>>
  BY <1>3, <1>4 DEF body, s
<1>5. CASE s.rows # <<>>
  <2>1. /\ pg \in Seq(Seq(Pod)) /\ pg # <<>>
        /\ \A j \in 1..Len(pg) : pg[j] \in Seq(Pod) /\ pg[j] # <<>> /\ ColumnFits(pg[j])
    <3>1. \A i \in 1..Len(s.pages) :
            /\ s.pages[i] # <<>>
            /\ \A j \in 1..Len(s.pages[i]) : s.pages[i][j] # <<>> /\ ColumnFits(s.pages[i][j])
      BY <1>1, <1>2, PagesHold
    <3>2. pg \in Seq(Seq(Pod))
      BY <1>1, <1>5
    <3>3. \A j \in 1..Len(pg) : pg[j] \in Seq(Pod)
      BY <3>2
    <3> QED BY <1>1, <1>5, <3>1, <3>2, <3>3
  <2> HIDE DEF pg
  <2> DEFINE g == [i \in 1..Len(pg) |-> Lines(pg[i])]
  <2>2. Len(pg) \in Nat /\ Len(pg) # 0 /\ DOMAIN pg = 1..Len(pg)
    BY <2>1
  <2>3. \A i \in 1..Len(pg) : g[i] \in Int /\ g[i] = Lines(pg[i])
    BY <1>2, <2>1, LinesAreInt
  <2>4. \E j \in 1..Len(pg) : \A i \in 1..Len(pg) : g[i] <= g[j]
    <3> HIDE DEF g
    <3> QED BY <2>2, <2>3, Greatest
  <2>5. \E j \in DOMAIN pg : IsTallest(j)
    BY <2>2, <2>3, <2>4
  <2>6. tallest \in 1..Len(pg)
    BY <2>2, <2>5
  <2> DEFINE c == pg[tallest]
  <2> HIDE DEF tallest, g
  <2>7. c \in Seq(Pod) /\ c # <<>> /\ ColumnFits(c) /\ Lines(c) \in Int
    BY <1>2, <2>1, <2>6, LinesAreInt
  <2>8. body = Lines(c) - TrailingBlank + 2
    BY <1>3, <1>5
  <2>9. live \cap query # {}
    BY <1>1, <1>5, SeqRange
  <2> HIDE DEF c
  <2>10. CASE Lines(c) <= layout.budget
    BY <1>2, <2>7, <2>8, <2>10, BlankLineOrNone DEF body, s, LayoutFacts
  <2>11. CASE Len(c) = 1
    <3>1. c = <<c[1]>> /\ c[1] \in Pod
      BY <2>7, <2>11
    <3>2. Lines(c) = layout.podLines + HeaderLines
      BY <1>2, <3>1, LinesOfOne
    <3>3. body \in Int /\ body <= layout.podLines + 3
      BY <1>2, <2>7, <2>8, <3>2, HeaderIs, BlankLineOrNone DEF LayoutFacts
    <3> QED BY <2>9, <3>3 DEF body, s
  <2> QED BY <2>7, <2>10, <2>11 DEF ColumnFits
<1> QED BY <1>4, <1>5
-----------------------------------------------------------------------------
(* The fleet panel *)

LEMMA FiveAreFinite ==
  ASSUME NEW a, NEW b, NEW c, NEW d, NEW e
  PROVE  IsFiniteSet({a, b, c, d, e})
<1>1. IsFiniteSet({a})
  BY FS_Singleton
<1>2. IsFiniteSet({a} \cup {b})
  BY <1>1, FS_AddElement
<1>3. IsFiniteSet({a} \cup {b} \cup {c})
  BY <1>2, FS_AddElement
<1>4. IsFiniteSet({a} \cup {b} \cup {c} \cup {d})
  BY <1>3, FS_AddElement
<1>5. IsFiniteSet({a} \cup {b} \cup {c} \cup {d} \cup {e})
  BY <1>4, FS_AddElement
<1>6. {a} \cup {b} \cup {c} \cup {d} \cup {e} = {a, b, c, d, e}
  OBVIOUS
<1> QED BY <1>5, <1>6

LEMMA RollupIsNat ==
  ASSUME NEW nodes, NEW details
  PROVE  RollupLines(nodes, details) \in Nat
<1> DEFINE F == {"pool", "capacity", "instance", "zone", "kubelet"}
           G == {"region", "system", "image", "osImage", "runtime"}
           H == {f \in RollupFields(details) : Counted(nodes, f) # {}}
<1>1. IsFiniteSet(F) /\ IsFiniteSet(G)
  BY FiveAreFinite
<1> HIDE DEF F, G
<1>2. IsFiniteSet(F \cup G)
  BY <1>1, FS_Union
<1>3. H \in SUBSET (F \cup G)
  BY DEF RollupFields, F, G
<1>4. Cardinality(H) \in Nat
  BY <1>2, <1>3, FS_Subset, FS_CardinalityType
<1> QED BY <1>4 DEF RollupLines

FleetRows == [rows : Int, hidden : Int, rollup : Int, lines : Int]

(* What a plan with rows promises. *)
IsPlanFor(p, nodes, maxLines) ==
  /\ p.rows + p.hidden = nodes /\ p.rows > 0 /\ p.hidden >= 0 /\ p.rollup >= 0
  /\ p.lines = 3 + p.rows + (IF p.hidden > 0 THEN 1 ELSE 0) + (IF p.rollup > 0 THEN 1 + p.rollup ELSE 0)
  /\ p.lines <= maxLines

LEMMA PlanRowsIs ==
  ASSUME NEW nodes \in Nat, nodes # 0, NEW rollup \in Nat, NEW maxLines \in Int
  PROVE  LET p == PlanRows(nodes, rollup, maxLines)
         IN  p \in FleetRows /\ (p = NoPlan \/ IsPlanFor(p, nodes, maxLines))
<1> DEFINE chrome == 3 + (IF rollup > 0 THEN 1 + rollup ELSE 0)
           available == maxLines - chrome
           Plan(rows) == [rows |-> rows, hidden |-> nodes - rows, rollup |-> rollup,
                          lines |-> chrome + rows + (IF rows < nodes THEN 1 ELSE 0)]
<1>1. PlanRows(nodes, rollup, maxLines) =
        IF nodes <= available THEN Plan(nodes) ELSE IF available < 2 THEN NoPlan ELSE Plan(available - 1)
  BY DEF PlanRows
<1>2. chrome \in Int /\ available \in Int /\ available = maxLines - chrome
  OBVIOUS
<1>3. chrome = 3 + (IF rollup > 0 THEN 1 + rollup ELSE 0)
  OBVIOUS
<1> HIDE DEF chrome, available
<1>4. NoPlan \in FleetRows
  BY DEF NoPlan, FleetRows
<1>5. ASSUME NEW rows \in Int, rows > 0, rows <= nodes,
             chrome + rows + (IF rows < nodes THEN 1 ELSE 0) <= maxLines
      PROVE  Plan(rows) \in FleetRows /\ IsPlanFor(Plan(rows), nodes, maxLines)
  <2>1. chrome + rows + (IF rows < nodes THEN 1 ELSE 0) \in Int /\ nodes - rows \in Int
    BY <1>2
  <2>2. Plan(rows) \in FleetRows
    BY <2>1 DEF FleetRows
  <2>3. /\ Plan(rows).rows = rows /\ Plan(rows).hidden = nodes - rows /\ Plan(rows).rollup = rollup
        /\ Plan(rows).lines = chrome + rows + (IF rows < nodes THEN 1 ELSE 0)
    OBVIOUS
  <2> HIDE DEF Plan
  <2> QED BY <1>2, <1>3, <1>5, <2>2, <2>3 DEF IsPlanFor
<1>6. CASE nodes <= available
  <2>1. Plan(nodes) \in FleetRows /\ IsPlanFor(Plan(nodes), nodes, maxLines)
    BY <1>2, <1>5, <1>6
  <2> HIDE DEF Plan
  <2> QED BY <1>1, <1>6, <2>1
<1>7. CASE ~(nodes <= available) /\ ~(available < 2)
  <2>1. Plan(available - 1) \in FleetRows /\ IsPlanFor(Plan(available - 1), nodes, maxLines)
    BY <1>2, <1>5, <1>7
  <2> HIDE DEF Plan
  <2> QED BY <1>1, <1>7, <2>1
<1>8. CASE ~(nodes <= available) /\ available < 2
  <2> HIDE DEF Plan
  <2> QED BY <1>1, <1>4, <1>8
<1> QED BY <1>6, <1>7, <1>8

(* A fleet in View is a sequence. *)
LEMMA FleetIs ==
  ASSUME ScreenTypes
  PROVE  /\ DOMAIN fleet = 1..Len(fleet) /\ Len(fleet) \in Nat
         /\ fleet # <<>> => Len(fleet) # 0
         /\ \E f \in Fleets : DOMAIN f = DOMAIN fleet /\ \A i \in DOMAIN fleet : fleet[i] = Details(f[i])
<1>1. PICK f \in Fleets : fleet = [i \in DOMAIN f |-> Details(f[i])]
  BY DEF ScreenTypes, KnownFleets
<1>2. f \in Seq(Range(f)) /\ DOMAIN f = 1..Len(f) /\ Len(f) \in Nat
  BY FleetsAreSequences
<1>3. fleet \in Seq({Details(f[i]) : i \in DOMAIN f})
  BY <1>1, <1>2
<1> QED BY <1>1, <1>2, <1>3

LEMMA FleetPlanIs ==
  ASSUME ScreenTypes, NEW width \in Int, NEW platform, NEW maxLines \in Int
  PROVE  LET p == FleetPlan(fleet, ShowDetails, width, platform, maxLines)
         IN  p \in FleetRows /\ (p = NoPlan \/ (fleet # <<>> /\ IsPlanFor(p, Len(fleet), maxLines)))
<1> DEFINE rollup == RollupLines(fleet, ShowDetails)
           full == PlanRows(Len(fleet), rollup, maxLines)
           slim == PlanRows(Len(fleet), 0, maxLines)
           p == FleetPlan(fleet, ShowDetails, width, platform, maxLines)
<1>1. NoPlan \in FleetRows
  BY DEF NoPlan, FleetRows
<1>2. rollup \in Nat /\ 0 \in Nat
  BY RollupIsNat
<1>3. Len(fleet) \in Nat /\ (fleet # <<>> => Len(fleet) # 0)
  BY FleetIs
<1> HIDE DEF rollup
<1>4. fleet # <<>> =>
        /\ full \in FleetRows /\ (full = NoPlan \/ IsPlanFor(full, Len(fleet), maxLines))
        /\ slim \in FleetRows /\ (slim = NoPlan \/ IsPlanFor(slim, Len(fleet), maxLines))
  BY <1>2, <1>3, PlanRowsIs
<1>5. p \in {NoPlan, full, slim} /\ (p # NoPlan => fleet # <<>>)
  BY DEF FleetPlan, rollup
<1> HIDE DEF full, slim, p
<1> QED BY <1>1, <1>4, <1>5 DEF p
(* The panels above the fleet: eleven lines at least, if there are nodes   *)
(* and pods.                                                               *)
LEMMA SidebarIs ==
  ASSUME ScreenTypes
  PROVE  /\ SidebarLines \in Nat
         /\ fleet # <<>> /\ live \cap query # {} => SidebarLines >= 11
<1> DEFINE HasSystem(n) == {n.system, n.osImage, n.kubelet, n.runtime} # {""}
           described == {i \in DOMAIN fleet : HasSystem(fleet[i])}
           count == Cardinality(described)
           n == Len(fleet)
<1>1. n \in Nat /\ DOMAIN fleet = 1..n /\ (fleet # <<>> => n # 0)
  BY FleetIs
<1>2. count \in Nat
  <2>1. IsFiniteSet(DOMAIN fleet)
    BY <1>1, FS_Interval
  <2>2. described \in SUBSET DOMAIN fleet
    OBVIOUS
  <2> HIDE DEF described
  <2> QED BY <2>1, <2>2, FS_Subset, FS_CardinalityType
<1>3. PressureLines = IF fleet = <<>> THEN 3
                      ELSE 2 + 3 * n + (IF ShowDetails THEN n + count ELSE 0) + (n - 1)
  BY DEF PressureLines
<1> HIDE DEF count, n
<1>4. PressureLines \in Nat /\ (fleet # <<>> => PressureLines >= 5)
  <2>1. CASE fleet = <<>>
    BY <1>3, <2>1
  <2>2. CASE fleet # <<>>
    <3> DEFINE more == IF ShowDetails THEN n + count ELSE 0
    <3>1. more \in Nat
      BY <1>1, <1>2
    <3>2. PressureLines = 2 + 3 * n + more + (n - 1)
      BY <1>3, <2>2
    <3> HIDE DEF more
    <3> QED BY <1>1, <2>2, <3>1, <3>2
  <2> QED BY <2>1, <2>2
<1>5. SignalLines \in {4, 6} /\ (live \cap query # {} => SignalLines = 6)
  BY DEF SignalLines
<1> QED BY <1>4, <1>5 DEF SidebarLines

LEMMA BudgetIs ==
  ASSUME ScreenTypes, NEW body \in Int
  PROVE  FleetBudget(body) \in Int
BY SidebarIs, ScreenFacts DEF FleetBudget, Larger, PodsChromeLines

LEMMA PanelIs ==
  ASSUME ScreenTypes, NEW body \in Int
  PROVE  LET p == FleetPanel(body)
         IN  p \in FleetRows /\ (p = NoPlan \/ (fleet # <<>> /\ IsPlanFor(p, Len(fleet), FleetBudget(body))))
<1>1. terminal.sidebar - 4 \in Int
  BY ScreenFacts
<1> QED BY <1>1, BudgetIs, FleetPlanIs DEF FleetPanel

-----------------------------------------------------------------------------
(* The phases of a View *)

LEMMA FrameFields ==
  ASSUME NEW f, DOMAIN f = {"seen", "body", "footer", "plan", "lines"}
  PROVE  /\ \A v : LET g == [f EXCEPT !.seen = v]
                   IN  DOMAIN g = DOMAIN f /\ g.seen = v /\ g.body = f.body /\ g.footer = f.footer
         /\ \A v : LET g == [f EXCEPT !.body = v]
                   IN  DOMAIN g = DOMAIN f /\ g.body = v /\ g.seen = f.seen
         /\ \A v : LET g == [f EXCEPT !.footer = v]
                   IN  DOMAIN g = DOMAIN f /\ g.footer = v /\ g.seen = f.seen /\ g.body = f.body
         /\ \A v, w : LET g == [f EXCEPT !.plan = v, !.lines = w]
                      IN  /\ DOMAIN g = DOMAIN f /\ g.plan = v /\ g.lines = w
                          /\ g.seen = f.seen /\ g.body = f.body /\ g.footer = f.footer
OBVIOUS

(* A phase rests on nothing but these. *)
phaseVars == <<live, query, filtering, terminal, fleet, layout.podLines>>

LEMMA PhaseLines ==
  ASSUME UNCHANGED phaseVars
  PROVE  /\ FooterLines' = FooterLines /\ ShowDetails' = ShowDetails
         /\ SidebarLines' = SidebarLines
         /\ layout'.podLines = layout.podLines
         /\ \A seen : Room(seen)' = Room(seen)
<1>1. FooterLines' = FooterLines /\ ShowDetails' = ShowDetails
  BY DEF phaseVars, FooterLines, ShowDetails
<1>2. SidebarLines' = SidebarLines
  BY <1>1 DEF phaseVars, SidebarLines, PressureLines, SignalLines
<1>3. \A seen : Room(seen)' = Room(seen)
  BY <1>1 DEF phaseVars, Room
<1> QED BY <1>1, <1>2, <1>3 DEF phaseVars
LEMMA PhasesHandled ==
  ASSUME ScreenTypes, Handled
  PROVE  Phases'
<1>1. doing' = ViewDue /\ frame' = NoFrame
  BY HandledTypes
<1>2. doing'.op = "view" /\ frame'.seen = 0 /\ DOMAIN frame' = {"seen", "body", "footer", "plan", "lines"}
  BY <1>1 DEF ViewDue, NoFrame
<1> QED BY <1>2 DEF Phases, BodyMeasured

LEMMA PhasesStay ==
  ASSUME Phases, UNCHANGED <<listVars, terminal, fleet, frame>>
  PROVE  Phases'
<1>1. UNCHANGED <<phaseVars, layout, doing, frame>>
  BY DEF listVars, viewVars, phaseVars
<1>2. /\ FooterLines' = FooterLines /\ ShowDetails' = ShowDetails /\ SidebarLines' = SidebarLines
      /\ \A seen : Room(seen)' = Room(seen)
  BY <1>1, PhaseLines
<1>3. AvailablePodLines(frame.seen)' = AvailablePodLines(frame.seen)
  BY <1>1, <1>2 DEF AvailablePodLines
<1>4. FleetPanel(frame.body)' = FleetPanel(frame.body)
  BY <1>1, <1>2 DEF FleetPanel, Title, FleetBudget, phaseVars
<1>5. BodyMeasured' = BodyMeasured
  BY <1>1, <1>3 DEF BodyMeasured
<1>6. BodyFits' = BodyFits
  BY <1>1, <1>2 DEF BodyFits, phaseVars
<1>7. FooterFits' = FooterFits
  BY <1>1, <1>2 DEF FooterFits
<1>8. Combined' = Combined
  BY <1>1, <1>2, <1>4 DEF Combined, phaseVars
<1> QED BY <1>1, <1>5, <1>6, <1>7, <1>8 DEF Phases

LEMMA PhasesMeasureBody ==
  ASSUME ScreenTypes, Phases, MeasureBody
  PROVE  Phases'
<1>1. /\ doing' = Doing("body") /\ frame' = [frame EXCEPT !.seen = Seen]
      /\ layout' = [layout EXCEPT !.budget = AvailablePodLines(Seen)]
      /\ UNCHANGED <<live, query, filtering, terminal, fleet>>
  BY DEF MeasureBody, Measure, ViewStep
<1>2. layout'.budget = AvailablePodLines(Seen) /\ layout'.podLines = layout.podLines
  BY <1>1 DEF ScreenTypes
<1>3. UNCHANGED phaseVars
  BY <1>1, <1>2 DEF phaseVars
<1>4. DOMAIN frame' = DOMAIN frame /\ frame'.seen = Seen
  BY <1>1, FrameFields DEF Phases
<1>5. doing'.op = "body"
  BY <1>1 DEF Doing
<1>6. Room(frame.seen)' = Room(Seen)
  <2>1. (Room(frame.seen))' = terminal'.height - terminal'.banner - FooterLines' - frame'.seen - PodPanelChrome
    BY DEF Room, PodPanelChrome
  <2> QED BY <1>1, <1>3, <1>4, <2>1, PhaseLines DEF Room
<1>7. AvailablePodLines(frame.seen)' = AvailablePodLines(Seen)
  BY <1>2, <1>6 DEF AvailablePodLines
<1>8. BodyMeasured'
  BY <1>2, <1>4, <1>5, <1>7, SeenIs DEF BodyMeasured
<1> QED BY <1>4, <1>5, <1>8 DEF Phases

LEMMA PhasesPaintBody ==
  ASSUME ScreenTypes, Phases, PaintBody
  PROVE  Phases'
<1> DEFINE body == BodyLines(Build(paused))
<1>1. /\ doing.op = "body" /\ doing' = Doing("footer") /\ frame' = [frame EXCEPT !.body = body]
      /\ UNCHANGED <<live, query, filtering, terminal, fleet, layout>>
  BY DEF PaintBody, ViewStep
<1>2. /\ body \in Int
      /\ body <= 2 \/ body <= layout.budget + 2 \/ (body <= layout.podLines + 3 /\ live \cap query # {})
  BY BodyIs
<1> HIDE DEF body
<1>3. UNCHANGED phaseVars
  BY <1>1 DEF phaseVars
<1>4. DOMAIN frame' = DOMAIN frame /\ frame'.body = body /\ frame'.seen = frame.seen
  BY <1>1, FrameFields DEF Phases
<1>5. doing'.op = "footer"
  BY <1>1 DEF Doing
<1>6. frame.seen \in {0, 1} /\ layout.budget = AvailablePodLines(frame.seen)
  BY <1>1 DEF Phases, BodyMeasured
<1>7. Room(frame.seen)' = Room(frame.seen)
  BY <1>1, <1>3, <1>4, PhaseLines DEF Room
<1>8. Room(frame.seen) \in Int /\ layout.podLines \in Nat \ {0}
  BY <1>6, AvailableIs, ScreenFacts
<1>9. Room(frame.seen) >= layout.podLines => layout.budget = Room(frame.seen)
  BY <1>6, <1>8 DEF AvailablePodLines, Larger
<1>10. BodyFits'
  BY <1>1, <1>2, <1>4, <1>7, <1>8, <1>9 DEF BodyFits
<1> QED BY <1>4, <1>5, <1>6, <1>10 DEF Phases, BodyMeasured

LEMMA PhasesPaintFooter ==
  ASSUME ScreenTypes, OverIsOver, Phases, PaintFooter
  PROVE  Phases'
<1> DEFINE added == IF CurrentStatus THEN statusLines ELSE 0
<1>1. /\ doing.op = "footer" /\ doing' = Doing("keys") /\ frame' = [frame EXCEPT !.footer = FooterLines + added]
      /\ UNCHANGED <<live, query, filtering, terminal, fleet, layout>>
  BY DEF PaintFooter, ViewStep
<1> HIDE DEF added
<1>2. UNCHANGED phaseVars
  BY <1>1 DEF phaseVars
<1>3. DOMAIN frame' = DOMAIN frame /\ frame'.footer = FooterLines + added /\ UNCHANGED <<frame.seen, frame.body>>
  BY <1>1, FrameFields DEF Phases
<1>4. doing'.op = "keys"
  BY <1>1 DEF Doing
<1>5. FooterFits'
  <2>1. added \in Nat
    BY DEF added, OverIsOver
  <2> QED BY <1>2, <1>3, <2>1, PhaseLines, FooterIs DEF FooterFits
<1>6. Room(frame.seen)' = Room(frame.seen)
  BY <1>1, <1>2, <1>3, PhaseLines DEF Room
<1>7. BodyFits'
  BY <1>1, <1>3, <1>6 DEF BodyFits, Phases
<1> QED BY <1>3, <1>4, <1>5, <1>7 DEF Phases, BodyMeasured

LEMMA PhasesMeasureForKeys ==
  ASSUME ScreenTypes, Phases, MeasureForKeys
  PROVE  Phases'
<1>1. /\ doing.op = "keys" /\ doing' = Doing("combine")
      /\ layout' = [layout EXCEPT !.budget = AvailablePodLines(Seen)]
      /\ UNCHANGED <<live, query, filtering, terminal, fleet, frame>>
  BY DEF MeasureForKeys, Measure, ViewStep
<1>2. layout'.podLines = layout.podLines
  BY <1>1 DEF ScreenTypes
<1>3. UNCHANGED phaseVars
  BY <1>1, <1>2 DEF phaseVars
<1>4. doing'.op = "combine"
  BY <1>1 DEF Doing
<1>5. FooterFits'
  BY <1>1, <1>3, PhaseLines DEF FooterFits, Phases
<1>6. Room(frame.seen)' = Room(frame.seen)
  BY <1>1, <1>3, PhaseLines DEF Room
<1>7. BodyFits'
  BY <1>1, <1>2, <1>6 DEF BodyFits, Phases
<1> QED BY <1>1, <1>4, <1>5, <1>7 DEF Phases, BodyMeasured

LEMMA PhasesCombine ==
  ASSUME ScreenTypes, Phases, Combine
  PROVE  Phases'
<1> DEFINE plan == IF terminal.sidebar = 0 THEN NoPlan ELSE FleetPanel(frame.body)
           sidebar == IF terminal.sidebar = 0 THEN 0 ELSE SidebarLines + plan.lines
           lines == terminal.banner + Larger(frame.body, sidebar) + frame.footer
<1>1. /\ doing.op = "combine" /\ doing' = Idle
      /\ frame' = [frame EXCEPT !.plan = plan, !.lines = lines]
      /\ UNCHANGED <<live, query, filtering, terminal, fleet, layout>>
  BY DEF Combine, ViewStep
<1>2. UNCHANGED phaseVars
  BY <1>1 DEF phaseVars
<1> HIDE DEF lines, sidebar, plan
<1>3. /\ DOMAIN frame' = DOMAIN frame /\ frame'.plan = plan /\ frame'.lines = lines
      /\ UNCHANGED <<frame.seen, frame.body, frame.footer>>
  BY <1>1, FrameFields DEF Phases
<1>4. doing'.op = "idle"
  BY <1>1 DEF Idle
<1>5. FooterFits' /\ Room(frame.seen)' = Room(frame.seen)
  BY <1>1, <1>2, <1>3, PhaseLines DEF FooterFits, Room, Phases
<1>6. BodyFits'
  BY <1>1, <1>3, <1>5 DEF BodyFits, Phases
<1>7. Combined'
  <2>1. FleetPanel(frame.body)' = FleetPanel(frame.body)
    BY <1>1, <1>2, <1>3, PhaseLines DEF FleetPanel, Title, FleetBudget
  <2>2. SidebarLines' = SidebarLines
    BY <1>2, PhaseLines
  <2> QED BY <1>1, <1>3, <2>1, <2>2 DEF Combined, plan, sidebar, lines
<1> QED BY <1>3, <1>4, <1>5, <1>6, <1>7 DEF Phases, BodyMeasured

LEMMA ScreenStep ==
  ASSUME ScreenInv, [ScreenNext]_screenVars
  PROVE  ScreenInv'
<1>1. OverIsOver'
  BY StatusHolds DEF ScreenInv
<1>2. CASE Handled
  BY <1>1, <1>2, HandledTypes, PhasesHandled DEF ScreenInv
<1>3. CASE StatusStep \/ UNCHANGED screenVars
  BY <1>1, <1>3, StatusTypes, PhasesStay DEF ScreenInv
<1>4. CASE MeasureBody \/ PaintBody \/ PaintFooter \/ MeasureForKeys \/ Combine
  BY <1>1, <1>4, ViewTypes, PhasesMeasureBody, PhasesPaintBody, PhasesPaintFooter, PhasesMeasureForKeys,
     PhasesCombine DEF ScreenInv
<1> QED BY <1>2, <1>3, <1>4 DEF ScreenNext, Handled

LEMMA ScreenStart ==
  ASSUME ScreenInit
  PROVE  ScreenInv
<1>1. Once(order) /\ order \in Seq(Pod)
  BY EmptyList DEF ScreenInit, Once
<1>2. layout \in [budget : Int, columns : ColumnCounts, podLines : PodLines]
  BY LayoutsArePositive DEF ScreenInit, Layout
<1>3. fleet \in KnownFleets
  BY DEF ScreenInit, KnownFleets
<1>4. ScreenTypes
  BY <1>1, <1>2, <1>3 DEF ScreenInit, ScreenTypes
<1>5. doing.op = "view" /\ frame.seen = 0 /\ DOMAIN frame = {"seen", "body", "footer", "plan", "lines"}
  BY DEF ScreenInit, ViewDue, NoFrame
<1>6. Phases
  BY <1>5 DEF Phases, BodyMeasured
<1>7. OverIsOver
  BY DEF ScreenInit, StatusInit, OverIsOver
<1> QED BY <1>4, <1>6, <1>7 DEF ScreenInv

LEMMA ScreenAlways == ScreenSpec => []ScreenInv
<1>1. ScreenInit => ScreenInv
  BY ScreenStart
<1>2. ScreenInv /\ [ScreenNext]_screenVars => ScreenInv'
  BY ScreenStep
<1> QED BY <1>1, <1>2, PTL DEF ScreenSpec
-----------------------------------------------------------------------------
(* The title of the fleet: the best platform by a strict order that leaves *)
(* no two platforms equal.                                                 *)

Better(nodes, p, b) ==
  \/ NodesOf(nodes, p) > NodesOf(nodes, b)
  \/ NodesOf(nodes, p) = NodesOf(nodes, b) /\ PlatformRank(p) < PlatformRank(b)

KnownPlatforms == Range(Profiles)

LEMMA RankIs ==
  ASSUME NEW p \in KnownPlatforms
  PROVE  PlatformRank(p) \in Nat /\ Profiles[PlatformRank(p)] = p
<1>1. DOMAIN Profiles = 1..8
  BY DEF Profiles
<1>2. \E i \in DOMAIN Profiles : Profiles[i] = p
  BY DEF KnownPlatforms, Range
<1>3. PlatformRank(p) \in DOMAIN Profiles /\ Profiles[PlatformRank(p)] = p
  BY <1>2 DEF PlatformRank
<1> QED BY <1>1, <1>3

LEMMA PlatformIsKnown ==
  ASSUME NEW node
  PROVE  Platform(node) \in KnownPlatforms
<1>1. \A name \in {"EKS", "GKE", "AKS", "Karpenter", "AWS", "GCP", "Azure", "Kubernetes"} : name \in KnownPlatforms
  <2>1. /\ Profiles[1] = "EKS" /\ Profiles[2] = "GKE" /\ Profiles[3] = "AKS" /\ Profiles[4] = "Karpenter"
        /\ Profiles[5] = "AWS" /\ Profiles[6] = "GCP" /\ Profiles[7] = "Azure" /\ Profiles[8] = "Kubernetes"
    BY DEF Profiles
  <2>2. DOMAIN Profiles = 1..8
    BY DEF Profiles
  <2>3. \A i \in 1..8 : Profiles[i] \in KnownPlatforms
    BY <2>2 DEF KnownPlatforms, Range
  <2> QED BY <2>1, <2>3
<1>2. ASSUME NEW own, NEW a, NEW b, NEW c
      PROVE  CloudPlatform(node, own, a, b, c) \in {own, a, b, c}
  BY DEF CloudPlatform
<1>3. /\ CloudPlatform(node, "Karpenter", "EKS", "GKE", "AKS") \in KnownPlatforms
      /\ CloudPlatform(node, "Kubernetes", "AWS", "GCP", "Azure") \in KnownPlatforms
  BY <1>1, <1>2
<1> QED BY <1>1, <1>3 DEF Platform

LEMMA NodesOfIs ==
  ASSUME ScreenTypes, NEW p
  PROVE  NodesOf(fleet, p) \in Nat
<1>1. IsFiniteSet(DOMAIN fleet)
  BY FleetIs, FS_Interval
<1>2. {i \in DOMAIN fleet : fleet[i].platform = p} \in SUBSET DOMAIN fleet
  OBVIOUS
<1> QED BY <1>1, <1>2, FS_Subset, FS_CardinalityType DEF NodesOf

(* Of two platforms one is better, and better is transitive. *)
LEMMA BetterIsOrder ==
  ASSUME ScreenTypes
  PROVE  /\ \A p, q \in KnownPlatforms : p = q \/ Better(fleet, p, q) \/ Better(fleet, q, p)
         /\ \A p, q \in KnownPlatforms : ~(Better(fleet, p, q) /\ Better(fleet, q, p)) /\ ~Better(fleet, p, p)
         /\ \A p, q, r \in KnownPlatforms : Better(fleet, p, q) /\ Better(fleet, q, r) => Better(fleet, p, r)
<1>1. \A p : NodesOf(fleet, p) \in Nat
  BY NodesOfIs
<1>2. \A p \in KnownPlatforms : PlatformRank(p) \in Nat
  BY RankIs
<1>3. \A p, q \in KnownPlatforms : PlatformRank(p) = PlatformRank(q) => p = q
  BY RankIs
<1> QED BY <1>1, <1>2, <1>3 DEF Better

IsBests(g, nodes, names, n) ==
  g = [i \in 1..n |-> IF i = 1 THEN names[1]
                      ELSE LET b == g[i - 1] IN IF Better(nodes, names[i], b) THEN names[i] ELSE b]

LEMMA BestsExist ==
  ASSUME NEW nodes, NEW names, NEW n \in Nat
  PROVE  \E g : IsBests(g, nodes, names, n)
<1> DEFINE T == {m \in Nat : \E g : IsBests(g, nodes, names, m)}
<1>1. 0 \in T
  <2> DEFINE g == [i \in 1..0 |-> names[1]]
  <2>1. IsBests(g, nodes, names, 0)
    BY DEF IsBests
  <2> QED BY <2>1
<1>2. ASSUME NEW m \in Nat, m \in T
      PROVE  m + 1 \in T
  <2>1. PICK g : IsBests(g, nodes, names, m)
    BY <1>2
  <2> DEFINE next(f, i) == IF i = 1 THEN names[1]
                           ELSE LET b == f[i - 1] IN IF Better(nodes, names[i], b) THEN names[i] ELSE b
             h == [i \in 1..(m + 1) |-> IF i # m + 1 THEN g[i] ELSE next(g, m + 1)]
  <2>2. \A i \in 1..m : g[i] = next(g, i)
    BY <2>1 DEF IsBests
  <2>3. \A i \in 1..m : h[i] = g[i]
    OBVIOUS
  <2>4. h[m + 1] = next(g, m + 1)
    OBVIOUS
  <2>5. \A i \in 1..(m + 1) : h[i] = next(h, i)
    <3> SUFFICES ASSUME NEW i \in 1..(m + 1) PROVE h[i] = next(h, i)
      OBVIOUS
    <3>1. i # 1 => i - 1 \in 1..m /\ h[i - 1] = g[i - 1]
      BY <2>3
    <3>2. next(h, i) = next(g, i)
      <4> HIDE DEF h
      <4> QED BY <3>1
    <3>3. i \in 1..m \/ i = m + 1
      OBVIOUS
    <3> HIDE DEF h, next
    <3> QED BY <2>2, <2>3, <2>4, <3>2, <3>3
  <2>6. IsBests(h, nodes, names, m + 1)
    <3>1. h = [i \in 1..(m + 1) |-> next(h, i)]
      <4>1. h = [i \in 1..(m + 1) |-> h[i]]
        OBVIOUS
      <4> HIDE DEF h, next
      <4> QED BY <2>5, <4>1
    <3> HIDE DEF h
    <3> QED BY <3>1 DEF IsBests
  <2> QED BY <2>6
<1>3. Nat \subseteq T
  <2> HIDE DEF T
  <2> QED BY <1>1, <1>2, Induct
<1> QED BY <1>3

(* A walk over the platforms in any order ends with the best of them. *)
LEMMA DominantIsBest ==
  ASSUME ScreenTypes, NEW S \in SUBSET KnownPlatforms, NEW n \in Nat, n # 0, NEW names \in [1..n -> S]
  PROVE  LET d == DominantPlatform(fleet, names)
         IN  /\ d \in S
             /\ \A j \in 1..n : ~Better(fleet, names[j], d)
<1> DEFINE g == CHOOSE g : IsBests(g, fleet, names, n)
<1>1. names # <<>> /\ Len(names) = n
  <2>1. names \in Seq(S) /\ Len(names) = n
    OBVIOUS
  <2> QED BY <2>1
<1>2. DominantPlatform(fleet, names) = g[n]
  BY <1>1 DEF DominantPlatform, IsBests, Better
<1>3. IsBests(g, fleet, names, n)
  BY BestsExist
<1> HIDE DEF g
<1> DEFINE T == {m \in Nat : m + 1 <= n => /\ g[m + 1] \in S
                                           /\ \A j \in 1..(m + 1) : ~Better(fleet, names[j], g[m + 1])}
<1>4. 0 \in T
  <2>1. g[1] = names[1] /\ names[1] \in KnownPlatforms /\ names[1] \in S
    BY <1>3 DEF IsBests
  <2>2. \A j \in 1..(0 + 1) : j = 1
    OBVIOUS
  <2> QED BY <2>1, <2>2, BetterIsOrder
<1>5. ASSUME NEW m \in Nat, m \in T
      PROVE  m + 1 \in T
  <2> SUFFICES ASSUME m + 2 <= n
               PROVE  /\ g[m + 2] \in S
                      /\ \A j \in 1..(m + 2) : ~Better(fleet, names[j], g[m + 2])
    OBVIOUS
  <2> DEFINE b == g[m + 1]
             x == names[m + 2]
  <2>1. b \in S /\ \A j \in 1..(m + 1) : ~Better(fleet, names[j], b)
    BY <1>5
  <2>2. g[m + 2] = IF Better(fleet, x, b) THEN x ELSE b
    BY <1>3 DEF IsBests
  <2>3. x \in S /\ \A j \in 1..(m + 2) : names[j] \in S
    OBVIOUS
  <2>4. \A j \in 1..(m + 2) : j \in 1..(m + 1) \/ j = m + 2
    OBVIOUS
  <2> HIDE DEF b, T
  <2>5. CASE Better(fleet, x, b)
    <3>1. g[m + 2] = x
      BY <2>2, <2>5
    <3>2. ASSUME NEW j \in 1..(m + 1), Better(fleet, names[j], x) PROVE FALSE
      <4>1. names[j] \in KnownPlatforms /\ x \in KnownPlatforms /\ b \in KnownPlatforms
        BY <2>1, <2>3
      <4>2. Better(fleet, names[j], b)
        BY <2>5, <3>2, <4>1, BetterIsOrder
      <4> QED BY <2>1, <4>2
    <3>3. ~Better(fleet, x, x)
      BY <2>3, BetterIsOrder
    <3> QED BY <2>3, <2>4, <3>1, <3>2, <3>3 DEF x
  <2>6. CASE ~Better(fleet, x, b)
    BY <2>1, <2>2, <2>4, <2>6 DEF x
  <2> QED BY <2>5, <2>6
<1>6. n - 1 \in T
  <2>1. Nat \subseteq T
    <3> HIDE DEF T
    <3> QED BY <1>4, <1>5, Induct
  <2>2. n - 1 \in Nat
    OBVIOUS
  <2> HIDE DEF T
  <2> QED BY <2>1, <2>2
<1>7. g[n] \in S /\ \A j \in 1..n : ~Better(fleet, names[j], g[n])
  <2>1. n - 1 + 1 = n
    OBVIOUS
  <2> QED BY <1>6, <2>1
<1> QED BY <1>2, <1>7

(* SetToSeq is one of the orders that SetToSeqs gives. *)
LEMMA OrdersAre ==
  ASSUME NEW S, IsFiniteSet(S), NEW names,
         names \in SetToSeqs(S) \/ names = SetToSeq(S)
  PROVE  /\ Cardinality(S) \in Nat /\ names \in [1..Cardinality(S) -> S]
         /\ \A p \in S : \E i \in 1..Cardinality(S) : names[i] = p
<1> DEFINE n == Cardinality(S)
<1>1. n \in Nat /\ ExistsBijection(1..n, S)
  BY FS_CardinalityType
<1>2. SetToSeq(S) \in Injection(1..n, S)
  <2>1. \E f : f \in Injection(1..n, S)
    BY <1>1 DEF ExistsBijection, Bijection
  <2>2. \E f \in [1..n -> S] : IsInjective(f)
    BY <2>1 DEF Injection
  <2> QED BY <2>2 DEF SetToSeq, Injection
<1>3. names \in Injection(1..n, S)
  <2>1. CASE names \in SetToSeqs(S)
    <3>1. names \in [1..n -> S] /\ \A i, j \in 1..n : i # j => names[i] # names[j]
      BY <2>1 DEF SetToSeqs
    <3>2. IsInjective(names)
      BY <3>1 DEF IsInjective
    <3> QED BY <3>1, <3>2 DEF Injection
  <2> QED BY <1>2, <2>1
<1>4. IsFiniteSet(1..n) /\ Cardinality(1..n) = n
  BY <1>1, FS_Interval
<1>5. names \in Surjection(1..n, S)
  BY <1>3, <1>4, FS_Injection
<1> QED BY <1>1, <1>3, <1>5 DEF Injection, Surjection

LEMMA PlatformsAre ==
  ASSUME ScreenTypes
  PROVE  IsFiniteSet(Platforms(fleet)) /\ Platforms(fleet) \in SUBSET KnownPlatforms
<1>1. PICK f \in Fleets : DOMAIN f = DOMAIN fleet /\ \A i \in DOMAIN fleet : fleet[i] = Details(f[i])
  BY FleetIs
<1>2. \A i \in DOMAIN fleet : fleet[i].platform \in KnownPlatforms
  <2> TAKE i \in DOMAIN fleet
  <2>1. fleet[i].platform = Platform(f[i])
    <3>1. Details(f[i]).platform = Platform(f[i])
      BY DEF Details
    <3> QED BY <1>1, <3>1
  <2> QED BY <2>1, PlatformIsKnown
<1>3. IsFiniteSet(DOMAIN fleet)
  BY FleetIs, FS_Interval
<1> DEFINE m == [i \in DOMAIN fleet |-> fleet[i].platform]
<1>4. m \in Surjection(DOMAIN fleet, Platforms(fleet))
  BY DEF Surjection, Platforms
<1>5. IsFiniteSet(Platforms(fleet))
  <2> HIDE DEF m
  <2> QED BY <1>3, <1>4, FS_Surjection
<1> QED BY <1>2, <1>5 DEF Platforms

LEMMA SteadyTitle ==
  ASSUME ScreenTypes
  PROVE  TitleIsSteady
<1> DEFINE S == Platforms(fleet)
           n == Cardinality(S)
           first == SetToSeq(S)
           title == DominantPlatform(fleet, first)
<1>1. IsFiniteSet(S) /\ S \in SUBSET KnownPlatforms
  BY PlatformsAre
<1>2. title = Title
  BY DEF Title
<1> HIDE DEF S, title, first
<1>3. ASSUME NEW o \in SetToSeqs(S)
      PROVE  DominantPlatform(fleet, o) = title
  <2>1. /\ n \in Nat /\ o \in [1..n -> S] /\ \A p \in S : \E i \in 1..n : o[i] = p
        /\ first \in [1..n -> S] /\ \A p \in S : \E i \in 1..n : first[i] = p
    BY <1>1, OrdersAre DEF first
  <2>2. CASE n = 0
    <3>1. o = <<>> /\ first = <<>>
      <4>1. 1..n = {}
        BY <2>2
      <4>2. o \in Seq(S) /\ first \in Seq(S) /\ Len(o) = 0 /\ Len(first) = 0
        BY <2>1, <2>2
      <4> QED BY <4>2
    <3> QED BY <3>1 DEF title
  <2>3. CASE n # 0
    <3> DEFINE d == DominantPlatform(fleet, o)
    <3>1. d \in S /\ \A i \in 1..n : ~Better(fleet, o[i], d)
      BY <1>1, <2>1, <2>3, DominantIsBest
    <3>2. title \in S /\ \A i \in 1..n : ~Better(fleet, first[i], title)
      BY <1>1, <2>1, <2>3, DominantIsBest DEF title
    <3>3. ~Better(fleet, title, d) /\ ~Better(fleet, d, title)
      <4> HIDE DEF d, n
      <4> QED BY <2>1, <3>1, <3>2
    <3> QED BY <1>1, <3>1, <3>2, <3>3, BetterIsOrder
  <2> QED BY <2>2, <2>3
<1> QED BY <1>2, <1>3 DEF TitleIsSteady, S

-----------------------------------------------------------------------------
(* The theorems *)

(* A message is taken from the status line only when its time is over,     *)
(* though the UI reads and clears it in two sections of the lock           *)
(* (currentStatus).                                                        *)
THEOREM StatusIsKept == ScreenSpec => StatusNotCutShort
<1>1. ASSUME ScreenInv, [ScreenNext]_screenVars
      PROVE  [status = "valid" => status' # "none"]_statusVars
  BY <1>1, StatusHolds DEF ScreenInv
<1> QED BY <1>1, ScreenAlways, PTL DEF ScreenSpec, StatusNotCutShort

(* Laid out for the lines that the terminal leaves, the pages show every   *)
(* pod that matches, in columns that fit (availablePodLines,               *)
(* paginateGroups).                                                        *)
THEOREM ListHoldsOnScreen == ScreenSpec => [](PagesShowEveryPod /\ ColumnsFit)
<1>1. ScreenInv => PagesShowEveryPod /\ ColumnsFit
  BY ScreenFacts, PagesAreWhole DEF ScreenInv
<1> QED BY <1>1, ScreenAlways, PTL

(* The fleet panel shows or counts every node and stays within the lines   *)
(* that the panels above it leave (plan, renderNodeFleetPanel).            *)
THEOREM FleetAlwaysFits == ScreenSpec => []FleetFitsItsBudget
<1>1. ASSUME ScreenInv, doing = Idle, frame.plan # NoPlan
      PROVE  IsPlanFor(frame.plan, Len(fleet), FleetBudget(frame.body))
  <2>1. doing.op = "idle"
    BY <1>1 DEF Idle
  <2>2. frame.body \in Int /\ frame.plan = IF terminal.sidebar = 0 THEN NoPlan ELSE FleetPanel(frame.body)
    BY <1>1, <2>1 DEF ScreenInv, Phases, BodyFits, Combined
  <2> QED BY <1>1, <2>2, PanelIs DEF ScreenInv
<1>2. ScreenInv => FleetFitsItsBudget
  BY <1>1 DEF FleetFitsItsBudget, IsPlanFor
<1> QED BY <1>2, ScreenAlways, PTL

(* A fleet of l lines in the budget that a body of b lines gives it, below *)
(* panels of s lines; o lines are outside, r are left for pods.            *)
LEMMA FleetSums ==
  ASSUME NEW b \in Int, NEW h \in Int, NEW s \in Int, NEW o \in Int, NEW l \in Int, NEW r \in Int,
         l <= (b + 1) - s, r = (h - o) - 3
  PROVE  /\ b <= r + 2 => o + s + l <= h
         /\ b <= r + 3 => o + s + l <= h + 1
OBVIOUS

(* What is below the banner fits, if the panels above the fleet do.        *)
LEMMA SidebarFits ==
  ASSUME ScreenInv, doing = Idle,
         Room(frame.seen) >= layout.podLines,
         terminal.sidebar > 0,
         terminal.banner + FooterLines + frame.seen + SidebarLines <= terminal.height
  PROVE  terminal.banner + (SidebarLines + frame.plan.lines) + FooterLines + frame.seen
           <= terminal.height + IF IsTight THEN 1 ELSE 0
<1> DEFINE p == frame.plan
           others == terminal.banner + FooterLines + frame.seen
           budget == FleetBudget(frame.body)
           spare == IF IsTight THEN 1 ELSE 0
<1>1. doing.op = "idle"
  BY DEF Idle
<1>2. /\ frame.body \in Int /\ frame.seen \in {0, 1}
      /\ \/ frame.body <= Room(frame.seen) + 2
         \/ frame.body <= layout.podLines + 3 /\ live \cap query # {}
      /\ p = FleetPanel(frame.body)
  BY <1>1 DEF ScreenInv, Phases, BodyMeasured, BodyFits, Combined
<1>3. /\ terminal.height \in Nat /\ terminal.banner \in {5, 6}
      /\ layout.podLines \in Nat \ {0} /\ FooterLines \in {2, 3}
  BY ScreenFacts, FooterIs DEF ScreenInv
<1>4. SidebarLines \in Nat /\ spare \in {0, 1}
  BY SidebarIs DEF ScreenInv
<1>5. p \in FleetRows /\ (p = NoPlan \/ (fleet # <<>> /\ IsPlanFor(p, Len(fleet), budget)))
  BY <1>2, PanelIs DEF ScreenInv
<1>6. budget = Larger(frame.body + 1, terminal.height - 10) - SidebarLines
  BY DEF FleetBudget, PodsChromeLines
<1>7. others \in 7..10 /\ others + SidebarLines <= terminal.height
  BY <1>2, <1>3, <1>4
<1>8. Room(frame.seen) = terminal.height - others - 3
  BY <1>2, <1>3 DEF Room, PodPanelChrome
<1> HIDE DEF spare
<1>9. others + SidebarLines + p.lines <= terminal.height + spare
  <2>1. CASE p = NoPlan
    <3>1. p.lines = 0
      BY <2>1 DEF NoPlan
    <3> HIDE DEF p, budget, others
    <3> QED BY <1>3, <1>4, <1>7, <3>1
  <2>2. CASE p # NoPlan
    <3>1. /\ fleet # <<>> /\ p.lines \in Int /\ p.lines >= 4 /\ p.lines <= budget
      BY <1>5, <2>2 DEF IsPlanFor, FleetRows
    <3> HIDE DEF p, budget, others
    <3>2. CASE frame.body + 1 <= terminal.height - 10
      BY <1>2, <1>3, <1>4, <1>6, <1>7, <3>1, <3>2 DEF Larger
    <3>3. CASE ~(frame.body + 1 <= terminal.height - 10)
      <4>1. budget = frame.body + 1 - SidebarLines
        BY <1>2, <1>3, <1>4, <1>6, <3>3 DEF Larger
      <4>2. p.lines <= (frame.body + 1) - SidebarLines
        BY <1>2, <1>4, <3>1, <4>1
      <4>3. /\ frame.body <= Room(frame.seen) + 2 => others + SidebarLines + p.lines <= terminal.height
            /\ frame.body <= Room(frame.seen) + 3 => others + SidebarLines + p.lines <= terminal.height + 1
        <5> DEFINE b == frame.body
                   h == terminal.height
                   s == SidebarLines
                   l == p.lines
                   room == Room(frame.seen)
        <5>1. /\ b \in Int /\ h \in Int /\ s \in Int /\ others \in Int /\ l \in Int /\ room \in Int
              /\ l <= (b + 1) - s /\ room = (h - others) - 3
          BY <1>2, <1>3, <1>4, <1>7, <1>8, <3>1, <4>2
        <5>2. (b <= room + 2 => others + s + l <= h) /\ (b <= room + 3 => others + s + l <= h + 1)
          <6> HIDE DEF b, h, s, l, room
          <6> QED BY <5>1, FleetSums
        <5> QED BY <5>2
      <4>4. CASE frame.body <= Room(frame.seen) + 2
        BY <1>3, <1>4, <1>7, <3>1, <4>3, <4>4
      <4>5. CASE frame.body <= layout.podLines + 3 /\ live \cap query # {}
        <5>1. SidebarLines >= 11
          BY <3>1, <4>5, SidebarIs DEF ScreenInv
        <5>2. CASE layout.podLines <= 10
          BY <1>2, <1>3, <1>4, <1>7, <3>1, <4>1, <4>5, <5>1, <5>2
        <5>3. CASE IsTight
          <6>1. spare = 1
            BY <5>3 DEF spare
          <6>2. frame.body <= Room(frame.seen) + 3
            BY <4>5, <5>3 DEF IsTight
          <6> QED BY <4>3, <6>1, <6>2
        <5>4. CASE layout.podLines < Room(frame.seen)
          <6>1. frame.body <= Room(frame.seen) + 2
            BY <1>2, <1>3, <1>7, <1>8, <4>5, <5>4
          <6> QED BY <1>3, <1>4, <1>7, <3>1, <4>3, <6>1
        <5> QED BY <1>3, <1>7, <1>8, <5>2, <5>3, <5>4 DEF IsTight
      <4> QED BY <1>2, <4>4, <4>5
    <3> QED BY <3>2, <3>3
  <2> QED BY <2>1, <2>2
<1>10. p.lines \in Int
  BY <1>5 DEF FleetRows, NoPlan
<1> HIDE DEF p
<1> QED BY <1>2, <1>3, <1>4, <1>9, <1>10 DEF others, p, spare

(* The frame fits the terminal, whatever pods, nodes and messages there    *)
(* are, but for the lines of a status that were not measured, and for one  *)
(* line beside a pod of eleven lines or more that has just its room:       *)
(* nodeFleetLineBudget counts the newline at the end of the body           *)
(* (availablePodLines, renderPage, writeFooter,                            *)
(* combineWithNodeUsagePanel).                                             *)
THEOREM ScreenAlwaysFits == ScreenSpec => []ScreenFits
<1>1. ASSUME ScreenInv
      PROVE  ScreenFits
  <2> DEFINE others == terminal.banner + FooterLines + frame.seen
             isTooSmall == \/ Room(frame.seen) < layout.podLines
                           \/ terminal.sidebar > 0 /\ others + SidebarLines > terminal.height
             tight == IF IsTight THEN 1 ELSE 0
             sidebar == IF terminal.sidebar = 0 THEN 0 ELSE SidebarLines + frame.plan.lines
  <2> SUFFICES ASSUME doing = Idle, ~isTooSmall
               PROVE  frame.lines <= terminal.height + Unmeasured + tight
    BY DEF ScreenFits
  <2>1. doing.op = "idle"
    BY DEF Idle
  <2>2. /\ terminal.height \in Nat /\ terminal.banner \in {5, 6} /\ terminal.sidebar \in Nat
        /\ layout.podLines \in Nat /\ FooterLines \in {2, 3} /\ SidebarLines \in Nat
    BY <1>1, ScreenFacts, FooterIs, SidebarIs DEF ScreenInv
  <2>3. /\ frame.seen \in {0, 1} /\ frame.body \in Int
        /\ frame.footer \in Nat
        /\ frame.lines = terminal.banner + Larger(frame.body, sidebar) + frame.footer
    BY <1>1, <2>1 DEF ScreenInv, Phases, BodyMeasured, BodyFits, FooterFits, Combined
  <2>4. Room(frame.seen) = terminal.height - others - 3 /\ others \in Int
    BY <2>2, <2>3 DEF Room, PodPanelChrome
  <2>5. Room(frame.seen) >= layout.podLines /\ tight \in {0, 1}
    BY <2>2, <2>4
  <2> HIDE DEF tight
  <2>6. others + frame.body <= terminal.height
    <3>1. frame.body <= Room(frame.seen) + 2 \/ frame.body <= layout.podLines + 3
      BY <1>1, <2>1, <2>5 DEF ScreenInv, Phases, BodyFits
    <3> HIDE DEF others
    <3> QED BY <2>2, <2>3, <2>4, <2>5, <3>1
  <2>7. sidebar \in Int /\ others + sidebar <= terminal.height + tight
    <3>1. CASE terminal.sidebar = 0
      BY <2>2, <2>4, <2>5, <3>1
    <3>2. CASE terminal.sidebar # 0
      <4>1. terminal.sidebar > 0 /\ others + SidebarLines <= terminal.height
        BY <2>2, <2>4, <3>2
      <4>2. frame.plan = FleetPanel(frame.body)
        BY <1>1, <2>1, <3>2 DEF ScreenInv, Phases, Combined
      <4>3. frame.plan.lines \in Int
        BY <1>1, <2>3, <4>2, PanelIs DEF ScreenInv, FleetRows
      <4>4. terminal.banner + (SidebarLines + frame.plan.lines) + FooterLines + frame.seen
                <= terminal.height + tight
        BY <1>1, <2>5, <4>1, SidebarFits DEF tight
      <4> QED BY <2>2, <2>3, <3>2, <4>3, <4>4
    <3> QED BY <3>1, <3>2
  <2> DEFINE tallest == Larger(frame.body, sidebar)
  <2>8. tallest \in Int /\ others + tallest <= terminal.height + tight
    <3> HIDE DEF others, sidebar
    <3> QED BY <2>2, <2>3, <2>4, <2>5, <2>6, <2>7 DEF Larger
  <2>9. Unmeasured \in Nat /\ frame.footer <= FooterLines + frame.seen + Unmeasured
    BY <2>2, <2>3 DEF Unmeasured, Larger
  <2> HIDE DEF tallest
  <2> QED BY <2>2, <2>3, <2>5, <2>8, <2>9 DEF tallest
<1> QED BY <1>1, ScreenAlways, PTL

(* The title of the fleet does not depend on the order in which the map of *)
(* platforms is walked (dominantPlatform).                                 *)
THEOREM TitleAlwaysSteady == ScreenSpec => []TitleIsSteady
<1>1. ScreenInv => TitleIsSteady
  BY SteadyTitle DEF ScreenInv
<1> QED BY <1>1, ScreenAlways, PTL

-----------------------------------------------------------------------------
(* The columns of the fleet *)

ColumnFields == {"alias", "machine", "instance", "capacity", "place", "pool", "system", "kubelet"}

FleetColumn == [title : Titles, field : ColumnFields, width : Nat]

LEMMA CandidatesAre ==
  ASSUME NEW platform, NEW details
  PROVE  Candidates(platform, details) \in Seq(FleetColumn)
<1> DEFINE C(title, field, most) == [title |-> title, field |-> field, width |-> most]
           first == <<C("NODE", "alias", 20)>>
           machine == IF details THEN <<C("MACHINE", "machine", 21)>> ELSE <<>>
           rest == <<C("INSTANCE", "instance", 16), C("CAPACITY", "capacity", 10), C("ZONE", "place", 16),
                     C(PoolTitle(platform), "pool", 18), C("ARCH", "system", 14), C("KUBELET", "kubelet", 22)>>
<1>1. ASSUME NEW title \in Titles, NEW field \in ColumnFields, NEW most \in Nat
      PROVE  C(title, field, most) \in FleetColumn
  BY DEF FleetColumn
<1>2. PoolTitle(platform) \in Titles
  BY DEF PoolTitle, Titles
<1>3. /\ C("NODE", "alias", 20) \in FleetColumn /\ C("MACHINE", "machine", 21) \in FleetColumn
      /\ C("INSTANCE", "instance", 16) \in FleetColumn /\ C("CAPACITY", "capacity", 10) \in FleetColumn
      /\ C("ZONE", "place", 16) \in FleetColumn /\ C(PoolTitle(platform), "pool", 18) \in FleetColumn
      /\ C("ARCH", "system", 14) \in FleetColumn /\ C("KUBELET", "kubelet", 22) \in FleetColumn
  <2> HIDE DEF C
  <2> QED BY <1>1, <1>2 DEF Titles, ColumnFields
<1>4. first \in Seq(FleetColumn) /\ machine \in Seq(FleetColumn) /\ rest \in Seq(FleetColumn)
  <2> HIDE DEF C
  <2> QED BY <1>3
<1>5. Candidates(platform, details) = first \o machine \o rest
  BY DEF Candidates
<1> HIDE DEF first, machine, rest
<1>6. first \o machine \in Seq(FleetColumn)
  BY <1>4, ConcatProperties
<1> QED BY <1>4, <1>5, <1>6, ConcatProperties

LEMMA PopulatedAre ==
  ASSUME NEW nodes, NEW platform, NEW details
  PROVE  Populated(nodes, platform, details) \in Seq(FleetColumn)
BY CandidatesAre, OnlyKeeps DEF Populated

LEMMA DetailFields ==
  ASSUME NEW node
  PROVE  ColumnFields \subseteq DOMAIN Details(node)
BY DEF Details, ColumnFields

LEMMA ColumnWidthIsNat ==
  ASSUME ScreenTypes, NEW column \in FleetColumn
  PROVE  ColumnWidth(fleet, column) \in Nat
<1> DEFINE n == Len(fleet)
           IsTitle(i) == i = n + 1 \/ fleet[i][column.field] = ""
           g == [i \in 1..(n + 1) |->
                   IF IsTitle(i) THEN Len(column.title) ELSE Len(fleet[i][column.field])]
           lengths == {Len(column.title)} \cup {Len(v) : v \in Counted(fleet, column.field)}
<1>1. n \in Nat /\ DOMAIN fleet = 1..n
  BY FleetIs
<1>2. column.title \in Titles /\ column.field \in ColumnFields /\ column.width \in Nat
  BY DEF FleetColumn
<1>3. PICK f \in Fleets : DOMAIN f = DOMAIN fleet /\ \A i \in DOMAIN fleet : fleet[i] = Details(f[i])
  BY FleetIs
<1>4. \A i \in 1..n : Len(fleet[i][column.field]) \in Nat
  <2> TAKE i \in 1..n
  <2>1. fleet[i] = Details(f[i]) /\ column.field \in DOMAIN Details(f[i])
    BY <1>1, <1>2, <1>3, DetailFields
  <2>2. \A field \in DOMAIN Details(f[i]) : Len(Details(f[i])[field]) \in Nat
    BY <1>1, <1>3, TextsHaveLengths
  <2> QED BY <2>1, <2>2
<1>5. Len(column.title) \in Nat
  BY <1>2, TextsHaveLengths
<1>6. \A i \in 1..(n + 1) : g[i] \in Nat
  <2> TAKE i \in 1..(n + 1)
  <2>1. IsTitle(i) => g[i] = Len(column.title)
    OBVIOUS
  <2>2. ~IsTitle(i) => g[i] = Len(fleet[i][column.field]) /\ i # n + 1
    OBVIOUS
  <2> HIDE DEF g, n
  <2>3. i # n + 1 => i \in 1..n
    BY <1>1
  <2> HIDE DEF IsTitle
  <2> QED BY <1>4, <1>5, <2>1, <2>2, <2>3
<1>7. \A i \in 1..(n + 1) : g[i] \in lengths
  <2> TAKE i \in 1..(n + 1)
  <2>1. ~IsTitle(i) => i \in DOMAIN fleet
    <3>1. ~IsTitle(i) => i # n + 1
      OBVIOUS
    <3> HIDE DEF IsTitle, n
    <3> QED BY <1>1, <3>1
  <2>2. ~IsTitle(i) => fleet[i][column.field] \in Counted(fleet, column.field)
    BY <2>1 DEF Counted
  <2> QED BY <2>2
<1>8. \A m \in lengths : \E i \in 1..(n + 1) : g[i] = m
  <2> TAKE m \in lengths
  <2>1. CASE m = Len(column.title)
    <3>1. n + 1 \in 1..(n + 1)
      <4> HIDE DEF n
      <4> QED BY <1>1
    <3>2. g[n + 1] = Len(column.title)
      BY <3>1
    <3> QED BY <2>1, <3>1, <3>2
  <2>2. CASE m # Len(column.title)
    <3>1. PICK v \in Counted(fleet, column.field) : m = Len(v)
      BY <2>2
    <3>2. PICK i \in DOMAIN fleet : v = fleet[i][column.field] /\ v # ""
      BY DEF Counted
    <3>3. i \in 1..(n + 1) /\ i # n + 1
      BY <1>1
    <3>4. g[i] = m
      BY <3>1, <3>2, <3>3
    <3> QED BY <3>3, <3>4
  <2> QED BY <2>1, <2>2
<1> DEFINE widest == CHOOSE k \in lengths : \A m \in lengths : m <= k
<1>9. ColumnWidth(fleet, column) = IF widest > column.width THEN column.width ELSE widest
  BY DEF ColumnWidth
<1> HIDE DEF lengths, g, n
<1>10. \E j \in 1..(n + 1) : \A i \in 1..(n + 1) : g[i] <= g[j]
  <2>1. n + 1 \in Nat /\ n + 1 # 0 /\ \A i \in 1..(n + 1) : g[i] \in Int
    BY <1>1, <1>6
  <2> QED BY <2>1, Greatest
<1>11. \E k \in lengths : \A m \in lengths : m <= k
  BY <1>7, <1>8, <1>10
<1>12. widest \in lengths
  BY <1>11
<1>13. widest \in Nat
  BY <1>6, <1>8, <1>12
<1> HIDE DEF widest
<1> QED BY <1>2, <1>9, <1>13

-----------------------------------------------------------------------------
(* The width of columns *)

IsTotal(g, s, n) == g = [i \in 0..n |-> IF i = 0 THEN 0 ELSE g[i - 1] + s[i].width]

LEMMA TotalExists ==
  ASSUME NEW s, NEW n \in Nat
  PROVE  \E g : IsTotal(g, s, n)
<1> DEFINE T == {m \in Nat : \E g : IsTotal(g, s, m)}
<1>1. 0 \in T
  <2> DEFINE g == [i \in 0..0 |-> 0]
  <2>1. IsTotal(g, s, 0)
    BY DEF IsTotal
  <2> QED BY <2>1
<1>2. ASSUME NEW m \in Nat, m \in T
      PROVE  m + 1 \in T
  <2>1. PICK g : IsTotal(g, s, m)
    BY <1>2
  <2> DEFINE h == [i \in 0..(m + 1) |-> IF i # m + 1 THEN g[i] ELSE g[m] + s[m + 1].width]
  <2>2. \A i \in 0..m : g[i] = IF i = 0 THEN 0 ELSE g[i - 1] + s[i].width
    BY <2>1 DEF IsTotal
  <2>3. \A i \in 0..m : h[i] = g[i]
    OBVIOUS
  <2>4. h[m + 1] = g[m] + s[m + 1].width
    OBVIOUS
  <2>5. \A i \in 0..(m + 1) : h[i] = IF i = 0 THEN 0 ELSE h[i - 1] + s[i].width
    BY <2>2, <2>3, <2>4
  <2>6. IsTotal(h, s, m + 1)
    BY <2>5 DEF IsTotal
  <2> QED BY <2>6
<1>3. Nat \subseteq T
  <2> HIDE DEF T
  <2> QED BY <1>1, <1>2, Induct
<1> QED BY <1>3

LEMMA WidthIs ==
  ASSUME NEW s, Len(s) \in Nat
  PROVE  \E g : IsTotal(g, s, Len(s)) /\ Width(s) = g[Len(s)] + 2 * (Len(s) - 1)
<1> DEFINE g == CHOOSE g : IsTotal(g, s, Len(s))
<1>1. IsTotal(g, s, Len(s))
  BY TotalExists
<1>2. Width(s) = g[Len(s)] + 2 * (Len(s) - 1)
  BY DEF Width, IsTotal, ColumnGap
<1> QED BY <1>1, <1>2

(* The totals of a sequence and of what begins it are the same, and grow.  *)
LEMMA TotalsAgree ==
  ASSUME NEW s, NEW n \in Nat, \A i \in 1..n : s[i] \in FleetColumn, NEW g, IsTotal(g, s, n),
         NEW t, NEW m \in 0..n, \A i \in 1..m : t[i] = s[i], NEW h, IsTotal(h, t, m)
  PROVE  h[m] = g[m]
<1> DEFINE T == {k \in Nat : k <= m => h[k] = g[k]}
<1>1. 0 \in T
  BY DEF IsTotal
<1>2. ASSUME NEW k \in Nat, k \in T
      PROVE  k + 1 \in T
  <2> SUFFICES ASSUME k + 1 <= m PROVE h[k + 1] = g[k + 1]
    OBVIOUS
  <2>1. k + 1 \in 1..m /\ k + 1 \in 0..n /\ k + 1 \in 0..m /\ k + 1 # 0 /\ k + 1 - 1 = k
    OBVIOUS
  <2>2. h[k + 1] = h[k] + t[k + 1].width
    BY <2>1 DEF IsTotal
  <2>3. g[k + 1] = g[k] + s[k + 1].width
    BY <2>1 DEF IsTotal
  <2> QED BY <1>2, <2>1, <2>2, <2>3
<1>3. Nat \subseteq T
  <2> HIDE DEF T
  <2> QED BY <1>1, <1>2, Induct
<1> QED BY <1>3

LEMMA TotalsGrow ==
  ASSUME NEW s, NEW n \in Nat, \A i \in 1..n : s[i] \in FleetColumn, NEW g, IsTotal(g, s, n)
  PROVE  /\ \A i \in 0..n : g[i] \in Nat
         /\ \A i \in 1..n : g[i - 1] <= g[i]
<1>1. \A i \in 1..n : g[i] = g[i - 1] + s[i].width /\ s[i].width \in Nat
  <2> TAKE i \in 1..n
  <2>1. i \in 0..n /\ i # 0
    OBVIOUS
  <2>2. g[i] = g[i - 1] + s[i].width
    BY <2>1 DEF IsTotal
  <2> QED BY <2>2 DEF FleetColumn
<1> DEFINE T == {k \in Nat : k <= n => g[k] \in Nat}
<1>2. 0 \in T
  BY DEF IsTotal
<1>3. ASSUME NEW k \in Nat, k \in T
      PROVE  k + 1 \in T
  <2> SUFFICES ASSUME k + 1 <= n PROVE g[k + 1] \in Nat
    OBVIOUS
  <2>1. k + 1 \in 1..n /\ k + 1 - 1 = k /\ g[k] \in Nat
    BY <1>3
  <2> QED BY <1>1, <2>1
<1>4. Nat \subseteq T
  <2> HIDE DEF T
  <2> QED BY <1>2, <1>3, Induct
<1>5. \A i \in 0..n : g[i] \in Nat
  BY <1>4
<1> HIDE DEF T
<1>6. ASSUME NEW i \in 1..n PROVE g[i - 1] <= g[i]
  <2>1. i - 1 \in 0..n
    OBVIOUS
  <2> QED BY <1>1, <1>5, <2>1
<1> QED BY <1>5, <1>6

(* More columns are wider. *)
LEMMA WidthsGrow ==
  ASSUME NEW s \in Seq(FleetColumn)
  PROVE  /\ \A n \in 1..Len(s) : Width(SubSeq(s, 1, n)) \in Int
         /\ \A n \in 1..Len(s) : n > 1 => Width(SubSeq(s, 1, n - 1)) <= Width(SubSeq(s, 1, n))
<1> DEFINE L == Len(s)
<1>1. L \in Nat /\ \A i \in 1..L : s[i] \in FleetColumn
  OBVIOUS
<1>2. PICK g : IsTotal(g, s, L)
  BY <1>1, TotalExists
<1>3. /\ \A i \in 0..L : g[i] \in Nat
      /\ \A i \in 1..L : g[i - 1] <= g[i]
  BY <1>1, <1>2, TotalsGrow
<1>4. ASSUME NEW n \in 1..L
      PROVE  Width(SubSeq(s, 1, n)) = g[n] + 2 * (n - 1)
  <2> DEFINE t == SubSeq(s, 1, n)
  <2>1. Len(t) = n /\ \A i \in 1..n : t[i] = s[i]
    OBVIOUS
  <2> HIDE DEF t
  <2>2. PICK h : IsTotal(h, t, n) /\ Width(t) = h[n] + 2 * (n - 1)
    <3>1. Len(t) \in Nat
      BY <1>1, <2>1
    <3>2. \E h : IsTotal(h, t, Len(t)) /\ Width(t) = h[Len(t)] + 2 * (Len(t) - 1)
      BY <3>1, WidthIs
    <3> QED BY <2>1, <3>2
  <2>3. h[n] = g[n]
    BY <1>1, <1>2, <2>1, <2>2, TotalsAgree
  <2> QED BY <2>2, <2>3 DEF t
<1> HIDE DEF L
<1>5. ASSUME NEW n \in 1..L
      PROVE  Width(SubSeq(s, 1, n)) \in Int
  BY <1>1, <1>3, <1>4
<1>6. ASSUME NEW n \in 1..L, n > 1
      PROVE  Width(SubSeq(s, 1, n - 1)) <= Width(SubSeq(s, 1, n))
  <2>1. n - 1 \in 1..L
    BY <1>1, <1>6
  <2>2. g[n - 1] \in Nat /\ g[n] \in Nat /\ g[n - 1] <= g[n]
    BY <1>1, <1>3, <2>1
  <2> QED BY <1>1, <1>4, <2>1, <2>2
<1> QED BY <1>5, <1>6 DEF L

(* Numbers with all the smaller ones among them are counted by the largest. *)
LEMMA DownClosed ==
  ASSUME NEW L \in Nat, NEW F \in SUBSET (1..L), \A n \in F : n > 1 => n - 1 \in F
  PROVE  Cardinality(F) \in 0..L /\ F = 1..Cardinality(F)
<1>1. CASE F = {}
  BY <1>1, FS_EmptySet
<1>2. CASE F # {}
  <2> DEFINE g == [i \in 1..L |-> IF i \in F THEN i ELSE 0]
  <2>1. L # 0 /\ \A i \in 1..L : g[i] \in Int
    <3>1. \E i : i \in 1..L
      BY <1>2
    <3>2. \A i \in 1..L : g[i] \in Int
      OBVIOUS
    <3> HIDE DEF g
    <3> QED BY <3>1, <3>2
  <2>2. PICK n \in 1..L : \A i \in 1..L : g[i] <= g[n]
    BY <2>1, Greatest
  <2>3. n \in F /\ \A i \in F : i <= n
    <3>1. PICK j \in F : j \in 1..L
      BY <1>2
    <3>2. \A i \in F : i \in 1..L /\ g[i] = i
      OBVIOUS
    <3>3. n \notin F => g[n] = 0
      OBVIOUS
    <3>4. n \in F
      <4>1. g[j] <= g[n] /\ g[j] = j
        BY <2>2, <3>1, <3>2
      <4> HIDE DEF g
      <4> QED BY <3>1, <3>3, <4>1
    <3> HIDE DEF g
    <3> QED BY <2>2, <3>2, <3>4
  <2> DEFINE T == {k \in Nat : k < n => n - k \in F}
  <2>4. 0 \in T
    BY <2>3
  <2>5. ASSUME NEW k \in Nat, k \in T PROVE k + 1 \in T
    <3> SUFFICES ASSUME k + 1 < n PROVE n - (k + 1) \in F
      OBVIOUS
    <3>1. n - k \in F /\ n - k > 1 /\ n - (k + 1) = n - k - 1
      BY <2>5
    <3> QED BY <3>1
  <2>6. Nat \subseteq T
    <3> HIDE DEF T
    <3> QED BY <2>4, <2>5, Induct
  <2>7. \A i \in 1..n : i \in F
    <3> TAKE i \in 1..n
    <3>1. n - i \in T /\ n - i < n /\ n - (n - i) = i
      BY <2>6
    <3> QED BY <3>1
  <2>8. F = 1..n
    <3> HIDE DEF T, g
    <3>1. \A i \in F : i \in 1..n
      BY <2>3
    <3> QED BY <2>7, <3>1
  <2>9. Cardinality(1..n) = n
    BY FS_Interval
  <2> QED BY <2>8, <2>9
<1> QED BY <1>1, <1>2

LEMMA ColumnsInOrder ==
  ASSUME ScreenTypes, NEW platform, NEW details, NEW width \in Int
  PROVE  LET columns == FleetColumns(fleet, platform, details, width)
             populated == Populated(fleet, platform, details)
         IN  /\ Len(columns) <= Len(populated)
             /\ \A i \in DOMAIN columns : columns[i].title = populated[i].title
             /\ columns = <<>> \/ Width(columns) <= width
<1> DEFINE populated == Populated(fleet, platform, details)
           widened == [i \in DOMAIN populated |->
                         [populated[i] EXCEPT !.width = ColumnWidth(fleet, populated[i])]]
           fits == {n \in DOMAIN widened : Width(SubSeq(widened, 1, n)) <= width}
           columns == SubSeq(widened, 1, Cardinality(fits))
           L == Len(populated)
<1>1. FleetColumns(fleet, platform, details, width) = columns
  BY DEF FleetColumns
<1>2. populated \in Seq(FleetColumn)
  BY PopulatedAre
<1> HIDE DEF populated
<1>3. L \in Nat /\ DOMAIN populated = 1..L /\ \A i \in 1..L : populated[i] \in FleetColumn
  BY <1>2
<1>4. \A i \in 1..L : /\ widened[i] \in FleetColumn
                      /\ widened[i].title = populated[i].title
  <2> TAKE i \in 1..L
  <2> DEFINE c == populated[i]
             w == ColumnWidth(fleet, c)
  <2>1. c \in FleetColumn /\ w \in Nat
    BY <1>3, ColumnWidthIsNat
  <2>2. widened[i] = [c EXCEPT !.width = w]
    BY <1>3
  <2> HIDE DEF c, w, widened
  <2>3. [c EXCEPT !.width = w] \in FleetColumn /\ [c EXCEPT !.width = w].title = c.title
    BY <2>1 DEF FleetColumn
  <2> QED BY <2>2, <2>3 DEF c
<1>5. DOMAIN widened = 1..L
  BY <1>3
<1>6. widened = [i \in 1..L |-> widened[i]]
  BY <1>3
<1> HIDE DEF widened
<1>7. widened \in Seq(FleetColumn) /\ Len(widened) = L
  BY <1>3, <1>4, <1>6
<1>8. fits \in SUBSET (1..L) /\ \A n \in fits : n > 1 => n - 1 \in fits
  <2>1. fits \in SUBSET (1..L)
    BY <1>5
  <2>2. ASSUME NEW n \in fits, n > 1 PROVE n - 1 \in fits
    <3>1. n \in 1..L /\ n - 1 \in 1..L /\ Width(SubSeq(widened, 1, n)) <= width
      BY <1>3, <1>5, <2>2
    <3>2. /\ Width(SubSeq(widened, 1, n)) \in Int /\ Width(SubSeq(widened, 1, n - 1)) \in Int
          /\ Width(SubSeq(widened, 1, n - 1)) <= Width(SubSeq(widened, 1, n))
      BY <1>7, <2>2, <3>1, WidthsGrow
    <3>3. Width(SubSeq(widened, 1, n - 1)) <= width
      BY <3>1, <3>2
    <3> QED BY <1>5, <3>1, <3>3
  <2> QED BY <2>1, <2>2
<1> DEFINE k == Cardinality(fits)
<1>9. k \in 0..L /\ fits = 1..k
  <2> HIDE DEF fits
  <2> QED BY <1>3, <1>8, DownClosed
<1>10. columns = <<>> \/ Width(columns) <= width
  <2>1. CASE k = 0
    <3>1. columns = <<>>
      <4> HIDE DEF fits
      <4> QED BY <2>1, SubSeqEmpty
    <3> QED BY <3>1
  <2>2. CASE k # 0
    <3>1. k \in fits
      <4> HIDE DEF fits
      <4> QED BY <1>3, <1>9, <2>2
    <3> QED BY <3>1
  <2> QED BY <2>1, <2>2
<1> HIDE DEF fits
<1>11. /\ Len(columns) = k /\ DOMAIN columns = 1..k
       /\ \A i \in 1..k : columns[i] = widened[i]
  <2>1. \A i \in 1..k : widened[i] \in FleetColumn
    BY <1>3, <1>4, <1>9
  <2> HIDE DEF k
  <2> QED BY <1>3, <1>9, <2>1 DEF k
<1> HIDE DEF k, columns
<1>12. \A i \in DOMAIN columns : columns[i].title = populated[i].title
  BY <1>3, <1>4, <1>9, <1>11
<1> QED BY <1>1, <1>3, <1>9, <1>10, <1>11, <1>12 DEF populated

(* Whatever widths the values have, no column of the fleet is shown before *)
(* one that comes first, and together they fit the panel (fleetColumns).   *)
THEOREM ColumnsAlwaysByPriority == ScreenSpec => []ColumnsByPriority
<1>1. ASSUME ScreenInv
      PROVE  ColumnsByPriority
  <2>1. ScreenTypes /\ terminal.sidebar - 4 \in Int
    BY <1>1, ScreenFacts DEF ScreenInv
  <2> QED BY <2>1, ColumnsInOrder DEF ColumnsByPriority
<1> QED BY <1>1, ScreenAlways, PTL
=============================================================================
