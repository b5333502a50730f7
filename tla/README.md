# Verification of k8s-pods-viewer

`k8s-pods-viewer` is a terminal program that follows the pods and nodes of a
Kubernetes cluster through informers, keeps them in an in-memory store, prices
the nodes from AWS, and shows a paged list from which pods can be inspected,
scaled and killed. This directory holds TLA+ modules translated from its
source, the TLC configurations that check them on small instances, and theorems
that the TLA+ proof system checks for every instance. `PROJECT.json` maps every
definition to the source lines it stands for, lists the runs, and names for
every property a *mutant*: a plausible bug in the modelled code that makes TLC
find the property violated. Mutants stand beside the definitions they change
and are marked `Mutant:`.

## 1. Inventory

| Component | Source (under `src/`) | State | Operations | Status |
|---|---|---|---|---|
| Cluster store | `pkg/model/cluster.go`, `node.go`, `pod.go` | node map, pod map, per node its bound pods and `used`, visibility | `AddNode`, `DeleteNode`, `AddPod`, `DeletePod`, `Pod.Update`, `Node.Update`, `Show`, `VisiblePods` | `Cluster` |
| Pods controller | `pkg/client/pods_controller.go` | progress of `Start`, the two informers | seeding from lists, node handler, pod handler | `PodsController` |
| API server and client-go | not in the repository | API objects, informer stores, events in flight | list, watch, lost watch, relist | `KubeWatch` (external) |
| Pod list of the UI | `pkg/model/pods_ui_model.go`, `pod_actions.go` | order and its pause, filter, grouping, page, selection | every key of the list, `View`, `WindowSizeMsg` | `PodList` |
| Pod actions and viewer | `pkg/model/pod_actions.go` | four dialogs, the kubectl commands in flight | keys of the dialogs, start and end of commands | `PodActions` |
| AWS price provider, cost tile | `pkg/pricing/awsprice/awsprice.go`, `pkg/model/cost.go` | two caches, queue, tracked shapes, wake signal | `HourlyPrice`, the fetch loop, both TTLs | `PriceCache` |
| Metrics poller | `pkg/client/pods_controller.go:273-346` | usage of every pod object, whether an outage was announced | list, clear, set, tick | `MetricsPoller` |
| Screen | `pkg/model/pods_ui_model.go` | terminal, what of it each part takes | `View` and its parts, resize, tick | `Screen` |
| Status line | `pkg/model/pods_ui_model.go:258-306`, `cmd/.../watch_log_bridge.go` | the last message and its deadline | set, read, expire, take away | `TransientStatus` |
| Stats, node fleet | `pkg/model/stats.go`, `node.go`, `node_fleet.go`, `node_fleet_render.go` | none (summaries of the visible nodes) | metadata of a node, title, columns, rows and rollup of the panel | `NodeFleet` |
| Other rendering, flags, client set-up, matching of log lines, build tools | `pkg/text`, `pkg/model/style.go`, `cmd`, `hack`, ... | none of interest | formatting, parsing, generation | not modelled |

### How they interact

`Start` runs in the main goroutine: it lists the nodes, adds and shows them,
starts the node watch, lists the pods, adds them, and starts the pod watch. Each
watch is one goroutine that calls one handler at a time. So up to three
goroutines change the store at once. `Cluster.mu`, `Node.mu` and `Pod.mu` make
each access atomic but not each operation: `AddPod` takes the cluster lock to
put the pod in the map, again to find its node, and the node's lock to bind it.
The UI goroutine (Bubble Tea) reads the store in `View` and in every key
handler, often several times in one handler; kubectl commands run in goroutines
of their own and answer by message. The metrics poller, one more goroutine,
clears and sets the usage in the same pod objects that the watches put in, drop
and put back; it and the watches also set the status line, which `View` reads
three times for one frame. `View` also asks the price provider for
every visible node; the provider answers from its caches at once and queues what
it lacks for a background loop.

### What is hard, and what makes each part correct

The full list, each at its line, is `hazards` in `PROJECT.json`. In short:

* **Store and controller** — handlers of two watches and the seeding interleave
  inside `AddPod` and `DeletePod`; `Pod` objects are shared by pointer between
  the pod map and the nodes, and are overwritten in place; informers lose
  watches and collapse what they missed into one event; names come back.
  Correct: the list shows what the API last said, a node counts no pod that is not
  listed as running on it, nothing lingers and nothing is lost, and all of it converges.
* **List** — pods come, go and move between a key and the paint that answers it,
  and between two builds of the list in one handler or in one `View`, of which only
  the first is painted. Correct: every pod is on a
  page once, columns fit, the selected pod is on the page that is painted, and
  rows do not move under a user who is pressing keys.
* **Actions** — dialogs hold no pod, each key asks for the selected one, and the list
  may be empty when it is painted and not when the key comes; outputs
  arrive late and out of order; two scale commands overlap. Correct: dangerous
  commands were confirmed, one dialog at a time, outputs under their own title.
* **Usage** — a refresh touches the pods one by one while the watches replace
  their objects; lists fail for a while or are forbidden for good. Correct: bars
  beside each other are of one answer, a measured pod shows its usage again and
  again, an outage that was announced is called off.
* **Screen** — the list is laid out for what the footer takes *then*, with one line for
  a status whatever it has; the fleet
  gets the lines that are left; messages come, are replaced and expire between
  the steps. Correct: a frame fits its terminal, no message is cut short by the
  expiry of its predecessor, the fleet hides no node without saying so.
* **Prices** — three processes, a signal that may be lost, failing calls, two
  TTLs. Correct: no shape waits for good, no known price is lost, stale ones are
  fetched again, the reason for having no prices is not shown beside prices.

## 2. Modules

```
KubeObjects          pod and node states, Nil
  |- Cluster         the store; AddPod/DeletePod as frames that step section by section
  |- KubeWatch       the API and the informers (external)
        \_ PodsController    extends both: Start, node handler, pod handler
              |- MCCluster              TLC instances, symmetry
              \_ PodsControllerProofs   types, StoreShowsLastDelivered, the refinement of PodTable
                    \_ NodesProofs      nodes that come and go; no pod lingers
                          \_ BindingsProofs   bindings and usage of nodes
PodTable             what the store promises the list; INSTANCEd by PodsController
MetricsPoller        the poller beside the watches, as far as they change the pod map
  |- MCMetricsPoller
  \_ MetricsPollerProofs
Lists                Only, what a loop that appends some elements leaves
  |- PodList         list, paging, selection
  |     |- MCPodList
  |     |- PodListProofs        what Build computes; selection, pages, order
  |     \- PodActions           dialogs and commands over the same list
  |           |- MCPodActions
  |           \- PodActionsProofs   extends PodListProofs
  \- NodeFleet       node metadata and the fleet panel, operators
Screen               extends PodList, NodeFleet and TransientStatus: View and its lines
  |- MCScreen
  \- ScreenProofs    extends PodListProofs: lines, columns, title, status
TransientStatus      the status line
PriceBoard           what the provider promises the cost tile; INSTANCEd by PriceCache
PriceCache
  |- MCPriceCache
  \_ PriceCacheProofs
```

**`Cluster`.** `registered`, `visible`, `info` are `Cluster.nodes` and what a
`Node` keeps of its own; `bound[n][k]` is `Node.pods`; `used[n][k]` is the share
of pod `k` in `Node.used`, kept apart so that drift shows even where two errors
would cancel; `pods[k]` and `heap[k][o]` are the pod map and the pod objects by
address. Every critical section is a step. An `AddPod` or `DeletePod` in progress
is a record `call[t]` of its goroutine `t` (`put -> findToBind -> bind`;
`get -> findToUnbind -> unbind -> drop`). `held[t]` is a `*Node` that a goroutine
holds from one section to the next; deleting a node voids what other goroutines
hold of it, as whatever they then do to the unregistered object is seen by no
one. `IsFresh` gives a new object an unused address, and which one does not
matter: the content of free addresses is never read.

**`KubeWatch`.** The API's objects, per object a queue of events not yet
delivered, and `podSeen`/`nodeSeen`, the informers' stores. Events of one object
stay in order, those of different objects are delivered in any order. A lost
watch delivers what it had, and the relist appends one event per object:
missed changes collapse, everything that is still there is delivered again. An
event is Add, Update or Delete by what was delivered last, as client-go
classifies it.

**`PodsController`.** `start` is where `Start` is. A list or a watch probe is
answered `ok`, `forbidden` or `error`; only `forbidden` gives up node data and
the watch, as in the code. The node handler is `nodeCall` (`show`, or
`find -> update -> show`). The pod handler of an update first gets the pod
(`lookup`), then overwrites it in place (`update`), then calls `AddPod`; an
update of a pod the store does not have makes a new object.

**`PodTable`** is the promise of the store in one table: seeded entries, then one
`Hear` and one `Apply` per event of the pod watch, and `DropNode` for all pods of
a node at once. `PodsController!Table` maps it: `following` is whether the pod
watch was started, `told` what it delivered last (`Nil` once the pod has ended),
`table` the content of the object in the pod map. So `AddPod` takes effect when
it puts the pod in the map, `Pod.Update` when it overwrites the object, and the
sections that bind and unbind are stutters.

**`MetricsPoller`.** `usage` is `Pod.usage`, as the number of the sample it comes
from; a new object has none. `poller` is the goroutine between `List`, the
`ForEachPod` that clears (which holds `Cluster.mu`, so `MapIsFree` guards every
watch action), the `GetPod` and the `SetUsage` of each item, and the ticker.
`updating` is the pod handler between its `GetPod` and its `AddPod`. `applied` and
`revived` are history: the answer that was applied last, and the pods that were
put back since with an object that was out of the map, whose usage may be older.

**`PodList`.** `Build` is `visiblePods` and all it calls: sort or keep the
order, filter, group, paginate into pages of columns, restore the selection and
the page. A build happens in one step; handlers that build twice (left/right,
page keys, resolving an action) are two steps with `doing` between them, and the
store may change there. So is a `View`: it paints the body from one build (`View`), and
`writeFooter` builds again to see which keys to offer (`WriteFooter`,
`pods_ui_model.go:565`). What that build finds is not painted, but it stays in the model
as the order, the selection and the page that the next key works with. `rank` is the order that the sorter gives the pods now;
a `SortKey` and a change of usage give another. `query` is the set of pods that the
filter matches, which keys change and the watches, too (`MatchesChange`): a filter
looks at the phase, the health and the node of a pod. `layout` is what the terminal
leaves: the lines of a column, the number of columns, the lines of a pod. `shown`
is a history variable: what the last `View` painted, and in `kept` whether the build
for the footer left these rows in the order they were painted in.

**`PodActions`.** The flags and indices of the four dialogs, the viewer, the
commands in flight and the replicas of the workload. `Dialog` is the order in
which `Update` hands a key to a dialog. A `View` is `ViewViewer`, or `ViewList` and
`ViewPopup`: the popup is painted for the pod of the build that painted the body, with
the dialogs as the footer's build left them. Each of the builds closes two of the
dialogs if it finds no pod (`MenusNeed`), and leaves the confirmation open. `asked` and
`popup` (the pod that was selected in the list painted last, and the dialog over it) are
history variables. kubectl is external: `get`, `scale`, `delete`, `logs`, `describe`
answer whenever they like; an answer that is an error ends the command with a
status, which is `Screen`'s.

**`NodeFleet`** computes what `Node.Details` derives from labels (platform, pool,
capacity type, ...), the title, the columns by priority and the plan of rows and
rollup for a number of lines. `dominantPlatform` folds over a Go map; the operator
takes the order as an argument, so that a property can quantify over it.

**`TransientStatus`.** `status` is the message and its deadline: none, valid, or
over; `statusLines` is how many lines it has. A failed kubectl command sets it to all of
its output (`pod_actions.go:749-753`, `pods_ui_model.go:919`), so `MessageLines` may
hold more than 1; which writer comes when is left open. `reading` is `currentStatus` between its read lock and its write lock, and
whether the message was replaced in between.

**`Screen`.** `View` in its steps: measure (which reads the status), paint the
pods, paint the footer (reads it again), measure for the keys (a third time),
combine with the sidebar. Each measure counts one line for a status, the footer paints
all that it has (`renderBadge`, `pods_ui_model.go:280-284`). `frame` holds what the steps took. Lines are counted as
the renderers produce them; the texts are left out.

**`PriceBoard`** is the promise of the provider: the price of each shape, which
appears for all shapes of a key at once, turns from on-demand into spot, and never
goes away. `PriceCache!Board` maps it: what was asked is what is queued or tracked,
and the price of a shape is what `lookupLocked` finds.

**`PriceCache`.** Per cache key the age of its price, capped at its TTL, or
`Unknown`. `asking` is `HourlyPrice` between its lookup, its queueing and its
signal; `loop` is the background goroutine between deciding what is due, its
calls and its sleep. AWS is external: each call may fail.

## 3. Runs

Bounds are small because each hazard involves one pod, at most two nodes, and a
handful of changes; the counterexamples of the violated properties show that the
instances reach them.

| Run | Instance | What it shows |
|---|---|---|
| `watch_steady` | 2 nodes, 1 pod, 2 requests, 2 node states, 3 changes after both informers have listed | `BindingsMatchStore`, `UsedIsSumOfBound`, `NoPhantomPods`, `NodesShowLastDelivered`: no interleaving of seeding and watches binds a pod to a node it is not listed under, counts it twice, or leaves one behind |
| `watch_rough` | 2 nodes, 1 pod, 1 request, 1 node state, 3 changes, also while `Start` still lists and seeds, one lost watch, node names that return | `TypeOK`, `StoreShowsLastDelivered`, `LostOnlyWithItsNode`, `HiddenOnlyInTransit`, `ImplementsPodTable`: what still holds then |
| `watch_converges` | 1 node, 1 pod, resizes, 1 lost watch, every answer to lists and probes | `EventuallyMirrors`: when the API comes to rest the visible pods are its live pods and stay so |
| `list_moves` | 3 pods, 2 rankings and 3 filters whose matches change, 1 or 2 columns of 4 lines, pods of 2 or 3 lines, all keys, pods that come and go in every step | `ListTypeOK`, `SelectionIsOnPage`, `PausedFlatRowsKeepOrder` |
| `pod_actions` | a pod of a Deployment, a bare pod with two containers, 2 commands; pods come and go between keys, builds and popups | `ActionsTypeOK`, `OneDialogAtATime`, `ViewerShowsItsOutput`, `NoScaleBeyondConfirmed`, `DangerousAsConfirmed` |
| `prices` | one instance type and zone, one node on demand, one spot; TTLs 3 and 2 ticks | `PriceTypeOK`, `NoLostWakeup`, `ReasonOnlyWithoutPrices`, `ImplementsPriceBoard`, `NodesGetPriced`, `StalePricesRefresh` |
| `metrics` | 2 pods on 2 nodes, 3 events of the watches, 3 samples, every answer of the metrics API | `MetricsTypeOK`, `OneAnswerShown`, `MeasuredPodsShowUsage`, `OutagesEnd` |
| `screen` | 4 pods, 4 terminals (with and without sidebar, 15 to 50 lines), 4 fleets of none to five nodes of mixed platforms, compact and detailed, every grouping, the filter open or set, 2 messages of 1 or 3 lines | `PagesShowEveryPod`, `ColumnsFit`, `ScreenFits`, `FleetFitsItsBudget`, `ColumnsByPriority`, `TitleIsSteady`, `StatusNotCutShort` |
| `ghost_after_resize`, `seed_gap`, `confirmed_pod`, `spot_price` | the smallest instance of each | the disagreements of section 6 |

Bounds by name: `MaxChanges` (changes of API objects), `MaxLosses` (lost
watches), `CanResize`, `CanRejoin`, `CanChangeEarly` (kinds of changes),
`Answers`, `MaxObj` (pod addresses; an action without a fresh one is disabled,
and an instance never runs out), `MaxSamples` (samples of the metrics server),
`MaxMessages` (messages in the status line), `MessageLines` (the lines of one),
`MaxCommands`, `Keys` (kinds of
keys), `Budgets`, `ColumnCounts`, `PodLines`, `Terminals`, `Fleets`. Three changes suffice for a pod that is created, scheduled and
removed, or scheduled while its node leaves and another changes, and in `metrics`
for a pod that is dropped with its node between the `GetPod` and the `AddPod` of an
update and put back; three samples tell the answer in hand, the one applied
before and the latest apart. In `metrics` a pod may go unmeasured, so that the
clearing of a refresh shows. Two messages in `screen` suffice for one that
replaces an expired one between the two locks of `currentStatus`. The four
terminals lie on both sides of each boundary of the layout: the sidebar that has
room for no fleet, for a fleet without its rollup and for all of it, and a terminal
too small for one detailed pod. In the watch runs at most three addresses of a pod
are in use at once (in the map, on a node, in the hands of a handler), and there are
three; with four, TLC finds the same states. Five addresses in `metrics` are two in the map,
one in the handler and one in the poller's hand, and one more.

`MCCluster!Interchangeable` declares node names and pod addresses symmetric in
the runs of safety properties only; no definition tells two of them apart but
`IsFresh`, whose choice does not matter.

Three runs have a VIEW, which forgets what no later step and no property of the run
reads. `MCPodActions!LiveState` forgets what a closed dialog leaves behind (always
written before it is read again), of the popup all but whether it asks for what enter
would start, and that too while nothing is to be confirmed or no command is left, the
replicas when nothing can scale them any more (but not whether they are in their range),
and of `shown` all but the selected pod, until the popup is painted. `MCPodList!LiveList` keeps
of what was painted whether the selected pod was on the page, and the rows of a flat
list with `kept`. `MCScreen!LiveScreen` forgets what was painted, as its properties read
`frame`, of a frame that is complete all but whether it fits, and the length of a message
that is over.

`CHECK_DEADLOCK FALSE` stands where the system may come to rest: when the API
stops changing, and when no more commands or keys come. `prices` checks deadlock.

## 4. Fairness

* `PodsController`: weak fairness of `Start`'s steps, of each handler, of each
  `AddPod`/`DeletePod` in progress, and of each started informer's (re)listing.
  Goroutines are scheduled, locks are held briefly, and client-go's reflector
  lists again with backoff for as long as it runs. Nothing is assumed of the API's
  objects: they need not change, and a watch need not be lost.
* `PriceCache`: weak fairness of the View's and the loop's steps and of time;
  strong fairness of asking for each visible node (the screen is painted again
  every two seconds and asks for all of them) and of the success of each AWS
  call that is made again and again. Without the last, a permanently denied call
  would leave a node without a price, as it should.

* `MetricsPoller`: weak fairness of the poller's own steps, of the second half of
  an update (`PutPodAgain`) and of some answer to each `List`; strong fairness of
  the good answer. So a metrics server that is asked again and again answers again
  and again, but may fail any number of times in between. It may also forbid,
  which ends the poller for good: the properties speak of one that still runs. The
  run therefore has `CHECK_DEADLOCK FALSE`.

No liveness property is stated of the list and the dialogs: they wait for keys.

## 5. Proofs

All theorems hold for all sets of nodes, pods, addresses, requests and node states,
every bound and every combination of answers; where one needs an assumption about
the environment, the assumption is in the theorem's statement. Each is a property
that a run of section 3 checks on a small instance. None of the invariants is
inductive as it stands; what has to be added is the argument.

**The store and the watches** (`PodsController`)

* `TypeCorrect`: `Spec => []TypeOK`. To know that `BindPod` adds a request one must
  know that the object it was given has content. `TypeInv` adds `References` (every
  pointer in the pod map and in a node leads to an object with content, every held
  node is registered), `CallOK` (so does a call in progress) and `HandlersOK` (an
  update handler works on a pod that its informer last delivered as live).
* `StoreFollowsWatch`: `Spec => []StoreShowsLastDelivered`. `StartOrder`: the main
  goroutine is done with its `AddPod`s before the pod informer lists, the node
  watch never calls `AddPod` or `DeletePod`, and nothing is delivered before the
  list. So from the first delivery on the pod handler is the only one that puts pods
  in the store. `FreshInv`: while it works on a pod, what it is about to put is what
  was delivered, and if it is deleting, that pod is not live. The argument does not
  depend on what the node watch does, since that only takes pods away. `OrderInv`,
  the conjunction of the three, is what the following theorems build on.
* `StoreIsPodTable`: `Spec => ImplementsPodTable`, by a step simulation: each action
  changes the mapped table as one action of `PodTable` does, or not at all. It adds
  `MainAdds`, that the main goroutine never deletes.
* `HiddenNodesAreShownNext`: `Spec => []HiddenOnlyInTransit`. `Transit` says more than
  that someone holds the node: whoever does is at the step that shows it.
* `PodsAreLostOnlyWithTheirNode`: `Spec => []LostOnlyWithItsNode`. `NodeFeedInv`: the
  node watch says that a node leaves only if it did, or is marked to, whatever was
  lost and listed again. `LostInv` extends the claim to the two sections of `AddPod`
  after the map.
* `NoPodLingers`: `~CanChangeEarly /\ Spec => []NoPhantomPods`. `UpToDate`: the last
  event on its way says what the API has. `SeedsLive`: before the informer lists, what
  was seeded is live. `Expected`: after it, a pod of the store was delivered as live or
  is the next to be. The run `seed_gap` shows that the assumption is needed.
* `NodesFollowWatch`: `MaxLosses = 0 /\ Spec => []NodesShowLastDelivered`. `NodeStory`: the
  events of a node are a chain in which a node that is being deleted does not stay
  again before it was gone. `NodesFresh` follows the handler through its steps. After
  a lost watch a deleted and re-created node may arrive as an update, which the
  handler ignores.
* `BindingsFollowStore` and `UsageFollowsBindings`: `Steady /\ Spec => []BindingsMatchStore`, that
  what a node binds is listed under it (not the converse, see section 6), and
  with `~CanResize` also `[]UsedIsSumOfBound`, where `Steady` is: no early changes, no
  node name returns, no watch is lost. `Bindings` joins eight parts. `PodStory`: a
  scheduled pod stays on its node until it is gone. `SeedsExact` and `HeadExact`: what
  is seeded is what the informer delivers first. `NodesOnce`: a node that was removed
  is not announced again. `BindInv`: per pod, who binds it and what for (`KeyOK`), and
  for each `AddPod`, `DeletePod` and update in progress what its remaining sections
  may rely on (`CallBinds`), so that the node which gets the binding is the only one
  to have it. Resizes break the sum (`ghost_after_resize`), and a name that returns
  may keep a binding without a pod (section 6).

They rest on the named assumptions of `KubeObjects`, `Cluster`, `KubeWatch` and
`PodsController` (`Nil` is no address, three distinct goroutines, and so on),
which TLC evaluates in every run of `MCCluster`.

**Prices** (`PriceCache`)

* `PriceTypeCorrect`, `WakeupsAreKept`, `ReasonMeansNoPrices`: one invariant,
  `PriceInv`, of four parts: the types; `AskedFirst`, that the loop asks only for what
  the tile asked for; `NoPriceYet`, that no cache holds a price before the first good
  answer; and `NoLostWakeup` itself.
* `CacheIsPriceBoard`: `Spec => ImplementsPriceBoard`, a step simulation from the same
  invariant: ageing, queueing and signalling are stutters of the board.

**Usage** (`MetricsPoller`)

* `MetricsTypeCorrect` and `UsageIsOfOneAnswer`: `Refreshing` says that while the map is
  locked what was visited is clear, and that from then until the tick the answer in
  hand is the one applied last.

**The list** (`PodList`)

What `Build` computes is a chain of loops over slices, translated as recursive functions.
The library's induction theorems take an operator, which the provers cannot instantiate;
`Induct` in `PodListProofs` states induction over a *set* of numbers instead, from the
well-foundedness of `<`. Each loop then has a lemma `...Exists` (there is a function that
satisfies its recursion, up to any length), one `...Is` (the definition is its last value)
and one that says what it keeps.

* `OnlyKeeps`, `GroupedKeeps`, `OrderedLive`: filtering and grouping keep each pod once, and
  their order in a flat list. `ColumnsHold`, `PagesHold`: placing the pods in columns and
  cutting these into pages loses none, repeats none, and overfills no column but that of
  a lone pod. `BuildIs` joins them for `Build`.
* `ListTypes`, `PagesAlwaysShowEveryPod`, `ColumnsAlwaysFit`, `SelectionStaysOnPage`: one
  invariant, `ListInv`. `ListBasics`: the types, an order without doubles, and that no row that
  is painted is of a pod that is gone, with `SelectionIsOnPage`. `ShownInOrder`: flat rows
  are in the remembered order from the paint of the body to the build of the footer, and
  after it if `kept` says so, until a build sorts anew. `ListInvStep` has a lemma per key
  and per change of the store.
* `FlatRowsKeepOrder`: `ListSpec => PausedFlatRowsKeepOrder`, an action property with two
  halves: a paused `View` paints the rows in the order that the footer before it left,
  and a paused footer leaves them as they were painted. Both builds are restrictions of
  one remembered order, to which a paused list only appends (`FrozenKeepsOrder`). The
  first `View` after a key is covered if `kept` holds; section 6 says what it means when
  it does not.

**Dialogs and commands** (`PodActions`)

* `ActionsTypes`, `OneDialogAlways`, `ViewerAlwaysShowsItsOutput`, `ScalesStayConfirmed`,
  `ListHoldsUnderDialogs`: one invariant, `ActionsInv`, over `ListBasics`. `DialogsAreApart`: an
  open dialog knows its action, and while a choice of the menu is being resolved no
  dialog but the menu is open. `ViewerWaits`: a viewer that loads waits for a command that
  will answer it, as only a newer viewer or a key takes it away. `ScalesInRange`: the replicas, and what
  each scale has read, lie in the range that is left when the scales still running
  (`Ceiling`, `Floor`) are taken off what was confirmed.
* `DangerousAlwaysAsConfirmed`: `DangerousAsConfirmed`, an action property. `ConfirmIsPainted`: between
  two handlers a confirmation that is open is the one painted last, if the list painted
  had a pod. `MenusClose` says what a build without a pod does to the dialogs. What this
  does not say: which pod (`confirmed_pod`), and what enter does behind an empty list
  (section 6).

**The screen** (`Screen`)

* `ScreenInv` follows a `View` through its steps (`Phases`): after the measure the list is laid
  out for the status that was seen; after the body its lines are within what the others
  leave, or are those of one pod with its header; after the footer it has at least
  its own two or three lines, and however many a status has; in the end the frame is the sum of what was
  measured. `ListHoldsOnScreen` is `PagesShowEveryPod /\ ColumnsFit` for these layouts.
* `FleetAlwaysFits`: `PlanRowsIs`, that each plan with rows shows or counts all nodes and stays
  within its lines.
* `ScreenAlwaysFits`: `ScreenSpec => []ScreenFits`, for pods and messages of any number of lines.
  `ScreenFits` bounds what a frame may take beyond its terminal and says where it comes
  from: the lines of the footer that were not measured (`Unmeasured`: a status that came
  since, and the lines of one after its first), and one line beside a lone pod of eleven
  lines or more that fills the panel with its header (`IsTight`). Without these the
  frame fits. `FleetSums` adds up what the fleet may take beside the pods. Section 6 says
  what both excesses come to.
* `ColumnsAlwaysByPriority`: `WidthsGrow`, that more columns are wider, so that the numbers of
  columns that fit are 1 to their count (`DownClosed`).
* `TitleAlwaysSteady`: `BetterIsOrder`, that the comparison of platforms is a strict order in
  which no two known platforms are equal, and `DominantIsBest`, that a walk in any order
  ends with its greatest.
* `StatusIsKept`: `OverIsOver`, that a reader which found a message over and unreplaced
  still finds it so at its second lock.

These rest on `RankingsRankAll` (the sorter returns each pod once), `QueriesMatchPods`,
`LayoutsArePositive`, `TerminalsHaveLines`, `FleetsAreSequences`, `TextsHaveLengths` (a text has a
natural number of columns), `MessagesHaveLines` and `BlankLineOrNone`, which TLC evaluates in the runs of
`MCPodList`, `MCPodActions` and `MCScreen`.

**Model-checked only**: `EventuallyMirrors`, `NodesGetPriced`, `StalePricesRefresh`,
`MeasuredPodsShowUsage` and `OutagesEnd`, which hold under fairness: liveness and ENABLED are
out of the prover's reach. Every invariant, every action property without fairness and
both refinements of the passing runs are theorems.

## 6. Findings

* `ghost_after_resize` — `Node.BindPod` (`node.go:190`) accounts for a pod only
  when it is first bound, `Node.DeletePod` subtracts what it requests now. After
  an in-place resize the node's usage keeps the difference for good.
* `seed_gap` — a pod that `seedPods` listed and that ends or goes before the
  informer lists (`pods_controller.go:116`) gets no Delete event and stays.
* `confirmed_pod` — `handleConfirmActionKey` (`pod_actions.go:551`) takes the pod
  selected when the key comes. If the pod that the popup named has left, enter
  kills or scales the pod that the selection fell back to.
* `spot_price` — a spot shape whose on-demand price is cached for another node is
  never queued (`awsprice.go:120`, `:171`) and stays at the on-demand rate.

Seen while modelling, without a run of their own:

* `AddPod` (`cluster.go:108`) puts the pod in the map and looks its node up in two
  sections. `DeleteNode` and `AddNode` of the same name in between leave a binding on
  the new node for a pod that is in no map, so no delete ever takes its usage off,
  although `cluster_test.go:210` has "deleting the node should clear all of the usage".
* An update of a node the store does not know is ignored (`pods_controller.go:199`), so
  a node that a lost watch reports as updated after its deletion stays unknown.
* If the node list fails but not as forbidden (`pods_controller.go:80`) and the node watch
  is then forbidden (`:132`), every scheduled pod is hidden, though the status says that
  the initial node snapshot is shown.
* A metrics list that fails leaves the last good usage on the screen for as long as it
  fails, where `README.md:134` says that the viewer "continues without live usage data".
* The status line has one slot and the last writer wins: of two messages within its
  lifetime only the second is read.
* The sorter reads the live usage while the poller clears it, so a list sorted by
  usage may be painted in an order of its own in between.
* `AddPod` binds a pod only if its node is registered (`cluster.go:117-120`), and `AddNode`
  binds nothing. A pod whose event is handled before the `Add` of its node is listed under
  that node but not counted by it, until the next update of the pod.
* `addPodHandlers` takes what client-go calls an update as one of the same pod
  (`pods_controller.go:257-262`). After a lost watch that may be a pod that was deleted and
  re-created under its name on another node: the new node binds it, too, and the old one
  keeps its binding and its usage.
* The build for the footer (`pods_ui_model.go:565`) sorts again and remembers an order that
  was never painted. If the usage changed since the body was built, a key that comes then
  pauses *that* order, and the rows move at the first `View` of the pause, where
  `README.md:27` and `:305` say that they stay. `PausedFlatRowsKeepOrder` states what is kept:
  everything from there on, and that `View`, too, if the footer left the rows as painted.
* `ensureSelectedPod` closes the menus of an empty list but not the confirmation
  (`pod_actions.go:202`), and without a pod no popup is painted over it. If a pod appears
  then, be it for the footer's build of that `View` (`pods_ui_model.go:565`) or for the key,
  enter kills or scales it with no popup on the screen. `DangerousAsConfirmed` therefore speaks of
  lists that were painted with a pod.
* What a failed kubectl printed becomes the status as it is (`pod_actions.go:749-753`,
  `:773-778`, `:799-804`; `pods_ui_model.go:919`), and its lines are all painted
  (`:280-284`), while `availablePodLines` counts one (`:1571-1573`): with an error of three
  lines TLC finds a frame of 17 lines on a terminal of 15. `Unmeasured` is this excess.
* Groups follow their first pods and so swap when such a pod leaves, even while the
  order is frozen (`pods_ui_model.go:590`, against `README.md:305`).
* Each `WindowSizeMsg` starts one more chain of ticks (`pods_ui_model.go:784`, against
  `README.md:55`).
* `formatFleetCounts` (`node_fleet_render.go:253`) drops the count "when a single value
  covers the whole fleet", also when other nodes have no value at all. And
  `node_fleet_render.go:42` says the panel "drops its rollup section and then its node
  rows", while it keeps the rollup and hides rows as long as three are shown.
* `spotKey` has no OS (`awsprice.go:504`). A shape on spot that is due refetches its
  on-demand price too, on the spot TTL.
* `nodeFleetLineBudget` (`pods_ui_model.go:975`) takes `lipgloss.Height` of the pods, which
  counts the newline at their end as one more line, while `sideBySideFixed` cuts it off.
  So "before the sidebar grows taller than the pod list and pushes the footer off screen"
  is one line off, which matters when a lone pod of eleven lines or more fills the panel:
  the one line of `IsTight` in `ScreenFits`. TLC, given pods of 19 lines (nine resources
  with details), a terminal of 29 and two nodes, finds such a frame of 30.
* Overlapping scale commands lose a change (`pod_actions.go:771`), within the range
  that `NoScaleBeyondConfirmed` states.

## 7. What is left out, and why

* Texts, colours, the wording of messages, the scroll offset of the viewer
  (clamped each time it is painted), and the quit keys, which end the program. `Screen`
  counts lines and `NodeFleet` the widths of columns; nothing else is laid out.
* Sizes of a pod other than compact and detailed with the default two resources are not in
  the run `screen`; `ScreenAlwaysFits` covers all of them.
* Lists that change under a `View` of `Screen`, whose pods stay as they are so that its
  lines can be counted; `PodList` and `PodActions` have them.
* Which command's failure sets which message: `Screen` lets a message of any length come
  at any time, and `PodActions` ends the command.
* `exec` hands the terminal to kubectl and suspends the event loop; the model lets
  keys and outputs go on meanwhile, which only adds behaviours.
* The sort criteria: the list is checked for arbitrary rankings of the pods.
* Parsing of Kubernetes quantities and AWS answers, lazy construction of clients.
* Which goroutine owns which lock: each critical section is one step, so a
  deadlock by lock order cannot show; the code takes `Cluster.mu` before
  `Node.mu` and `Pod.mu` on every path.
* Flags, configuration, client set-up, the styles and the build tools: no state whose
  evolution could go wrong. Of the log bridge, what it sets (the status line) is
  modelled, the matching of the lines it reads is not.

## 8. Plan

Done, in this order: the store and the controller, the list, the actions over the
list, the price cache, the metrics poller, the two abstract specifications with
their refinements, the fleet panel, the status line and the screen, and the
theorems of section 5. Left:

1. **Bindings in a rough environment**: what a node may count wrongly at most after a
   lost watch, and the smallest change of `AddPod` under which `Steady` is not needed.
2. **Parsing of AWS answers** (which sample of a spot key wins), so that `spotKey`
   without an OS can be stated as a run.
