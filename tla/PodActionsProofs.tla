--------------------------- MODULE PodActionsProofs ---------------------------
(***************************************************************************)
(* Proofs about PodActions: its invariants and DangerousAsConfirmed, for   *)
(* every set of pods, every layout and any number of commands.  The        *)
(* invariant keeps apart the dialogs, which only keys and the View change, *)
(* and the commands, which end in any order.                               *)
(***************************************************************************)
EXTENDS PodActions, PodListProofs

-----------------------------------------------------------------------------
(* The invariant *)

Titles == (Actions \X Pod) \cup {Nil}
Shape == [open : BOOLEAN, loading : BOOLEAN, title : Titles, body : Titles]

Command == [action : Actions, pod : Pod, read : Nat \cup {Nil}]

DialogTypes ==
  /\ actionMenuOpen \in BOOLEAN /\ confirmActionOpen \in BOOLEAN /\ containerMenuOpen \in BOOLEAN
  /\ viewer \in Shape
  /\ actionMenuIndex \in 0..5 /\ confirmActionIndex \in {0, 1} /\ containerMenuIndex \in Nat
  /\ confirmAction \in DangerousActions \cup {"none"}
  /\ pendingAction \in {"exec", "logs", "none"}
  /\ doing.op \in {"idle", "view", "footer", "column", "page", "resolve"}

(* One dialog at most; an open one knows its action; and a choice of the   *)
(* menu that is not resolved yet has no dialog but the menu open.          *)
DialogsAreApart ==
  /\ actionMenuOpen => ~containerMenuOpen /\ ~confirmActionOpen /\ ~viewer.open
  /\ containerMenuOpen => ~confirmActionOpen /\ ~viewer.open /\ pendingAction # "none"
  /\ confirmActionOpen => ~viewer.open /\ confirmAction # "none"
  /\ doing.op = "resolve" =>
       doing.arg \in Actions /\ ~viewer.open /\ ~confirmActionOpen /\ ~containerMenuOpen

CommandTypes ==
  /\ commands \in Seq(Command)
  /\ replicas \in Nat
  /\ asked \in [start : Nat, downs : Nat, ups : Nat, commands : Nat]

(* A viewer that loads waits for a command that will answer it. *)
ViewerWaits ==
  viewer.open =>
    IF viewer.loading
      THEN \E i \in DOMAIN commands :
             /\ commands[i].action \in {"logs", "describe"}
             /\ Title(commands[i].action, commands[i].pod) = viewer.title
      ELSE viewer.body = viewer.title

Of(cs, action) == {i \in DOMAIN cs : cs[i].action = action}
Running(cs, action) == Cardinality(Of(cs, action))

(* What the ups and the downs that still run have not done yet is left.    *)
Ceiling == (asked.start + asked.ups) - Running(commands, "scale_up")
Floor == asked.start - asked.downs + Running(commands, "scale_down")

ScalesInRange ==
  /\ Floor <= replicas /\ replicas <= Ceiling
  /\ \A i \in DOMAIN commands : commands[i].read # Nil =>
       /\ commands[i].action \in ScaleActions
       /\ Floor <= commands[i].read /\ commands[i].read <= Ceiling

(* Between two handlers a confirmation that is open has been painted, if   *)
(* the list that was painted has a pod.                                    *)
ConfirmIsPainted ==
  confirmActionOpen /\ doing = Idle /\ popup.pod # Nil =>
    popup.dialog = "confirm" /\ popup.action = confirmAction /\ popup.index = confirmActionIndex

Dialogs == DialogTypes /\ DialogsAreApart
Commands == CommandTypes /\ ScalesInRange

ActionsInv == ListBasics /\ Dialogs /\ Commands /\ ViewerWaits /\ ConfirmIsPainted

-----------------------------------------------------------------------------
(* Commands that run *)

LEMMA OfIsFinite ==
  ASSUME NEW cs \in Seq(Command), NEW a
  PROVE  IsFiniteSet(Of(cs, a)) /\ Running(cs, a) \in Nat
<1>1. DOMAIN cs = 1..Len(cs) /\ Len(cs) \in Nat
  OBVIOUS
<1>2. IsFiniteSet(1..Len(cs))
  BY <1>1, FS_Interval
<1>3. Of(cs, a) \in SUBSET (1..Len(cs))
  BY <1>1 DEF Of
<1>4. IsFiniteSet(Of(cs, a))
  BY <1>2, <1>3, FS_Subset
<1> QED BY <1>4, FS_CardinalityType DEF Running

LEMMA RunningAppend ==
  ASSUME NEW cs \in Seq(Command), NEW c \in Command, NEW a
  PROVE  Running(Append(cs, c), a) = Running(cs, a) + (IF c.action = a THEN 1 ELSE 0)
<1> DEFINE more == Append(cs, c)
           n == Len(cs) + 1
<1>1. /\ more \in Seq(Command) /\ DOMAIN more = 1..n /\ DOMAIN cs = 1..Len(cs) /\ Len(cs) \in Nat
      /\ more[n] = c /\ \A i \in DOMAIN cs : more[i] = cs[i]
  OBVIOUS
<1> HIDE DEF more
<1>2. n \notin Of(cs, a)
  BY <1>1 DEF Of
<1>3. CASE c.action = a
  <2>1. Of(more, a) = Of(cs, a) \cup {n}
    BY <1>1, <1>3 DEF Of
  <2>2. Cardinality(Of(cs, a) \cup {n}) = Cardinality(Of(cs, a)) + 1
    BY <1>2, OfIsFinite, FS_AddElement
  <2> QED BY <1>3, <2>1, <2>2 DEF Running, more
<1>4. CASE c.action # a
  <2>1. Of(more, a) = Of(cs, a)
    BY <1>1, <1>4 DEF Of
  <2>2. Running(more, a) = Running(cs, a) /\ Running(cs, a) \in Nat
    BY <2>1, OfIsFinite DEF Running
  <2> QED BY <1>4, <2>2 DEF more
<1> QED BY <1>3, <1>4

(* RemoveAt moves up by one what follows. *)
LEMMA Removed ==
  ASSUME NEW cs \in Seq(Command), NEW i \in DOMAIN cs
  PROVE  LET rest == RemoveAt(cs, i)
         IN  /\ rest \in Seq(Command) /\ DOMAIN rest = 1..(Len(cs) - 1)
             /\ \A j \in DOMAIN rest : rest[j] = cs[IF j < i THEN j ELSE j + 1]
<1>1. i \in 1..Len(cs) /\ Len(cs) \in Nat
  OBVIOUS
<1> DEFINE left == SubSeq(cs, 1, i - 1)
           right == SubSeq(cs, i + 1, Len(cs))
<1>2. /\ left \in Seq(Command) /\ Len(left) = i - 1
      /\ \A j \in 1..(i - 1) : left[j] = cs[j]
  BY <1>1
<1>3. /\ right \in Seq(Command) /\ Len(right) = Len(cs) - i
      /\ \A j \in 1..(Len(cs) - i) : right[j] = cs[i + j]
  BY <1>1
<1>4. RemoveAt(cs, i) = left \o right
  BY DEF RemoveAt
<1> HIDE DEF left, right
<1>5. /\ left \o right \in Seq(Command) /\ DOMAIN (left \o right) = 1..(Len(cs) - 1)
      /\ \A j \in 1..(Len(cs) - 1) :
           (left \o right)[j] = IF j < i THEN left[j] ELSE right[j - (i - 1)]
  BY <1>1, <1>2, <1>3
<1>6. \A j \in 1..(Len(cs) - 1) : (left \o right)[j] = cs[IF j < i THEN j ELSE j + 1]
  <2> TAKE j \in 1..(Len(cs) - 1)
  <2>1. CASE j < i
    <3>1. j \in 1..(i - 1)
      BY <1>1, <2>1
    <3> QED BY <1>2, <1>5, <2>1, <3>1
  <2>2. CASE ~(j < i)
    <3>1. j - (i - 1) \in 1..(Len(cs) - i) /\ i + (j - (i - 1)) = j + 1
      BY <1>1, <2>2
    <3>2. (left \o right)[j] = right[j - (i - 1)]
      BY <1>5, <2>2
    <3>3. right[j - (i - 1)] = cs[i + (j - (i - 1))]
      BY <1>3, <3>1
    <3> QED BY <2>2, <3>1, <3>2, <3>3
  <2> QED BY <2>1, <2>2
<1> QED BY <1>4, <1>5, <1>6

LEMMA RunningRemove ==
  ASSUME NEW cs \in Seq(Command), NEW i \in DOMAIN cs, NEW a
  PROVE  /\ Running(RemoveAt(cs, i), a) \in Nat
         /\ Running(RemoveAt(cs, i), a) <= Running(cs, a) - (IF cs[i].action = a THEN 1 ELSE 0)
<1> DEFINE rest == RemoveAt(cs, i)
           was == [j \in Of(rest, a) |-> IF j < i THEN j ELSE j + 1]
           others == Of(cs, a) \ {i}
<1>1. /\ rest \in Seq(Command) /\ DOMAIN rest = 1..(Len(cs) - 1)
      /\ \A j \in DOMAIN rest : rest[j] = cs[IF j < i THEN j ELSE j + 1]
      /\ i \in 1..Len(cs) /\ Len(cs) \in Nat /\ DOMAIN cs = 1..Len(cs)
  BY Removed
<1> HIDE DEF rest
<1>2. was \in Injection(Of(rest, a), others)
  <2>1. \A j \in Of(rest, a) : j \in 1..(Len(cs) - 1) /\ rest[j].action = a
    BY <1>1 DEF Of
  <2>2. \A j \in Of(rest, a) : was[j] \in others
    <3> TAKE j \in Of(rest, a)
    <3>1. was[j] \in DOMAIN cs /\ was[j] # i /\ cs[was[j]] = rest[j]
      BY <1>1, <2>1
    <3> QED BY <2>1, <3>1 DEF Of
  <2>3. \A j, k \in Of(rest, a) : was[j] = was[k] => j = k
    BY <1>1, <2>1
  <2>4. was \in [Of(rest, a) -> others]
    BY <2>2
  <2> HIDE DEF was
  <2>5. IsInjective(was)
    BY <2>3, <2>4 DEF IsInjective
  <2> QED BY <2>4, <2>5 DEF Injection
<1> HIDE DEF was
<1>3. IsFiniteSet(others) /\ Cardinality(others) = Running(cs, a) - (IF cs[i].action = a THEN 1 ELSE 0)
  <2>1. /\ IsFiniteSet(others)
        /\ Cardinality(others) = IF i \in Of(cs, a) THEN Running(cs, a) - 1 ELSE Running(cs, a)
    BY OfIsFinite, FS_RemoveElement DEF Running
  <2>2. i \in Of(cs, a) <=> cs[i].action = a
    BY DEF Of
  <2>3. Running(cs, a) \in Nat
    BY OfIsFinite
  <2> QED BY <2>1, <2>2, <2>3
<1>4. Cardinality(Of(rest, a)) <= Cardinality(others)
  BY <1>2, <1>3, FS_Injection
<1>5. Running(rest, a) \in Nat
  BY <1>1, OfIsFinite
<1> QED BY <1>3, <1>4, <1>5 DEF Running, rest

(* A command that ends leaves the others, at new places. *)
LEMMA OthersRemain ==
  ASSUME NEW cs \in Seq(Command), NEW i \in DOMAIN cs
  PROVE  /\ \A j \in DOMAIN RemoveAt(cs, i) : \E k \in DOMAIN cs : RemoveAt(cs, i)[j] = cs[k]
         /\ \A k \in DOMAIN cs : k # i => \E j \in DOMAIN RemoveAt(cs, i) : RemoveAt(cs, i)[j] = cs[k]
<1> DEFINE rest == RemoveAt(cs, i)
<1>1. /\ DOMAIN rest = 1..(Len(cs) - 1)
      /\ \A j \in DOMAIN rest : rest[j] = cs[IF j < i THEN j ELSE j + 1]
      /\ i \in 1..Len(cs) /\ Len(cs) \in Nat /\ DOMAIN cs = 1..Len(cs)
  BY Removed
<1> HIDE DEF rest
<1>2. \A j \in DOMAIN rest : \E k \in DOMAIN cs : rest[j] = cs[k]
  <2> TAKE j \in DOMAIN rest
  <2>1. (IF j < i THEN j ELSE j + 1) \in DOMAIN cs
    BY <1>1
  <2> QED BY <1>1, <2>1
<1>3. ASSUME NEW k \in DOMAIN cs, k # i
      PROVE  \E j \in DOMAIN rest : rest[j] = cs[k]
  <2>1. CASE k < i
    <3>1. k \in DOMAIN rest
      BY <1>1, <2>1
    <3> QED BY <1>1, <2>1, <3>1
  <2>2. CASE k > i
    <3>1. k - 1 \in DOMAIN rest /\ ~(k - 1 < i) /\ (k - 1) + 1 = k
      BY <1>1, <2>2
    <3> QED BY <1>1, <3>1
  <2> QED BY <1>1, <1>3, <2>1, <2>2
<1> QED BY <1>2, <1>3 DEF rest

LEMMA RangeTypes ==
  ASSUME CommandTypes
  PROVE  Floor \in Int /\ Ceiling \in Int
BY OfIsFinite DEF CommandTypes, Floor, Ceiling

(* A command that ends may only widen the range: by what it did, if it     *)
(* scaled.                                                                 *)
LEMMA RangeWidens ==
  ASSUME CommandTypes, NEW i \in DOMAIN commands, commands' = RemoveAt(commands, i), UNCHANGED asked
  PROVE  /\ Floor' \in Int /\ Ceiling' \in Int
         /\ Floor' <= Floor - (IF commands[i].action = "scale_down" THEN 1 ELSE 0)
         /\ Ceiling' >= Ceiling + (IF commands[i].action = "scale_up" THEN 1 ELSE 0)
<1>1. /\ commands \in Seq(Command) /\ asked.start \in Nat /\ asked.ups \in Nat /\ asked.downs \in Nat
  BY DEF CommandTypes
<1>2. \A a : /\ Running(commands, a) \in Nat /\ Running(commands', a) \in Nat
             /\ Running(commands', a) <= Running(commands, a) - (IF commands[i].action = a THEN 1 ELSE 0)
  BY <1>1, OfIsFinite, RunningRemove
<1> DEFINE downs == Running(commands, "scale_down")
           downsLeft == Running(commands', "scale_down")
           ups == Running(commands, "scale_up")
           upsLeft == Running(commands', "scale_up")
<1>3. /\ downs \in Nat /\ downsLeft \in Nat /\ ups \in Nat /\ upsLeft \in Nat
      /\ downsLeft <= downs - (IF commands[i].action = "scale_down" THEN 1 ELSE 0)
      /\ upsLeft <= ups - (IF commands[i].action = "scale_up" THEN 1 ELSE 0)
  BY <1>2
<1> DEFINE low == asked.start - asked.downs
           high == asked.start + asked.ups
<1>4. /\ low \in Int /\ Floor = low + downs /\ Floor' = low + downsLeft
      /\ high \in Int /\ Ceiling = high - ups /\ Ceiling' = high - upsLeft
  <2>1. low \in Int /\ high \in Int
    BY <1>1
  <2>2. Floor = low + downs /\ Floor' = low + downsLeft
    BY DEF Floor
  <2>3. Ceiling = high - ups /\ Ceiling' = high - upsLeft
    BY DEF Ceiling
  <2> QED BY <2>1, <2>2, <2>3
<1> HIDE DEF downs, downsLeft, ups, upsLeft, low, high
<1>5. Floor' \in Int /\ Ceiling' \in Int
  BY <1>3, <1>4
<1> DEFINE down == IF commands[i].action = "scale_down" THEN 1 ELSE 0
           up == IF commands[i].action = "scale_up" THEN 1 ELSE 0
<1>6. Floor' <= Floor - down
  <2>1. down \in Nat /\ downsLeft <= downs - down
    BY <1>3
  <2> HIDE DEF down
  <2>2. /\ downs \in Int /\ downsLeft \in Int /\ low \in Int
        /\ Floor = low + downs /\ Floor' = low + downsLeft
    BY <1>3, <1>4
  <2> QED BY <2>1, <2>2
<1>7. Ceiling' >= Ceiling + up
  <2>1. up \in Nat /\ upsLeft <= ups - up
    BY <1>3
  <2> HIDE DEF up
  <2>2. /\ ups \in Int /\ upsLeft \in Int /\ high \in Int
        /\ Ceiling = high - ups /\ Ceiling' = high - upsLeft
    BY <1>3, <1>4
  <2> QED BY <2>1, <2>2
<1> QED BY <1>5, <1>6, <1>7

(* What is true of every command that has read is true of those left.      *)
LEMMA CommandEndsKeeps ==
  ASSUME Commands, NEW i \in DOMAIN commands, commands' = RemoveAt(commands, i), UNCHANGED asked,
         replicas' \in Nat,
         \/ replicas' = replicas
         \/ /\ commands[i].read # Nil
            /\ replicas' = ScaleTarget(commands[i].read, commands[i].action)
  PROVE  Commands'
<1>1. /\ CommandTypes /\ commands \in Seq(Command) /\ Floor \in Int /\ Ceiling \in Int
      /\ replicas \in Nat
  BY RangeTypes DEF Commands, CommandTypes
<1>2. /\ Floor' \in Int /\ Ceiling' \in Int
      /\ Floor' <= Floor - (IF commands[i].action = "scale_down" THEN 1 ELSE 0)
      /\ Ceiling' >= Ceiling + (IF commands[i].action = "scale_up" THEN 1 ELSE 0)
  BY <1>1, RangeWidens
<1>3. CommandTypes'
  <2>1. commands' \in Seq(Command)
    BY <1>1, Removed
  <2> QED BY <2>1 DEF Commands, CommandTypes
<1>4. \A j \in DOMAIN commands : commands[j].read # Nil =>
        /\ commands[j].action \in ScaleActions /\ commands[j].read \in Nat
        /\ Floor <= commands[j].read /\ commands[j].read <= Ceiling
  <2> TAKE j \in DOMAIN commands
  <2>1. commands[j] \in Command
    BY <1>1
  <2> QED BY <1>1, <2>1 DEF Commands, ScalesInRange, Command
<1>5. Floor' <= replicas' /\ replicas' <= Ceiling'
  <2>1. CASE replicas' = replicas
    <3>1. Floor <= replicas /\ replicas <= Ceiling
      BY DEF Commands, ScalesInRange
    <3> QED BY <1>1, <1>2, <2>1, <3>1
  <2>2. CASE /\ commands[i].read # Nil
             /\ replicas' = ScaleTarget(commands[i].read, commands[i].action)
    <3> DEFINE read == commands[i].read
    <3>1. /\ commands[i].action \in ScaleActions /\ read \in Nat
          /\ Floor <= read /\ read <= Ceiling
      BY <1>4, <2>2
    <3> HIDE DEF read
    <3>2. CASE commands[i].action = "scale_up"
      <4>1. replicas' = read + 1
        BY <2>2, <3>2 DEF ScaleTarget, read
      <4> QED BY <1>1, <1>2, <3>1, <3>2, <4>1
    <3>3. CASE commands[i].action = "scale_down"
      <4>1. replicas' = IF read = 0 THEN 0 ELSE read - 1
        BY <2>2, <3>3 DEF ScaleTarget, read
      <4> QED BY <1>1, <1>2, <3>1, <3>3, <4>1
    <3> QED BY <3>1, <3>2, <3>3 DEF ScaleActions
  <2> QED BY <2>1, <2>2
<1>6. ASSUME NEW j \in DOMAIN commands', commands'[j].read # Nil
      PROVE  /\ commands'[j].action \in ScaleActions
             /\ Floor' <= commands'[j].read /\ commands'[j].read <= Ceiling'
  <2>1. PICK k \in DOMAIN commands : commands'[j] = commands[k]
    BY <1>1, OthersRemain
  <2>2. /\ commands[k].action \in ScaleActions /\ commands[k].read \in Nat
        /\ Floor <= commands[k].read /\ commands[k].read <= Ceiling
    BY <1>4, <1>6, <2>1
  <2> DEFINE read == commands[k].read
  <2>3. read \in Nat /\ Floor <= read /\ read <= Ceiling
    BY <2>2
  <2> HIDE DEF read
  <2>4. Floor' <= read /\ read <= Ceiling'
    BY <1>1, <1>2, <2>3
  <2> QED BY <2>1, <2>2, <2>4 DEF read
<1> QED BY <1>3, <1>5, <1>6 DEF Commands, ScalesInRange

(* startPodAction: the range stays, since what may be done is not yet.     *)
LEMMA StartKeepsCommands ==
  ASSUME Commands, NEW action \in Actions, NEW p \in Pod, StartPodAction(action, p)
  PROVE  Commands'
<1> DEFINE c == [action |-> action, pod |-> p, read |-> Nil]
<1>1. c \in Command /\ c.action = action /\ c.read = Nil
  BY DEF Command
<1>2. /\ commands \in Seq(Command) /\ replicas \in Nat
      /\ asked \in [start : Nat, downs : Nat, ups : Nat, commands : Nat]
  BY DEF Commands, CommandTypes
<1>3. /\ commands' = Append(commands, c) /\ replicas' = replicas
      /\ asked' = [asked EXCEPT !.commands = @ + 1,
                                !.downs = @ + Count({"scale_down"}, action),
                                !.ups = @ + Count({"scale_up"}, action)]
  BY DEF StartPodAction
<1> HIDE DEF c
<1>4. /\ asked' \in [start : Nat, downs : Nat, ups : Nat, commands : Nat]
      /\ asked'.start = asked.start
      /\ asked'.downs = asked.downs + (IF action = "scale_down" THEN 1 ELSE 0)
      /\ asked'.ups = asked.ups + (IF action = "scale_up" THEN 1 ELSE 0)
  <2>1. /\ Count({"scale_down"}, action) = (IF action = "scale_down" THEN 1 ELSE 0)
        /\ Count({"scale_up"}, action) = (IF action = "scale_up" THEN 1 ELSE 0)
    BY DEF Count
  <2> DEFINE d == Count({"scale_down"}, action)
             u == Count({"scale_up"}, action)
  <2>2. d \in Nat /\ u \in Nat
    BY <2>1
  <2>3. asked' = [asked EXCEPT !.commands = @ + 1, !.downs = @ + d, !.ups = @ + u]
    BY <1>3
  <2> HIDE DEF d, u
  <2>4. /\ asked' \in [start : Nat, downs : Nat, ups : Nat, commands : Nat]
        /\ asked'.start = asked.start /\ asked'.downs = asked.downs + d /\ asked'.ups = asked.ups + u
    <3>1. /\ asked.start \in Nat /\ asked.downs + d \in Nat /\ asked.ups + u \in Nat
          /\ asked.commands + 1 \in Nat
      BY <1>2, <2>2
    <3>2. asked' = [start |-> asked.start, downs |-> asked.downs + d, ups |-> asked.ups + u,
                    commands |-> asked.commands + 1]
      BY <1>2, <2>3
    <3> QED BY <3>1, <3>2
  <2> QED BY <2>1, <2>4 DEF d, u
<1>5. CommandTypes'
  <2>1. commands' \in Seq(Command)
    BY <1>1, <1>2, <1>3
  <2> QED BY <1>2, <1>3, <1>4, <2>1 DEF CommandTypes
<1>6. \A a : /\ Running(commands', a) = Running(commands, a) + (IF action = a THEN 1 ELSE 0)
             /\ Running(commands, a) \in Nat
  BY <1>1, <1>2, <1>3, RunningAppend, OfIsFinite
<1>7. Floor' = Floor /\ Ceiling' = Ceiling
  <2>1. /\ asked.start \in Nat /\ asked.downs \in Nat /\ asked.ups \in Nat
    BY <1>2
  <2> QED BY <1>4, <1>6, <2>1 DEF Floor, Ceiling
<1>8. ASSUME NEW j \in DOMAIN commands', commands'[j].read # Nil
      PROVE  /\ commands'[j].action \in ScaleActions
             /\ Floor' <= commands'[j].read /\ commands'[j].read <= Ceiling'
  <2>1. j \in DOMAIN commands /\ commands'[j] = commands[j]
    <3>1. j \in DOMAIN commands \/ j = Len(commands) + 1
      BY <1>2, <1>3
    <3>2. j # Len(commands) + 1
      BY <1>1, <1>2, <1>3, <1>8
    <3> QED BY <1>2, <1>3, <3>1, <3>2
  <2> QED BY <1>7, <1>8, <2>1 DEF Commands, ScalesInRange
<1> QED BY <1>3, <1>5, <1>7, <1>8 DEF Commands, ScalesInRange

(* kubectl get: the replicas that are read are in the range already.       *)
LEMMA LookupKeepsCommands ==
  ASSUME Commands, NEW i, ScaleLookup(i)
  PROVE  /\ Commands' /\ DOMAIN commands' = DOMAIN commands
         /\ \A j \in DOMAIN commands :
              commands'[j].action = commands[j].action /\ commands'[j].pod = commands[j].pod
<1>1. /\ commands \in Seq(Command) /\ replicas \in Nat
      /\ i \in DOMAIN commands /\ commands[i].action \in ScaleActions
      /\ commands' = [commands EXCEPT ![i].read = replicas]
      /\ UNCHANGED <<replicas, asked>>
  BY DEF Commands, CommandTypes, ScaleLookup, Runs, CommandStep
<1>2. commands[i] \in Command /\ [commands[i] EXCEPT !.read = replicas] \in Command
  <2>1. commands[i] \in Command
    BY <1>1
  <2> QED BY <1>1, <2>1 DEF Command
<1>3. /\ commands' \in Seq(Command) /\ DOMAIN commands' = DOMAIN commands
      /\ commands'[i] = [commands[i] EXCEPT !.read = replicas]
      /\ \A j \in DOMAIN commands : j # i => commands'[j] = commands[j]
  BY <1>1, <1>2
<1>4. \A j \in DOMAIN commands :
        /\ commands'[j].action = commands[j].action /\ commands'[j].pod = commands[j].pod
        /\ commands'[j].read = IF j = i THEN replicas ELSE commands[j].read
  BY <1>1, <1>2, <1>3 DEF Command
<1>5. CommandTypes'
  BY <1>1, <1>3 DEF Commands, CommandTypes
<1>6. Floor' = Floor /\ Ceiling' = Ceiling
  <2>1. \A a : Of(commands', a) = Of(commands, a)
    BY <1>3, <1>4 DEF Of
  <2> QED BY <1>1, <2>1 DEF Floor, Ceiling, Running
<1>7. ScalesInRange'
  BY <1>1, <1>3, <1>4, <1>6 DEF Commands, ScalesInRange
<1> QED BY <1>3, <1>4, <1>5, <1>7 DEF Commands

-----------------------------------------------------------------------------
(* What the handlers share *)

Apart == Dialogs /\ Commands /\ ViewerWaits

LEMMA OptionsAre ==
  ASSUME NEW p
  PROVE  Options(p) \in Seq(Actions) /\ Len(Options(p)) \in 4..6
<1> DEFINE inspect == <<"exec", "logs", "describe">>
           scales == <<"scale_down", "scale_up">>
           kill == <<"kill">>
<1>1. /\ inspect \in Seq(Actions) /\ Len(inspect) = 3
      /\ scales \in Seq(Actions) /\ Len(scales) = 2
      /\ kill \in Seq(Actions) /\ Len(kill) = 1
      /\ <<>> \in Seq(Actions) /\ Len(<<>>) = 0
  BY DEF Actions, Inspect, DangerousActions, ScaleActions
<1> DEFINE scaling == IF p \in Scalable THEN scales ELSE <<>>
<1>2. Options(p) = inspect \o scaling \o kill
  BY DEF Options
<1>3. scaling \in Seq(Actions) /\ Len(scaling) \in {0, 2}
  BY <1>1
<1> HIDE DEF inspect, scales, kill, scaling
<1>4. inspect \o scaling \in Seq(Actions) /\ Len(inspect \o scaling) \in {3, 5}
  <2>1. inspect \in Seq(Actions) /\ Len(inspect) = 3
    BY <1>1
  <2>2. inspect \o scaling \in Seq(Actions) /\ Len(inspect \o scaling) = Len(inspect) + Len(scaling)
    BY <1>3, <2>1, ConcatProperties
  <2> DEFINE n == Len(inspect \o scaling)
  <2>3. CASE Len(scaling) = 0
    <3>1. n = 3 + 0
      BY <2>1, <2>2, <2>3
    <3> HIDE DEF n
    <3>2. n \in {3, 5}
      BY <3>1
    <3> QED BY <2>2, <3>2 DEF n
  <2>4. CASE Len(scaling) = 2
    <3>1. n = 3 + 2
      BY <2>1, <2>2, <2>4
    <3> HIDE DEF n
    <3>2. n \in {3, 5}
      BY <3>1
    <3> QED BY <2>2, <3>2 DEF n
  <2> QED BY <1>3, <2>3, <2>4
<1> DEFINE first == inspect \o scaling
<1>5. first \in Seq(Actions) /\ Len(first) \in {3, 5} /\ Options(p) = first \o kill
  BY <1>2, <1>4
<1> HIDE DEF first
<1>6. first \o kill \in Seq(Actions) /\ Len(first \o kill) = Len(first) + Len(kill)
  <2>1. kill \in Seq(Actions)
    BY <1>1
  <2> QED BY <1>5, <2>1, ConcatProperties
<1>7. Len(kill) = 1
  BY <1>1
<1> QED BY <1>5, <1>6, <1>7

LEMMA ListStands ==
  ASSUME ListBasics, UNCHANGED <<live, order, paused, viewVars, selected, pinned, page, shown>>,
         doing' = doing \/ doing'.op \notin {"column", "page"}
  PROVE  ListBasics'
<1>1. SelectionIsOnPage'
  BY DEF ListBasics, SelectionIsOnPage
<1> QED BY <1>1 DEF ListBasics, viewVars

LEMMA KeyKeepsList ==
  ASSUME ListBasics, NEW dialog, DialogKey(dialog), Touched(TRUE), doing'.op \notin {"column", "page"}
  PROVE  ListBasics'
<1>1. /\ UNCHANGED <<live, viewVars, shown>>
  BY DEF DialogKey, Key
<1>2. paused' \in BOOLEAN
  BY Zenon DEF DialogKey, Key
<1> QED BY <1>1, <1>2, TouchedBasics

LEMMA CommandsStand ==
  ASSUME Commands, UNCHANGED commandVars
  PROVE  Commands'
BY DEF Commands, CommandTypes, ScalesInRange, Floor, Ceiling, commandVars

LEMMA ViewerStands ==
  ASSUME ViewerWaits, UNCHANGED <<viewer, commands>>
  PROVE  ViewerWaits'
BY DEF ViewerWaits

LEMMA DialogsStand ==
  ASSUME Dialogs, UNCHANGED dialogVars,
         \/ doing' = doing
         \/ doing'.op \in {"idle", "view", "footer", "column", "page"}
  PROVE  Dialogs'
BY DEF Dialogs, DialogTypes, DialogsAreApart, dialogVars, menuVars, confirmVars, containerVars

LEMMA Closed ==
  ASSUME Dialogs, CloseMenus, viewer' \in Shape, doing' = ViewDue
  PROVE  Dialogs'
<1>1. actionMenuOpen' = FALSE /\ confirmActionOpen' = FALSE /\ containerMenuOpen' = FALSE
  BY DEF CloseMenus
<1>2. actionMenuOpen' \in BOOLEAN /\ confirmActionOpen' \in BOOLEAN /\ containerMenuOpen' \in BOOLEAN
  BY <1>1, Zenon
<1>3. doing'.op = "view"
  BY DEF ViewDue
<1>4. /\ confirmActionIndex' = 0
      /\ UNCHANGED <<actionMenuIndex, confirmAction, containerMenuIndex, pendingAction>>
  BY DEF CloseMenus
<1>5. DialogTypes'
  BY <1>2, <1>3, <1>4 DEF Dialogs, DialogTypes
<1>6. DialogsAreApart'
  BY <1>1, <1>3 DEF DialogsAreApart
<1> QED BY <1>5, <1>6 DEF Dialogs

LEMMA NothingSelectedStep ==
  ASSUME Apart, NEW s, NothingSelected(s)
  PROVE  Apart' /\ doing' = ViewDue
<1>1. CloseMenus /\ doing' = ViewDue /\ UNCHANGED <<viewer, commandVars>>
  BY DEF NothingSelected, Return
<1>2. viewer' \in Shape
  BY <1>1 DEF Apart, Dialogs, DialogTypes
<1>3. UNCHANGED commands
  BY <1>1 DEF commandVars
<1> QED BY <1>1, <1>2, <1>3, Closed, CommandsStand, ViewerStands DEF Apart

(* A command starts from a dialog, which closes. *)
LEMMA ChosenStarts ==
  ASSUME Apart, ~viewer.open, NEW action \in Actions, NEW p \in Pod,
         CloseMenus, StartPodAction(action, p)
  PROVE  Apart' /\ doing' = ViewDue
<1>1. doing' = ViewDue
  BY DEF StartPodAction, Return
<1> DEFINE c == [action |-> action, pod |-> p, read |-> Nil]
<1>2. commands \in Seq(Command) /\ commands' = Append(commands, c) /\ viewer \in Shape
  BY DEF Apart, Commands, CommandTypes, Dialogs, DialogTypes, StartPodAction
<1>3. CASE action \in {"logs", "describe"}
  <2>1. viewer' = [open |-> TRUE, loading |-> TRUE, title |-> Title(action, p), body |-> Nil]
    BY <1>3 DEF StartPodAction
  <2>2. viewer'.loading = TRUE /\ viewer'.title = Title(action, p)
    BY <2>1
  <2>3. viewer' \in Shape
    <3>1. Title(action, p) \in Titles /\ Nil \in Titles
      BY DEF Title, Titles
    <3>2. TRUE \in BOOLEAN
      BY Zenon
    <3> HIDE DEF Title
    <3> QED BY <2>1, <3>1, <3>2, Zenon DEF Shape
  <2>4. /\ Len(commands) + 1 \in DOMAIN commands'
        /\ commands'[Len(commands) + 1].action = action /\ commands'[Len(commands) + 1].pod = p
    BY <1>2
  <2>5. ViewerWaits'
    BY <1>3, <2>2, <2>4 DEF ViewerWaits
  <2> QED BY <1>1, <2>3, <2>5, Closed, StartKeepsCommands DEF Apart
<1>4. CASE action \notin {"logs", "describe"}
  <2>1. viewer' = viewer
    BY <1>4 DEF StartPodAction
  <2>2. ViewerWaits'
    BY <2>1 DEF ViewerWaits
  <2> QED BY <1>1, <1>2, <2>1, <2>2, Closed, StartKeepsCommands DEF Apart
<1> QED BY <1>3, <1>4

-----------------------------------------------------------------------------
(* Each action *)

Same == Apart /\ ListBasics

LEMMA SelectedIsPod ==
  ASSUME ListBasics, NEW frozen
  PROVE  LET s == Build(frozen) IN s.selected # Nil => s.selected \in Pod
BY BasicFacts, BuildIs

LEMMA EnterStep ==
  ASSUME Same, EnterKey
  PROVE  Same' /\ doing' = ViewDue
<1> DEFINE s == Build(TRUE)
<1>1. /\ DialogKey("list") /\ doing' = ViewDue /\ UNCHANGED commandVars
      /\ \/ s.selected = Nil /\ Keep(s) /\ UNCHANGED dialogVars
         \/ /\ s.selected # Nil /\ Select(s, s.selected, s.page)
            /\ actionMenuOpen' = TRUE /\ actionMenuIndex' = 0
            /\ UNCHANGED <<confirmVars, containerVars, viewer>>
  BY DEF EnterKey, Return
<1>2. ~viewer.open /\ ~confirmActionOpen /\ ~containerMenuOpen
  BY <1>1 DEF DialogKey, Dialog
<1>3. doing'.op = "view"
  BY <1>1 DEF ViewDue
<1>4. Touched(TRUE)
  <2>1. CASE s.selected = Nil
    BY <1>1, <2>1, KeepTouches DEF Same
  <2>2. CASE s.selected # Nil
    <3>1. s.selected \in Pod /\ s.page \in Nat \ {0}
      BY <2>2, SelectedIsPod, BasicFacts, BuildIs DEF Same
    <3> QED BY <1>1, <2>2, <3>1, SelectTouches DEF Same
  <2> QED BY <2>1, <2>2
<1>5. ListBasics'
  BY <1>1, <1>3, <1>4, KeyKeepsList DEF Same
<1>6. Commands'
  BY <1>1, CommandsStand DEF Same, Apart
<1>7. Dialogs'
  <2>1. CASE s.selected = Nil
    BY <1>1, <1>3, <2>1, DialogsStand DEF Same, Apart
  <2>2. CASE s.selected # Nil
    <3>1. actionMenuOpen' = TRUE /\ actionMenuIndex' = 0 /\ UNCHANGED <<confirmVars, containerVars, viewer>>
      BY <1>1, <2>2
    <3>2. actionMenuOpen' \in BOOLEAN
      BY <3>1, Zenon
    <3>3. DialogTypes'
      BY <1>3, <3>1, <3>2 DEF Same, Apart, Dialogs, DialogTypes, confirmVars, containerVars
    <3>4. DialogsAreApart'
      BY <1>2, <1>3, <3>1 DEF DialogsAreApart, confirmVars, containerVars
    <3> QED BY <3>3, <3>4 DEF Dialogs
  <2> QED BY <2>1, <2>2
<1>8. ViewerWaits'
  <2>1. UNCHANGED <<viewer, commands>>
    BY <1>1 DEF dialogVars, commandVars
  <2> QED BY <2>1, ViewerStands DEF Same, Apart
<1> QED BY <1>1, <1>5, <1>6, <1>7, <1>8 DEF Same, Apart

LEMMA MenuStep ==
  ASSUME Same, ActionMenuKey
  PROVE  Same' /\ doing' # Idle /\ UNCHANGED commands
<1> DEFINE s == Build(TRUE)
           n == Len(Options(s.selected))
<1>1. DialogKey("menu") /\ Keep(s)
  BY DEF ActionMenuKey
<1>2. ~viewer.open /\ ~confirmActionOpen /\ ~containerMenuOpen /\ actionMenuOpen
  BY <1>1 DEF DialogKey, Dialog
<1>3. Touched(TRUE)
  BY <1>1, KeepTouches DEF Same
<1>4. \/ NothingSelected(s)
      \/ /\ UNCHANGED <<viewer, commandVars>>
         /\ \/ CloseMenus /\ doing' = ViewDue
            \/ \E step \in {-1, 1} : MenuArrow(s, step)
            \/ \E index \in 0..5 : MenuChoose(s, index)
  BY DEF ActionMenuKey, Return
<1>5. CASE NothingSelected(s)
  <2>1. Apart' /\ doing' = ViewDue
    BY <1>5, NothingSelectedStep DEF Same
  <2>2. doing'.op = "view" /\ doing' # Idle
    BY <2>1 DEF ViewDue, Idle
  <2>3. ListBasics'
    BY <1>1, <1>3, <2>2, KeyKeepsList DEF Same
  <2>4. UNCHANGED commands
    BY <1>5 DEF NothingSelected, commandVars
  <2> QED BY <2>1, <2>2, <2>3, <2>4 DEF Same
<1>6. CASE ~NothingSelected(s)
  <2>1. UNCHANGED <<viewer, commandVars, commands>>
    BY <1>4, <1>6 DEF commandVars
  <2>2. Commands' /\ ViewerWaits'
    BY <2>1, CommandsStand, ViewerStands DEF Same, Apart
  <2>3. CASE CloseMenus /\ doing' = ViewDue
    <3>1. Dialogs'
      BY <2>1, <2>3, Closed DEF Same, Apart, Dialogs, DialogTypes
    <3>2. doing'.op = "view" /\ doing' # Idle
      BY <2>3 DEF ViewDue, Idle
    <3>3. ListBasics'
      BY <1>1, <1>3, <3>2, KeyKeepsList DEF Same
    <3> QED BY <2>1, <2>2, <3>1, <3>2, <3>3 DEF Same, Apart
  <2>4. ASSUME NEW step \in {-1, 1}, MenuArrow(s, step)
        PROVE  Same' /\ doing' # Idle
    <3>1. /\ CanMove(actionMenuIndex, step, n) /\ actionMenuIndex' = actionMenuIndex + step
          /\ doing' = ViewDue /\ UNCHANGED <<actionMenuOpen, confirmVars, containerVars>>
      BY <2>4 DEF MenuArrow, Return
    <3>2. n \in 4..6 /\ actionMenuIndex \in 0..5
      BY OptionsAre DEF Same, Apart, Dialogs, DialogTypes
    <3> HIDE DEF n
    <3>3. actionMenuIndex' \in 0..5
      BY <3>1, <3>2 DEF CanMove
    <3>4. doing'.op = "view" /\ doing' # Idle
      BY <3>1 DEF ViewDue, Idle
    <3>5. DialogTypes'
      BY <2>1, <3>1, <3>3, <3>4 DEF Same, Apart, Dialogs, DialogTypes, confirmVars, containerVars
    <3>6. DialogsAreApart'
      BY <2>1, <1>2, <3>1, <3>4 DEF DialogsAreApart, confirmVars, containerVars
    <3>7. ListBasics'
      BY <1>1, <1>3, <3>4, KeyKeepsList DEF Same
    <3> QED BY <2>2, <3>4, <3>5, <3>6, <3>7 DEF Same, Apart, Dialogs
  <2>5. ASSUME NEW index \in 0..5, MenuChoose(s, index)
        PROVE  Same' /\ doing' # Idle
    <3> DEFINE choice == Options(s.selected)[index + 1]
    <3>1. /\ index < n /\ actionMenuIndex' = index /\ doing' = [op |-> "resolve", arg |-> choice]
          /\ UNCHANGED <<actionMenuOpen, confirmVars, containerVars>>
      BY <2>5 DEF MenuChoose
    <3>2. choice \in Actions
      <4> DEFINE opts == Options(s.selected)
      <4>1. opts \in Seq(Actions) /\ index < Len(opts)
        BY <3>1, OptionsAre
      <4> HIDE DEF opts
      <4>2. index + 1 \in 1..Len(opts)
        BY <4>1
      <4>3. opts[index + 1] \in Actions
        BY <4>1, <4>2
      <4> QED BY <4>3 DEF opts
    <3> HIDE DEF choice, n
    <3>3. doing'.op = "resolve" /\ doing'.arg = choice /\ doing' # Idle
      BY <3>1 DEF Idle
    <3>4. DialogTypes'
      BY <2>1, <3>1, <3>3 DEF Same, Apart, Dialogs, DialogTypes, confirmVars, containerVars
    <3>5. DialogsAreApart'
      BY <2>1, <1>2, <3>1, <3>2, <3>3 DEF DialogsAreApart, confirmVars, containerVars
    <3>6. ListBasics'
      BY <1>1, <1>3, <3>3, KeyKeepsList DEF Same
    <3> QED BY <2>2, <3>3, <3>4, <3>5, <3>6 DEF Same, Apart, Dialogs
  <2> QED BY <1>4, <1>6, <2>1, <2>3, <2>4, <2>5
<1> QED BY <1>5, <1>6

LEMMA ResolveStep ==
  ASSUME Same, ResolvePodAction
  PROVE  Same' /\ doing' = ViewDue
<1> DEFINE s == Build(paused)
           action == doing.arg
<1>1. /\ doing.op = "resolve" /\ Keep(s) /\ UNCHANGED <<live, paused, viewVars, shown>>
  BY DEF ResolvePodAction
<1>2. action \in Actions /\ ~viewer.open /\ ~confirmActionOpen /\ ~containerMenuOpen
  BY <1>1 DEF Same, Apart, Dialogs, DialogsAreApart
<1>3. \/ NothingSelected(s)
      \/ s.selected # Nil /\ CloseMenus /\ StartPodAction(action, s.selected)
      \/ s.selected # Nil /\ action \in {"exec", "logs"} /\ PickContainer(action)
      \/ s.selected # Nil /\ action \in DangerousActions /\ AskToConfirm(action)
  BY DEF ResolvePodAction
<1>4. Apart' /\ doing' = ViewDue
  <2>1. CASE NothingSelected(s)
    BY <2>1, NothingSelectedStep DEF Same
  <2>2. CASE s.selected # Nil /\ CloseMenus /\ StartPodAction(action, s.selected)
    <3>1. s.selected \in Pod
      BY <2>2, SelectedIsPod DEF Same
    <3> QED BY <1>2, <2>2, <3>1, ChosenStarts DEF Same
  <2>3. CASE s.selected # Nil /\ action \in {"exec", "logs"} /\ PickContainer(action)
    <3>1. /\ pendingAction' = action /\ containerMenuIndex' = 0
          /\ containerMenuOpen' = TRUE /\ actionMenuOpen' = FALSE /\ doing' = ViewDue
          /\ UNCHANGED <<actionMenuIndex, confirmVars, viewer, commandVars>>
      BY <2>3 DEF PickContainer, Return
    <3>2. containerMenuOpen' \in BOOLEAN /\ actionMenuOpen' \in BOOLEAN
      BY <3>1, Zenon
    <3>3. doing'.op = "view"
      BY <3>1 DEF ViewDue
    <3>4. DialogTypes'
      BY <2>3, <3>1, <3>2, <3>3 DEF Same, Apart, Dialogs, DialogTypes, confirmVars
    <3>5. DialogsAreApart'
      BY <1>2, <2>3, <3>1, <3>3 DEF DialogsAreApart, confirmVars
    <3>6. Commands' /\ ViewerWaits'
      BY <3>1, CommandsStand, ViewerStands DEF Same, Apart, commandVars
    <3> QED BY <3>1, <3>4, <3>5, <3>6 DEF Apart, Dialogs
  <2>4. CASE s.selected # Nil /\ action \in DangerousActions /\ AskToConfirm(action)
    <3>1. /\ confirmAction' = action /\ confirmActionOpen' = TRUE /\ confirmActionIndex' = 0
          /\ actionMenuOpen' = FALSE /\ doing' = ViewDue
          /\ UNCHANGED <<actionMenuIndex, containerVars, viewer, commandVars>>
      BY <2>4 DEF AskToConfirm, Return
    <3>2. confirmActionOpen' \in BOOLEAN /\ actionMenuOpen' \in BOOLEAN
      BY <3>1, Zenon
    <3>3. doing'.op = "view"
      BY <3>1 DEF ViewDue
    <3>4. DialogTypes'
      BY <2>4, <3>1, <3>2, <3>3 DEF Same, Apart, Dialogs, DialogTypes, containerVars
    <3>5. DialogsAreApart'
      BY <1>2, <2>4, <3>1, <3>3 DEF DialogsAreApart, containerVars, DangerousActions, ScaleActions
    <3>6. Commands' /\ ViewerWaits'
      BY <3>1, CommandsStand, ViewerStands DEF Same, Apart, commandVars
    <3> QED BY <3>1, <3>4, <3>5, <3>6 DEF Apart, Dialogs
  <2> QED BY <1>3, <2>1, <2>2, <2>3, <2>4
<1>5. ListBasics'
  <2>1. Touched(paused)
    BY <1>1, KeepTouches DEF Same
  <2>2. paused' \in BOOLEAN
    BY <1>1 DEF Same, ListBasics
  <2>3. doing'.op \notin {"column", "page"}
    BY <1>4 DEF ViewDue
  <2> QED BY <1>1, <2>1, <2>2, <2>3, TouchedBasics DEF Same
<1> QED BY <1>4, <1>5 DEF Same

LEMMA ContainerStep ==
  ASSUME Same, ContainerMenuKey
  PROVE  Same' /\ doing' = ViewDue
<1> DEFINE s == Build(TRUE)
           Moves == \E step \in {-1, 1} :
                      /\ CanMove(containerMenuIndex, step, Containers[s.selected])
                      /\ containerMenuIndex' = containerMenuIndex + step
                      /\ doing' = ViewDue
                      /\ UNCHANGED <<menuVars, confirmVars, containerMenuOpen, pendingAction,
                                     viewer, commandVars>>
           Back == /\ containerMenuOpen' = FALSE /\ actionMenuOpen' = TRUE
                   /\ doing' = ViewDue
                   /\ UNCHANGED <<actionMenuIndex, confirmVars, containerMenuIndex, pendingAction,
                                  viewer, commandVars>>
<1>1. DialogKey("container") /\ Keep(s)
  BY DEF ContainerMenuKey
<1>2. ~viewer.open /\ ~confirmActionOpen /\ containerMenuOpen
  BY <1>1 DEF DialogKey, Dialog
<1>3. ~actionMenuOpen /\ pendingAction \in {"exec", "logs"} /\ doing.op # "resolve"
  BY <1>2 DEF Same, Apart, Dialogs, DialogTypes, DialogsAreApart
<1>4. \/ NothingSelected(s)
      \/ s.selected # Nil /\ CloseMenus /\ StartPodAction(pendingAction, s.selected)
      \/ s.selected # Nil /\ Moves
      \/ s.selected # Nil /\ Back
  BY DEF ContainerMenuKey, Return
<1>5. Apart' /\ doing' = ViewDue
  <2>1. CASE NothingSelected(s)
    BY <2>1, NothingSelectedStep DEF Same
  <2>2. CASE s.selected # Nil /\ CloseMenus /\ StartPodAction(pendingAction, s.selected)
    <3>1. s.selected \in Pod
      BY <2>2, SelectedIsPod DEF Same
    <3>2. pendingAction \in Actions
      BY <1>3 DEF Actions, Inspect
    <3> QED BY <1>2, <2>2, <3>1, <3>2, ChosenStarts DEF Same
  <2>3. CASE s.selected # Nil /\ Moves
    <3>1. s.selected \in Pod
      BY <2>3, SelectedIsPod DEF Same
    <3>2. Containers[s.selected] \in Nat
      BY <3>1, PodsHaveContainers
    <3>3. /\ doing' = ViewDue
          /\ UNCHANGED <<menuVars, confirmVars, containerMenuOpen, pendingAction, viewer, commandVars>>
      BY <2>3
    <3>4. containerMenuIndex' \in Nat
      <4> DEFINE n == Containers[s.selected]
      <4>1. PICK step \in {-1, 1} : CanMove(containerMenuIndex, step, n)
                                    /\ containerMenuIndex' = containerMenuIndex + step
        BY <2>3
      <4>2. n \in Nat /\ containerMenuIndex \in Nat
        BY <3>2 DEF Same, Apart, Dialogs, DialogTypes
      <4> HIDE DEF n
      <4> QED BY <4>1, <4>2 DEF CanMove
    <3>5. doing'.op = "view"
      BY <3>3 DEF ViewDue
    <3>6. DialogTypes'
      BY <3>3, <3>4, <3>5 DEF Same, Apart, Dialogs, DialogTypes, menuVars, confirmVars
    <3>7. DialogsAreApart'
      BY <3>3, <3>5 DEF Same, Apart, Dialogs, DialogsAreApart, menuVars, confirmVars
    <3>8. Commands' /\ ViewerWaits'
      BY <3>3, CommandsStand, ViewerStands DEF Same, Apart, commandVars
    <3> QED BY <3>3, <3>6, <3>7, <3>8 DEF Apart, Dialogs
  <2>4. CASE s.selected # Nil /\ Back
    <3>1. /\ containerMenuOpen' = FALSE /\ actionMenuOpen' = TRUE /\ doing' = ViewDue
          /\ UNCHANGED <<actionMenuIndex, confirmVars, containerMenuIndex, pendingAction,
                         viewer, commandVars>>
      BY <2>4
    <3>2. containerMenuOpen' \in BOOLEAN /\ actionMenuOpen' \in BOOLEAN
      BY <3>1, Zenon
    <3>3. doing'.op = "view"
      BY <3>1 DEF ViewDue
    <3>4. DialogTypes'
      BY <3>1, <3>2, <3>3 DEF Same, Apart, Dialogs, DialogTypes, confirmVars
    <3>5. DialogsAreApart'
      BY <1>2, <3>1, <3>3 DEF DialogsAreApart, confirmVars
    <3>6. Commands' /\ ViewerWaits'
      BY <3>1, CommandsStand, ViewerStands DEF Same, Apart, commandVars
    <3> QED BY <3>1, <3>4, <3>5, <3>6 DEF Apart, Dialogs
  <2> QED BY <1>4, <2>1, <2>2, <2>3, <2>4
<1>6. doing'.op \notin {"column", "page"}
  BY <1>5 DEF ViewDue
<1>7. ListBasics'
  BY <1>1, <1>6, KeepTouches, KeyKeepsList DEF Same
<1> QED BY <1>5, <1>7 DEF Same

LEMMA ConfirmStep ==
  ASSUME Same, ConfirmActionKey
  PROVE  Same' /\ doing' = ViewDue
<1> DEFINE s == Build(TRUE)
<1>1. DialogKey("confirm") /\ Keep(s)
  BY DEF ConfirmActionKey
<1>2. ~viewer.open /\ confirmActionOpen
  BY <1>1 DEF DialogKey, Dialog
<1>3. ~actionMenuOpen /\ ~containerMenuOpen /\ confirmAction \in DangerousActions /\ doing.op # "resolve"
  BY <1>2 DEF Same, Apart, Dialogs, DialogTypes, DialogsAreApart
<1>4. \/ NothingSelected(s)
      \/ s.selected # Nil /\ CancelAction
      \/ s.selected # Nil /\ Confirm(s)
      \/ \E index \in {0, 1} : FocusButton(index)
  BY DEF ConfirmActionKey
<1>5. Apart' /\ doing' = ViewDue
  <2>1. CASE NothingSelected(s)
    BY <2>1, NothingSelectedStep DEF Same
  <2>2. CASE s.selected # Nil /\ Confirm(s)
    <3>1. s.selected \in Pod
      BY <2>2, SelectedIsPod DEF Same
    <3>2. confirmAction \in Actions
      BY <1>3 DEF Actions
    <3> QED BY <1>2, <2>2, <3>1, <3>2, ChosenStarts DEF Same, Confirm
  <2>3. CASE s.selected # Nil /\ CancelAction
    <3>1. /\ actionMenuOpen' = TRUE /\ confirmActionOpen' = FALSE /\ confirmActionIndex' = 0
          /\ doing' = ViewDue
          /\ UNCHANGED <<actionMenuIndex, confirmAction, containerVars, viewer, commandVars>>
      BY <2>3 DEF CancelAction, OpenActionMenu, Return
    <3>2. confirmActionOpen' \in BOOLEAN /\ actionMenuOpen' \in BOOLEAN
      BY <3>1, Zenon
    <3>3. doing'.op = "view"
      BY <3>1 DEF ViewDue
    <3>4. DialogTypes'
      BY <3>1, <3>2, <3>3 DEF Same, Apart, Dialogs, DialogTypes, containerVars
    <3>5. DialogsAreApart'
      BY <1>2, <1>3, <3>1, <3>3 DEF DialogsAreApart, containerVars
    <3>6. Commands' /\ ViewerWaits'
      BY <3>1, CommandsStand, ViewerStands DEF Same, Apart, commandVars
    <3> QED BY <3>1, <3>4, <3>5, <3>6 DEF Apart, Dialogs
  <2>4. ASSUME NEW index \in {0, 1}, FocusButton(index)
        PROVE  Apart' /\ doing' = ViewDue
    <3>1. /\ confirmActionIndex' = index /\ doing' = ViewDue
          /\ UNCHANGED <<menuVars, confirmActionOpen, confirmAction, containerVars, viewer, commandVars>>
      BY <2>4 DEF FocusButton, Return
    <3>2. doing'.op = "view"
      BY <3>1 DEF ViewDue
    <3>3. DialogTypes'
      BY <3>1, <3>2 DEF Same, Apart, Dialogs, DialogTypes, menuVars, containerVars
    <3>4. DialogsAreApart'
      BY <3>1, <3>2 DEF Same, Apart, Dialogs, DialogsAreApart, menuVars, containerVars
    <3>5. Commands' /\ ViewerWaits'
      BY <3>1, CommandsStand, ViewerStands DEF Same, Apart, commandVars
    <3> QED BY <3>1, <3>3, <3>4, <3>5 DEF Apart, Dialogs
  <2> QED BY <1>4, <2>1, <2>2, <2>3, <2>4
<1>6. doing'.op \notin {"column", "page"}
  BY <1>5 DEF ViewDue
<1>7. ListBasics'
  BY <1>1, <1>6, KeepTouches, KeyKeepsList DEF Same
<1> QED BY <1>5, <1>7 DEF Same

LEMMA CloseViewerStep ==
  ASSUME Same, CloseViewer
  PROVE  Same' /\ doing' = ViewDue
<1>1. /\ Key("menu") /\ viewer' = NoViewer /\ doing' = ViewDue
      /\ UNCHANGED <<viewVars, order, selected, pinned, page, menuVars, confirmVars, containerVars, commandVars>>
  BY DEF CloseViewer, DialogKey, Return
<1>2. doing'.op = "view" /\ viewer' \in Shape /\ viewer'.open = FALSE
  <2>1. NoViewer \in Shape /\ NoViewer.open = FALSE
    <3>1. Nil \in Titles
      BY DEF Titles
    <3>2. FALSE \in BOOLEAN
      BY Zenon
    <3>3. NoViewer \in Shape
      BY <3>1, <3>2, Zenon DEF NoViewer, Shape
    <3> QED BY <3>3 DEF NoViewer
  <2> QED BY <1>1, <2>1 DEF ViewDue
<1>3. DialogTypes' /\ DialogsAreApart'
  BY <1>1, <1>2 DEF Same, Apart, Dialogs, DialogTypes, DialogsAreApart, menuVars, confirmVars, containerVars
<1>4. Commands'
  BY <1>1, CommandsStand DEF Same, Apart
<1>5. ViewerWaits'
  BY <1>2 DEF ViewerWaits
<1>6. ListBasics'
  <2>1. UNCHANGED <<live, shown>>
    BY <1>1 DEF Key
  <2>2. paused' \in BOOLEAN
    BY <1>1, Zenon DEF Key
  <2>3. SelectionIsOnPage'
    BY <2>1 DEF Same, ListBasics, SelectionIsOnPage
  <2> QED BY <1>1, <1>2, <2>1, <2>2, <2>3 DEF Same, ListBasics, viewVars
<1> QED BY <1>1, <1>3, <1>4, <1>5, <1>6 DEF Same, Apart, Dialogs

LEMMA OutputStep ==
  ASSUME Same, NEW i, OutputMsg(i)
  PROVE  Same' /\ doing' = ViewDue
<1> DEFINE title == Title(commands[i].action, commands[i].pod)
<1>1. /\ i \in DOMAIN commands /\ commands' = RemoveAt(commands, i)
      /\ viewer' = [viewer EXCEPT !.loading = FALSE, !.title = title, !.body = title]
      /\ doing' = ViewDue
      /\ UNCHANGED <<live, order, paused, viewVars, selected, pinned, page, shown,
                     menuVars, confirmVars, containerVars, replicas, asked>>
  BY DEF OutputMsg, Runs, Return
<1>2. commands \in Seq(Command) /\ replicas \in Nat /\ viewer \in Shape
  BY DEF Same, Apart, Commands, CommandTypes, Dialogs, DialogTypes
<1>3. title \in Titles
  <2>1. commands[i] \in Command
    BY <1>1, <1>2
  <2> QED BY <2>1 DEF Command, Title, Titles
<1> HIDE DEF title
<1>4. viewer'.open = viewer.open /\ viewer'.body = viewer'.title
  BY <1>1, <1>2 DEF Shape
<1>5. viewer' \in Shape /\ viewer'.loading = FALSE
  <2>1. FALSE \in BOOLEAN
    BY Zenon
  <2>2. viewer' = [open |-> viewer.open, loading |-> FALSE, title |-> title, body |-> title]
    BY <1>1, <1>2 DEF Shape
  <2>3. viewer.open \in BOOLEAN
    BY <1>2, Zenon DEF Shape
  <2>4. [open |-> viewer.open, loading |-> FALSE, title |-> title, body |-> title] \in Shape
    BY <1>3, <2>1, <2>3, Zenon DEF Shape
  <2> QED BY <2>2, <2>4
<1>6. doing'.op = "view"
  BY <1>1 DEF ViewDue
<1>7. DialogTypes' /\ DialogsAreApart'
  BY <1>1, <1>4, <1>5, <1>6
     DEF Same, Apart, Dialogs, DialogTypes, DialogsAreApart, menuVars, confirmVars, containerVars
<1>8. Commands'
  BY <1>1, <1>2, CommandEndsKeeps DEF Same, Apart
<1>9. ViewerWaits'
  BY <1>4, <1>5 DEF ViewerWaits
<1>10. ListBasics'
  BY <1>1, <1>6, ListStands DEF Same
<1> QED BY <1>1, <1>7, <1>8, <1>9, <1>10 DEF Same, Apart, Dialogs

(* The other commands tell the dialogs nothing. *)
LEMMA EndStep ==
  ASSUME Same, NEW i, CommandEnds(i) \/ ScaleLookup(i) \/ ScaleWorkload(i)
  PROVE  Same' /\ UNCHANGED <<dialogVars, popup, doing, selected>>
<1>1. i \in DOMAIN commands /\ UNCHANGED <<listVars, dialogVars, asked, popup>>
  BY DEF CommandEnds, ScaleLookup, ScaleWorkload, CommandStep, Runs
<1>2. UNCHANGED <<live, order, paused, viewVars, selected, pinned, page, doing, shown>>
  BY <1>1 DEF listVars
<1>3. ListBasics' /\ Dialogs'
  BY <1>1, <1>2, ListStands, DialogsStand DEF Same, Apart
<1>4. viewer' = viewer
  BY <1>1 DEF dialogVars
<1>5. commands \in Seq(Command) /\ commands[i] \in Command /\ replicas \in Nat
  BY <1>1 DEF Same, Apart, Commands, CommandTypes
<1>6. CASE ScaleLookup(i)
  <2>1. /\ Commands' /\ DOMAIN commands' = DOMAIN commands
        /\ \A j \in DOMAIN commands :
             commands'[j].action = commands[j].action /\ commands'[j].pod = commands[j].pod
    BY <1>6, LookupKeepsCommands DEF Same, Apart
  <2>2. ViewerWaits'
    BY <1>4, <2>1 DEF Same, Apart, ViewerWaits
  <2> QED BY <1>1, <1>2, <1>3, <2>1, <2>2 DEF Same, Apart
<1>7. CASE CommandEnds(i) \/ ScaleWorkload(i)
  <2>1. /\ commands' = RemoveAt(commands, i) /\ replicas' \in Nat
        /\ \/ replicas' = replicas
           \/ /\ commands[i].read # Nil
              /\ replicas' = ScaleTarget(commands[i].read, commands[i].action)
        /\ commands[i].action \notin {"logs", "describe"}
    <3>1. CASE CommandEnds(i)
      BY <1>5, <3>1 DEF CommandEnds
    <3>2. CASE ScaleWorkload(i)
      <4>1. /\ commands[i].read # Nil /\ commands' = RemoveAt(commands, i)
            /\ replicas' = ScaleTarget(commands[i].read, commands[i].action)
        BY <3>2 DEF ScaleWorkload
      <4>2. commands[i].read \in Nat /\ commands[i].action \in ScaleActions
        <5>1. commands[i].read \in Nat
          BY <1>5, <4>1 DEF Command
        <5> QED BY <1>1, <4>1, <5>1 DEF Same, Apart, Commands, ScalesInRange
      <4> DEFINE read == commands[i].read
                 target == ScaleTarget(read, commands[i].action)
      <4>3. target \in Nat
        <5>1. read \in Nat
          BY <4>2
        <5> HIDE DEF read
        <5> QED BY <5>1 DEF ScaleTarget
      <4> QED BY <4>1, <4>2, <4>3 DEF ScaleActions
    <3> QED BY <1>7, <3>1, <3>2
  <2>2. Commands'
    BY <1>1, <2>1, CommandEndsKeeps DEF Same, Apart
  <2>3. ViewerWaits'
    <3>1. \A k \in DOMAIN commands : k # i =>
            \E j \in DOMAIN commands' : commands'[j] = commands[k]
      BY <1>1, <1>5, <2>1, OthersRemain
    <3> QED BY <1>4, <2>1, <3>1 DEF Same, Apart, ViewerWaits
  <2> QED BY <1>1, <1>2, <1>3, <2>2, <2>3 DEF Same, Apart
<1> QED BY <1>6, <1>7

LEMMA ListStep ==
  ASSUME Same, ListSteps
  PROVE  /\ Same' /\ UNCHANGED <<dialogVars, commandVars, popup>>
         /\ ~confirmActionOpen \/ doing' = ViewDue \/ UNCHANGED doing
<1>1. UNCHANGED <<dialogVars, commandVars, popup>>
  BY DEF ListSteps
<1>2. /\ ListBasics' /\ (doing' = doing \/ doing'.op \in {"idle", "view", "column", "page"})
      /\ ~confirmActionOpen \/ doing' = ViewDue \/ UNCHANGED doing
  <2>1. CASE NoDialogs /\ (ListKeys \/ SelectColumn \/ SelectPageStep)
    <3>1. ~confirmActionOpen
      BY <2>1 DEF NoDialogs, Dialog
    <3>2. ListBasics' /\ doing'.op \in {"view", "column", "page"}
      BY <2>1, ListKeysStep, SelectSteps DEF Same
    <3> QED BY <3>1, <3>2
  <2>2. ASSUME NEW b \in Budgets, NEW c \in ColumnCounts, WindowSize(b, c)
        PROVE  ListBasics' /\ doing' = ViewDue
    BY <2>2, WindowSizeStep DEF Same
  <2>3. CASE ListEnvironment
    BY <2>3, ListEnvironmentStep DEF Same
  <2> QED BY <2>1, <2>2, <2>3 DEF ListSteps, ViewDue
<1>3. Dialogs' /\ Commands'
  BY <1>1, <1>2, DialogsStand, CommandsStand DEF Same, Apart
<1>4. ViewerWaits'
  BY <1>1, ViewerStands DEF Same, Apart, dialogVars, commandVars
<1> QED BY <1>1, <1>2, <1>3, <1>4 DEF Same, Apart

(* ensureSelectedPod opens no dialog. *)
LEMMA MenusClose ==
  ASSUME Apart, NEW pod, MenusNeed(pod), doing'.op \in {"idle", "footer"}
  PROVE  Apart' /\ UNCHANGED <<commands, confirmVars>>
<1>1. /\ actionMenuOpen' = (actionMenuOpen /\ pod # Nil)
      /\ containerMenuOpen' = (containerMenuOpen /\ pod # Nil)
      /\ UNCHANGED <<actionMenuIndex, confirmVars, containerMenuIndex, pendingAction, viewer, commandVars>>
  BY DEF MenusNeed
<1>2. actionMenuOpen' \in BOOLEAN /\ containerMenuOpen' \in BOOLEAN
  BY <1>1, Zenon
<1>3. DialogTypes'
  BY <1>1, <1>2 DEF Apart, Dialogs, DialogTypes, confirmVars
<1>4. (actionMenuOpen' => actionMenuOpen) /\ (containerMenuOpen' => containerMenuOpen)
  BY <1>1
<1>5. DialogsAreApart'
  BY <1>1, <1>4 DEF Apart, Dialogs, DialogsAreApart, confirmVars
<1>6. UNCHANGED commands /\ Commands' /\ ViewerWaits'
  BY <1>1, CommandsStand, ViewerStands DEF Apart, commandVars
<1> QED BY <1>1, <1>3, <1>5, <1>6 DEF Apart, Dialogs

(* The View paints the list and then, over it, the dialog that is open.    *)
LEMMA PaintStep ==
  ASSUME Same, ViewScreen
  PROVE  Same' /\ ConfirmIsPainted' /\ UNCHANGED commands
<1>1. CASE ViewViewer
  <2>1. /\ doing' = Idle /\ viewer.open
        /\ UNCHANGED <<live, order, paused, viewVars, selected, pinned, page, shown, dialogVars,
                       popup, commandVars>>
    BY <1>1 DEF ViewViewer
  <2>2. doing'.op = "idle"
    BY <2>1 DEF Idle
  <2>3. ListBasics' /\ Dialogs' /\ Commands'
    BY <2>1, <2>2, ListStands, DialogsStand, CommandsStand DEF Same, Apart
  <2>4. UNCHANGED <<viewer, commands, confirmActionOpen>>
    BY <2>1 DEF dialogVars, confirmVars, commandVars
  <2>5. ViewerWaits'
    BY <2>4, ViewerStands DEF Same, Apart
  <2>6. ~confirmActionOpen'
    BY <2>1, <2>4 DEF Same, Apart, Dialogs, DialogsAreApart
  <2> QED BY <2>3, <2>4, <2>5, <2>6 DEF Same, Apart, ConfirmIsPainted
<1>2. CASE ViewList
  <2>1. View /\ MenusNeed(Build(paused).selected)
    BY <1>2 DEF ViewList
  <2>2. ListBasics' /\ doing' = FooterDue
    BY <2>1, ViewPaints DEF Same
  <2>3. doing'.op = "footer" /\ doing' # Idle
    BY <2>2 DEF FooterDue, Idle
  <2>4. Apart' /\ UNCHANGED commands
    BY <2>1, <2>3, MenusClose DEF Same
  <2> QED BY <2>2, <2>3, <2>4 DEF Same, ConfirmIsPainted
<1>3. CASE ViewPopup
  <2>1. /\ WriteFooter /\ MenusNeed(Build(paused).selected)
        /\ popup' = Popup(shown.selected)'
    BY <1>3 DEF ViewPopup
  <2>2. ListBasics' /\ doing' = Idle
    BY <2>1, FooterStep DEF Same
  <2>3. doing'.op = "idle"
    BY <2>2 DEF Idle
  <2>4. Apart' /\ UNCHANGED commands
    BY <2>1, <2>3, MenusClose DEF Same
  <2>5. ConfirmIsPainted'
    <3> SUFFICES ASSUME confirmActionOpen', popup'.pod # Nil
                 PROVE  /\ popup'.dialog = "confirm" /\ popup'.action = confirmAction'
                        /\ popup'.index = confirmActionIndex'
      BY DEF ConfirmIsPainted
    <3>1. CASE shown'.selected = Nil
      <4>1. popup' = NoPopup
        BY <2>1, <3>1 DEF Popup
      <4> QED BY <4>1 DEF NoPopup
    <3>2. CASE shown'.selected # Nil
      <4>1. popup' = [dialog |-> "confirm", action |-> confirmAction',
                      index |-> confirmActionIndex', pod |-> shown'.selected]
        BY <2>1, <3>2 DEF Popup
      <4> QED BY <4>1
    <3> QED BY <3>1, <3>2
  <2> QED BY <2>2, <2>4, <2>5 DEF Same
<1> QED BY <1>1, <1>2, <1>3 DEF ViewScreen

-----------------------------------------------------------------------------
(* The theorems *)

LEMMA ActionsStart ==
  ASSUME Init
  PROVE  ActionsInv
<1>1. ListBasics /\ doing.op = "idle"
  <2>1. ListInit
    BY DEF Init
  <2> QED BY <2>1, ListStart DEF ListInv, ListInit, Idle
<1>2. /\ actionMenuOpen = FALSE /\ confirmActionOpen = FALSE /\ containerMenuOpen = FALSE
      /\ actionMenuIndex = 0 /\ confirmActionIndex = 0 /\ containerMenuIndex = 0
      /\ confirmAction = "none" /\ pendingAction = "none"
      /\ viewer = NoViewer /\ commands = <<>> /\ replicas = Replicas
      /\ asked = [start |-> replicas, downs |-> 0, ups |-> 0, commands |-> 0]
  BY DEF Init
<1>3. NoViewer \in Shape /\ NoViewer.open = FALSE
  <2>1. Nil \in Titles
    BY DEF Titles
  <2>2. FALSE \in BOOLEAN
    BY Zenon
  <2>3. NoViewer \in Shape
    BY <2>1, <2>2, Zenon DEF NoViewer, Shape
  <2> QED BY <2>3 DEF NoViewer
<1>4. actionMenuOpen \in BOOLEAN /\ confirmActionOpen \in BOOLEAN /\ containerMenuOpen \in BOOLEAN
  BY <1>2, Zenon
<1>5. DialogTypes /\ DialogsAreApart
  BY <1>1, <1>2, <1>3, <1>4 DEF DialogTypes, DialogsAreApart
<1>6. Replicas \in Nat
  BY BoundsAreNat
<1>7. CommandTypes
  BY <1>2, <1>6 DEF CommandTypes
<1>8. ScalesInRange
  <2>1. \A a : Running(commands, a) = 0
    <3>1. \A a : Of(commands, a) = {}
      BY <1>2 DEF Of
    <3> QED BY <3>1, FS_EmptySet DEF Running
  <2>2. Floor = Replicas /\ Ceiling = Replicas
    BY <1>2, <1>6, <2>1 DEF Floor, Ceiling
  <2>3. DOMAIN commands = {}
    BY <1>2
  <2> QED BY <1>2, <1>6, <2>2, <2>3 DEF ScalesInRange
<1>9. ViewerWaits /\ ConfirmIsPainted
  BY <1>2, <1>3 DEF ViewerWaits, ConfirmIsPainted
<1> QED BY <1>1, <1>5, <1>7, <1>8, <1>9 DEF ActionsInv, Dialogs, Commands

LEMMA ActionsStutter ==
  ASSUME ActionsInv, UNCHANGED vars
  PROVE  ActionsInv'
<1>1. /\ UNCHANGED <<listVars, dialogVars, commandVars, popup>>
      /\ UNCHANGED <<viewer, commands, confirmVars>>
  BY DEF vars, dialogVars, commandVars
<1>2. UNCHANGED <<live, order, paused, viewVars, selected, pinned, page, doing, shown>>
  BY <1>1 DEF listVars
<1>3. ListBasics' /\ Dialogs' /\ Commands' /\ ViewerWaits'
  BY <1>1, <1>2, ListStands, DialogsStand, CommandsStand, ViewerStands DEF ActionsInv
<1>4. ConfirmIsPainted'
  BY <1>1, <1>2 DEF ActionsInv, ConfirmIsPainted, confirmVars
<1> QED BY <1>3, <1>4 DEF ActionsInv

LEMMA ActionsStep ==
  ASSUME ActionsInv, [Next]_vars
  PROVE  ActionsInv'
<1>1. Same
  BY DEF ActionsInv, Same, Apart
<1>2. ASSUME doing' = ViewDue PROVE ConfirmIsPainted'
  BY <1>2 DEF ConfirmIsPainted, ViewDue, Idle
<1>3. CASE EnterKey \/ ContainerMenuKey \/ ConfirmActionKey \/ CloseViewer \/ ResolvePodAction
  BY <1>1, <1>2, <1>3, EnterStep, ContainerStep, ConfirmStep, CloseViewerStep, ResolveStep
     DEF ActionsInv, Same, Apart
<1>4. CASE ActionMenuKey
  <2>1. Same' /\ doing' # Idle
    BY <1>1, <1>4, MenuStep
  <2> QED BY <2>1 DEF ActionsInv, Same, Apart, ConfirmIsPainted
<1>5. ASSUME NEW i \in 1..MaxCommands, OutputMsg(i) \/ CommandEnds(i) \/ ScaleLookup(i) \/ ScaleWorkload(i)
      PROVE  ActionsInv'
  <2>1. CASE OutputMsg(i)
    BY <1>1, <1>2, <2>1, OutputStep DEF ActionsInv, Same, Apart
  <2>2. CASE CommandEnds(i) \/ ScaleLookup(i) \/ ScaleWorkload(i)
    <3>1. Same' /\ UNCHANGED <<dialogVars, popup, doing, selected>>
      BY <1>1, <2>2, EndStep
    <3>2. ConfirmIsPainted'
      BY <3>1 DEF ActionsInv, ConfirmIsPainted, dialogVars, confirmVars
    <3> QED BY <3>1, <3>2 DEF ActionsInv, Same, Apart
  <2> QED BY <1>5, <2>1, <2>2
<1>6. CASE ListSteps
  <2>1. /\ Same' /\ UNCHANGED <<dialogVars, commandVars, popup>>
        /\ ~confirmActionOpen \/ doing' = ViewDue \/ UNCHANGED doing
    BY <1>1, <1>6, ListStep
  <2>2. ConfirmIsPainted'
    BY <1>2, <2>1 DEF ActionsInv, ConfirmIsPainted, dialogVars, confirmVars
  <2> QED BY <2>1, <2>2 DEF ActionsInv, Same, Apart
<1>7. CASE ViewScreen
  BY <1>1, <1>7, PaintStep DEF ActionsInv, Same, Apart
<1>8. CASE UNCHANGED vars
  BY <1>8, ActionsStutter
<1> QED BY <1>3, <1>4, <1>5, <1>6, <1>7, <1>8 DEF Next, DialogKeys, CommandSteps

LEMMA ActionsAlways == Spec => []ActionsInv
<1>1. Init => ActionsInv
  BY ActionsStart
<1>2. ActionsInv /\ [Next]_vars => ActionsInv'
  BY ActionsStep
<1> QED BY <1>1, <1>2, PTL DEF Spec

(* Every variable of the dialogs and of the commands has its type          *)
(* (PodsUIModel).                                                          *)
THEOREM ActionsTypes == Spec => []ActionsTypeOK
<1>1. ASSUME ActionsInv PROVE ActionsTypeOK
  <2>1. viewer.open \in BOOLEAN /\ viewer.loading \in BOOLEAN
    BY <1>1, Zenon DEF ActionsInv, Dialogs, DialogTypes, Shape
  <2>2. {actionMenuOpen, confirmActionOpen, containerMenuOpen, viewer.open, viewer.loading} \subseteq BOOLEAN
    BY <1>1, <2>1, Zenon DEF ActionsInv, Dialogs, DialogTypes
  <2>3. \A i \in DOMAIN commands : commands[i] \in Command
    BY <1>1 DEF ActionsInv, Commands, CommandTypes
  <2> QED BY <1>1, <2>2, <2>3 DEF ActionsInv, Dialogs, DialogTypes, Commands, CommandTypes, Command, ActionsTypeOK
<1> QED BY <1>1, ActionsAlways, PTL

(* At most one dialog is open, whatever pods left while it was             *)
(* (openActionMenu, resolvePodAction, closeMenus).                         *)
THEOREM OneDialogAlways == Spec => []OneDialogAtATime
<1>1. ASSUME ActionsInv PROVE OneDialogAtATime
  <2> DEFINE open == {dialog \in {"menu", "container", "confirm", "viewer"} :
                        \/ dialog = "menu" /\ actionMenuOpen
                        \/ dialog = "container" /\ containerMenuOpen
                        \/ dialog = "confirm" /\ confirmActionOpen
                        \/ dialog = "viewer" /\ viewer.open}
  <2>1. \A d, e \in open : d = e
    BY <1>1 DEF ActionsInv, Dialogs, DialogsAreApart
  <2> HIDE DEF open
  <2>2. open = {} \/ \E d : open = {d}
    BY <2>1
  <2>3. Cardinality(open) \in {0, 1}
    BY <2>2, FS_EmptySet, FS_Singleton
  <2> QED BY <2>3 DEF open, OneDialogAtATime
<1> QED BY <1>1, ActionsAlways, PTL

(* The viewer waits only for a command that runs and will answer, and      *)
(* shows an output under its own title (handleActionOutput).               *)
THEOREM ViewerAlwaysShowsItsOutput == Spec => []ViewerShowsItsOutput
<1>1. ASSUME ActionsInv PROVE ViewerShowsItsOutput
  BY <1>1 DEF ActionsInv, ViewerWaits, ViewerShowsItsOutput
<1> QED BY <1>1, ActionsAlways, PTL

(* Scale commands that overlap never take the replicas out of the range    *)
(* that the confirmed ones span (scaleWorkloadCmd).                        *)
THEOREM ScalesStayConfirmed == Spec => []NoScaleBeyondConfirmed
<1>1. ASSUME ActionsInv PROVE NoScaleBeyondConfirmed
  <2>1. /\ asked.start \in Nat /\ asked.ups \in Nat /\ asked.downs \in Nat /\ replicas \in Nat
        /\ commands \in Seq(Command) /\ Floor <= replicas /\ replicas <= Ceiling
    BY <1>1 DEF ActionsInv, Commands, CommandTypes, ScalesInRange
  <2> DEFINE ups == Running(commands, "scale_up")
             downs == Running(commands, "scale_down")
  <2>2. ups \in Nat /\ downs \in Nat
    BY <2>1, OfIsFinite
  <2>3. Ceiling = (asked.start + asked.ups) - ups /\ Floor = asked.start - asked.downs + downs
    BY DEF Ceiling, Floor
  <2> HIDE DEF ups, downs
  <2> QED BY <2>1, <2>2, <2>3 DEF NoScaleBeyondConfirmed
<1> QED BY <1>1, ActionsAlways, PTL

(* Under the dialogs, too, paging shows every pod and the selection is on  *)
(* the page that is painted.                                               *)
THEOREM ListHoldsUnderDialogs == Spec => [](PagesShowEveryPod /\ ColumnsFit /\ SelectionIsOnPage)
<1>1. ASSUME ActionsInv PROVE PagesShowEveryPod /\ ColumnsFit /\ SelectionIsOnPage
  BY <1>1, BasicFacts, PagesAreWhole DEF ActionsInv, ListBasics
<1> QED BY <1>1, ActionsAlways, PTL

-----------------------------------------------------------------------------
(* Dangerous actions *)

LEMMA StartedIs ==
  ASSUME CommandTypes, NEW action \in Actions, NEW p \in Pod, StartPodAction(action, p)
  PROVE  \A c \in Started : c.action = action
<1> DEFINE new == [action |-> action, pod |-> p, read |-> Nil]
<1>1. commands \in Seq(Command) /\ commands' = Append(commands, new) /\ new.action = action
  BY DEF CommandTypes, StartPodAction
<1> HIDE DEF new
<1>2. Len(commands') = Len(commands) + 1 /\ commands'[Len(commands')] = new
  BY <1>1
<1>3. Last(commands') = new
  BY <1>2 DEF Last
<1> QED BY <1>1, <1>3 DEF Started

LEMMA SameInterval ==
  ASSUME NEW m \in Nat, NEW n \in Nat, 1..m = 1..n
  PROVE  m = n
<1>1. CASE m < n
  <2>1. n \in 1..n /\ n \notin 1..m
    BY <1>1
  <2> QED BY <2>1
<1>2. CASE n < m
  <2>1. m \in 1..m /\ m \notin 1..n
    BY <1>2
  <2> QED BY <2>1
<1> QED BY <1>1, <1>2

LEMMA NoneStarted ==
  ASSUME CommandTypes,
         \/ UNCHANGED commands
         \/ DOMAIN commands' = DOMAIN commands /\ CommandTypes'
         \/ \E i \in DOMAIN commands : commands' = RemoveAt(commands, i)
  PROVE  Started = {}
<1>1. commands \in Seq(Command)
  BY DEF CommandTypes
<1>2. CASE UNCHANGED commands
  BY <1>1, <1>2 DEF Started
<1>3. CASE DOMAIN commands' = DOMAIN commands /\ CommandTypes'
  <2>1. /\ commands' \in Seq(Command) /\ DOMAIN commands' = 1..Len(commands')
        /\ DOMAIN commands = 1..Len(commands) /\ Len(commands) \in Nat /\ Len(commands') \in Nat
    BY <1>1, <1>3 DEF CommandTypes
  <2>2. Len(commands') = Len(commands)
    BY <1>3, <2>1, SameInterval
  <2> QED BY <2>1, <2>2 DEF Started
<1>4. ASSUME NEW i \in DOMAIN commands, commands' = RemoveAt(commands, i)
      PROVE  Started = {}
  <2> DEFINE rest == RemoveAt(commands, i)
  <2>1. /\ rest \in Seq(Command) /\ DOMAIN rest = 1..(Len(commands) - 1)
        /\ i \in 1..Len(commands) /\ Len(commands) \in Nat
    BY <1>1, Removed
  <2> HIDE DEF rest
  <2>2. Len(rest) = Len(commands) - 1
    <3>1. Len(commands) - 1 \in Nat
      BY <2>1
    <3>2. DOMAIN rest = 1..Len(rest) /\ Len(rest) \in Nat
      BY <2>1
    <3> QED BY <2>1, <3>1, <3>2, SameInterval
  <2> QED BY <1>4, <2>1, <2>2 DEF Started, rest
<1> QED BY <1>2, <1>3, <1>4

AsConfirmed ==
  \A c \in Started : c.action \in DangerousActions /\ popup.pod # Nil =>
    popup.dialog = "confirm" /\ popup.action = c.action /\ popup.index = 0

(* If the list that was painted last had a pod, a pod is killed or scaled  *)
(* only after a popup that asked to confirm that action, with the focus on *)
(* Confirm (View, writeFooter, handleConfirmActionKey).                    *)
THEOREM DangerousAlwaysAsConfirmed == Spec => DangerousAsConfirmed
<1>1. ASSUME ActionsInv, [Next]_vars PROVE [AsConfirmed]_vars
  <2>1. Same /\ CommandTypes
    BY <1>1 DEF ActionsInv, Same, Apart, Commands
  <2>2. ASSUME Started = {} PROVE AsConfirmed
    BY <2>2 DEF AsConfirmed
  <2>3. ASSUME NEW action \in Inspect, NEW p \in Pod, StartPodAction(action, p)
        PROVE  AsConfirmed
    <3>1. action \in Actions /\ action \notin DangerousActions
      BY DEF Actions, Inspect, DangerousActions, ScaleActions
    <3> QED BY <2>1, <2>3, <3>1, StartedIs DEF AsConfirmed
  <2>4. CASE EnterKey \/ CloseViewer \/ ListSteps
    <3>1. UNCHANGED commands
      BY <2>4 DEF EnterKey, CloseViewer, ListSteps, commandVars
    <3> QED BY <2>1, <2>2, <3>1, NoneStarted
  <2>5. CASE ActionMenuKey
    BY <2>1, <2>2, <2>5, MenuStep, NoneStarted
  <2>6. CASE ViewScreen
    BY <2>1, <2>2, <2>6, PaintStep, NoneStarted
  <2>7. CASE ResolvePodAction
    <3> DEFINE s == Build(paused)
               action == doing.arg
    <3>1. UNCHANGED commands \/ (action \in Inspect /\ s.selected # Nil /\ StartPodAction(action, s.selected))
      BY <2>7 DEF ResolvePodAction, NothingSelected, PickContainer, AskToConfirm, commandVars
    <3>2. s.selected # Nil => s.selected \in Pod
      BY <2>1, SelectedIsPod DEF Same
    <3> HIDE DEF s, action
    <3> QED BY <2>1, <2>2, <2>3, <3>1, <3>2, NoneStarted
  <2>8. CASE ContainerMenuKey
    <3> DEFINE s == Build(TRUE)
    <3>1. UNCHANGED commands \/ (s.selected # Nil /\ StartPodAction(pendingAction, s.selected))
      BY <2>8 DEF ContainerMenuKey, NothingSelected, commandVars
    <3>2. s.selected # Nil => s.selected \in Pod
      BY <2>1, SelectedIsPod DEF Same
    <3>3. pendingAction \in Inspect
      <4>1. containerMenuOpen
        BY <2>8 DEF ContainerMenuKey, DialogKey, Dialog
      <4> QED BY <2>1, <4>1 DEF Same, Apart, Dialogs, DialogTypes, DialogsAreApart, Inspect
    <3> HIDE DEF s
    <3> QED BY <2>1, <2>2, <2>3, <3>1, <3>2, <3>3, NoneStarted
  <2>9. CASE ConfirmActionKey
    <3> DEFINE s == Build(TRUE)
    <3>1. confirmActionOpen /\ doing = Idle
      BY <2>9 DEF ConfirmActionKey, DialogKey, Dialog, Key
    <3>2. UNCHANGED commands \/ (s.selected # Nil /\ Confirm(s))
      BY <2>9 DEF ConfirmActionKey, NothingSelected, CancelAction, OpenActionMenu, FocusButton, commandVars
    <3>3. s.selected # Nil => s.selected \in Pod
      BY <2>1, SelectedIsPod DEF Same
    <3> HIDE DEF s
    <3>4. ASSUME s.selected # Nil, Confirm(s)
          PROVE  AsConfirmed
      <4>1. confirmAction \in Actions
        BY <2>1, <3>1 DEF Same, Apart, Dialogs, DialogTypes, DialogsAreApart, Actions
      <4>2. \A c \in Started : c.action = confirmAction
        BY <2>1, <3>3, <3>4, <4>1, StartedIs DEF Confirm
      <4>3. confirmActionIndex = 0
        BY <3>4 DEF Confirm
      <4> QED BY <1>1, <3>1, <4>2, <4>3 DEF ActionsInv, ConfirmIsPainted, AsConfirmed
    <3> QED BY <2>1, <2>2, <3>2, <3>4, NoneStarted
  <2>10. ASSUME NEW i, OutputMsg(i) \/ CommandEnds(i) \/ ScaleLookup(i) \/ ScaleWorkload(i)
         PROVE  AsConfirmed
    <3>1. CASE ScaleLookup(i)
      <4>1. Commands' /\ DOMAIN commands' = DOMAIN commands
        BY <2>1, <3>1, LookupKeepsCommands DEF Same, Apart
      <4> QED BY <2>1, <2>2, <4>1, NoneStarted DEF Commands
    <3>2. CASE OutputMsg(i) \/ CommandEnds(i) \/ ScaleWorkload(i)
      <4>1. i \in DOMAIN commands /\ commands' = RemoveAt(commands, i)
        BY <3>2 DEF OutputMsg, CommandEnds, ScaleWorkload, Runs
      <4> QED BY <2>1, <2>2, <4>1, NoneStarted
    <3> QED BY <2>10, <3>1, <3>2
  <2>11. CASE UNCHANGED vars
    BY <2>11
  <2> QED BY <1>1, <2>4, <2>5, <2>6, <2>7, <2>8, <2>9, <2>10, <2>11 DEF Next, DialogKeys, CommandSteps
<1>2. [AsConfirmed]_vars <=> [\A c \in Started : c.action \in DangerousActions /\ popup.pod # Nil =>
       popup.dialog = "confirm" /\ popup.action = c.action /\ popup.index = 0]_vars
  BY DEF AsConfirmed
<1> QED BY <1>1, <1>2, ActionsAlways, PTL DEF Spec, DangerousAsConfirmed

=============================================================================
