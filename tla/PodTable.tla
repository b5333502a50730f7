------------------------------ MODULE PodTable ------------------------------
(***************************************************************************)
(* What the store promises the list: a table with the content of each pod. *)
(* It is seeded before the pod watch is followed.  From then on each event *)
(* of the watch takes effect in one step, before the next event is heard;  *)
(* apart from that, pods leave only with their node, all of them at once.  *)
(***************************************************************************)
CONSTANTS Key, Node, Content, Nil

VARIABLES
  following, \* whether the pod watch was started
  told,      \* what it said last of each pod, Nil when the pod is gone or ended
  table      \* the content shown of each pod, Nil when there is none

tableVars == <<following, told, table>>

TableInit ==
  /\ following = FALSE
  /\ told = [k \in Key |-> Nil]
  /\ table = [k \in Key |-> Nil]

Seed(k, c) ==
  /\ ~following
  /\ table' = [table EXCEPT ![k] = c]
  /\ UNCHANGED <<following, told>>

Follow ==
  /\ following' = TRUE
  /\ UNCHANGED <<told, table>>

(* A pod that was seeded and that the watch never names may stay. *)
Settled == \A k \in Key : told[k] # Nil => table[k] \in {told[k], Nil}

Hear(k, c) ==
  /\ following /\ Settled
  /\ told' = [told EXCEPT ![k] = c]
  /\ UNCHANGED <<following, table>>

Apply(k) ==
  /\ following
  /\ table' = [table EXCEPT ![k] = told[k]]
  /\ UNCHANGED <<following, told>>

DropNode(n) ==
  /\ table' = [k \in Key |-> IF table[k] # Nil /\ table[k].node = n THEN Nil ELSE table[k]]
  /\ UNCHANGED <<following, told>>

TableNext ==
  \/ \E k \in Key, c \in Content : Seed(k, c)
  \/ Follow
  \/ \E k \in Key : Apply(k) \/ \E c \in Content \cup {Nil} : Hear(k, c)
  \/ \E n \in Node : DropNode(n)

TableSpec == TableInit /\ [][TableNext]_tableVars
=============================================================================
