----------------------------- MODULE GroupSave -----------------------------
(***************************************************************************)
(* update_group (routers/groups.py) as the code does it: not one step, but *)
(* a loop over the wanted children, and for each of them the stack walk of *)
(* reachable_group_ids over the edges the transaction sees.  The DELETE    *)
(* that begins it takes SQLite's write lock, so the other routes wait for  *)
(* its commit; what they do then, and the pure reads, is in Groups.        *)
(***************************************************************************)
EXTENDS Groups, Sequences

VARIABLES
  pc,       \* "idle", "saving" (in the loop) or "walking" (in would_create_cycle)
  parent,   \* the group whose form is saved
  form,     \* the hosts and the children the form names
  todo,     \* children the loop has not come to
  draft,    \* host_group_children as the transaction sees it
  child,    \* the child that is checked
  stack,    \* of the walk
  seen      \* by the walk

loop == <<pc, parent, form, todo, draft, child, stack, seen>>

Forms == [hosts : SUBSET Hosts, children : SUBSET GroupIds]

Elems(s) == {s[i] : i \in DOMAIN s}

(* The orders in which a set of Python may be iterated. *)
Orders(S) ==
  {s \in [1..Cardinality(S) -> S] : \A x \in S : \E i \in 1..Cardinality(S) : s[i] = x}

NoForm == [hosts |-> {}, children |-> {}]

SaveInit ==
  /\ Init
  /\ pc = "idle" /\ parent = 1 /\ form = NoForm /\ todo = {} /\ draft = {}
  /\ child = 1 /\ stack = <<>> /\ seen = {}

(* The end of the route, and of its locals. *)
Leave ==
  /\ pc' = "idle" /\ parent' = 1 /\ form' = NoForm /\ todo' = {} /\ draft' = {}
  /\ UNCHANGED <<child, stack, seen>>

(* Mutant: the old edges of the group are still there. *)
OldEdgesToo(g) == edges

EdgesOfOthers(g) == {e \in edges : e[1] # g}

(* The group is there, the old rows are deleted. *)
Begin(g, hosts, children) ==
  /\ pc = "idle" /\ g \in groups
  /\ pc' = "saving"
  /\ parent' = g
  /\ form' = [hosts |-> hosts, children |-> children]
  /\ todo' = children
  /\ draft' = EdgesOfOthers(g)
  /\ UNCHANGED <<vars, child, stack, seen>>

(* Foreign keys are checked when the session flushes: before the next      *)
(* query, or at the commit.                                                *)
RowsExist == draft \subseteq groups \X groups

SkipItself ==
  /\ pc = "saving" /\ parent \in todo
  /\ todo' = todo \ {parent}
  /\ UNCHANGED <<vars, pc, parent, form, draft, child, stack, seen>>

Check(c) ==
  /\ pc = "saving" /\ RowsExist /\ c \in todo \ {parent}
  /\ pc' = "walking"
  /\ todo' = todo \ {c}
  /\ child' = c
  /\ stack' = <<c>>
  /\ seen' = {}
  /\ UNCHANGED <<vars, parent, form, draft>>

Top == stack[Len(stack)]
Rest == SubSeq(stack, 1, Len(stack) - 1)

(* Mutant: one level only. *)
OnlyTheFirst(gid) == IF gid = child THEN {c \in GroupIds : <<gid, c>> \in draft} ELSE {}

(* edges.get(gid, set()) - seen, the group itself being seen by now *)
Unseen(gid) == {c \in GroupIds : <<gid, c>> \in draft} \ (seen \cup {gid})

(* One turn of reachable_group_ids. *)
Pop ==
  /\ pc = "walking" /\ stack # <<>>
  /\ \/ Top \in seen /\ stack' = Rest /\ UNCHANGED seen
     \/ /\ Top \notin seen
        /\ seen' = seen \cup {Top}
        /\ \E more \in Orders(Unseen(Top)) : stack' = Rest \o more
  /\ UNCHANGED <<vars, pc, parent, form, todo, draft, child>>

(* Back in the loop with what was seen. *)
Decide ==
  /\ pc = "walking" /\ stack = <<>>
  /\ pc' = "saving"
  /\ draft' = IF parent \in seen THEN draft ELSE draft \cup {<<parent, child>>}
  /\ child' = 1 /\ seen' = {}
  /\ UNCHANGED <<vars, parent, form, todo, stack>>

Commit ==
  /\ pc = "saving" /\ todo = {} /\ RowsExist
  /\ edges' = draft
  /\ members' = {m \in members : m[1] # parent} \cup {<<parent, h>> : h \in form.hosts}
  /\ Leave
  /\ UNCHANGED <<groups, configured>>

(* A host or a child of the form is gone, or anything else raises. *)
RollBack ==
  /\ pc = "saving"
  /\ Leave
  /\ UNCHANGED vars

OtherRoute ==
  /\ pc = "idle"
  /\ \/ \E g \in GroupIds : AddGroup(g) \/ DeleteGroup(g) \/ SaveGroupConfig(g)
     \/ \E h \in Hosts : DeleteHost(h)
  /\ UNCHANGED loop

LoopStep == SkipItself \/ (\E c \in GroupIds : Check(c)) \/ Pop \/ Decide \/ Commit

SaveNext ==
  \/ \E g \in GroupIds, hosts \in SUBSET Hosts, children \in SUBSET GroupIds :
       Begin(g, hosts, children)
  \/ LoopStep \/ RollBack \/ OtherRoute

SaveSpec == SaveInit /\ [][SaveNext]_<<vars, loop>>

-----------------------------------------------------------------------------
LoopTypeOK ==
  /\ pc \in {"idle", "saving", "walking"}
  /\ parent \in GroupIds /\ child \in GroupIds
  /\ form \in Forms
  /\ todo \subseteq GroupIds /\ seen \subseteq GroupIds
  /\ draft \subseteq GroupIds \X GroupIds
  /\ stack \in Seq(GroupIds)

(* The stack walk has seen what can be reached from the child (groups.py:  *)
(* 28-36), whatever order the sets are iterated in, by the edges with the  *)
(* children before it added.                                               *)
WalkFindsReachable ==
  pc = "walking" /\ stack = <<>> => seen = Reachable({child}, draft)

(* What the rows may do: while a form is saved, what the one step of Groups*)
(* does with that group and that form.                                     *)
RouteStep == IF pc = "idle" THEN Next ELSE UpdateGroup(parent, form.hosts, form.children)

(* Saving a form by its loops does to the rows what the one step of Groups *)
(* does with the same form, or nothing: the order in which the loop meets  *)
(* the children, and the edges it has added before, do not matter (routers/*)
(* groups.py:110-120).                                                     *)
ImplementsRoutes == Init /\ [][RouteStep]_vars
=============================================================================
