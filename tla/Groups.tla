------------------------------- MODULE Groups -------------------------------
(***************************************************************************)
(* Host groups (groups.py, routers/groups.py): groups contain hosts and    *)
(* other groups.  The same graph is read in two directions: a run on a     *)
(* group reaches the hosts of all its subgroups, and a host takes its      *)
(* plugin configuration from all the groups above it, the most specific    *)
(* one last.  Every route runs in one transaction whose first statement    *)
(* that matters is a DELETE or an INSERT, so it holds SQLite's write lock  *)
(* from its first look at the edges to its commit: a route is one step.    *)
(***************************************************************************)
EXTENDS Integers, FiniteSets

CONSTANTS
  MaxGroups,  \* bound: the largest group id
  Hosts       \* the registered servers

ASSUME GroupsAssumption == MaxGroups \in Nat \ {0}

VARIABLES
  groups,      \* ids of the host_groups rows
  edges,       \* host_group_children: <<parent, child>>
  members,     \* host_group_members: <<group, host>>
  configured   \* groups with a plugin_configs row that sets the variable

vars == <<groups, edges, members, configured>>

GroupIds == 1..MaxGroups

Init ==
  /\ groups = {}
  /\ edges = {}
  /\ members = {}
  /\ configured = {}

-----------------------------------------------------------------------------
(* The graph. *)

Closed(S, E) == \A e \in E : e[1] \in S => e[2] \in S

(* reachable_group_ids: the least set that holds gs and the children of    *)
(* its members (the code computes it with a stack; see GroupSave).         *)
Reachable(gs, E) ==
  {g \in GroupIds : \A S \in SUBSET GroupIds : gs \subseteq S /\ Closed(S, E) => g \in S}

Reversed(E) == {<<e[2], e[1]>> : e \in E}

Parents(g, E) == {p \in GroupIds : <<p, g>> \in E}

DirectParents(g, E) == Parents(g, E)

(* ancestor_group_ids: walk up from the parents. *)
Ancestors(g, E) == Reachable(Parents(g, E), Reversed(E))

(* would_create_cycle *)
WouldCreateCycle(parent, child, E) == child = parent \/ parent \in Reachable({child}, E)

(* expand_group_hosts *)
ExpandHosts(gs) == {h \in Hosts : \E g \in Reachable(gs, edges) : <<g, h>> \in members}

(* effective_group_ids_for_host: the groups of a host and those above ... *)
Direct(h) == {g \in GroupIds : <<g, h>> \in members}
Effective(h) == Direct(h) \cup UNION {Ancestors(g, edges) : g \in Direct(h)}

BeforeById(a, b, E) == a < b

(* ... and the order in which they overlay: fewer ancestors first, then id *)
Before(a, b, E) ==
  LET depth(g) == Cardinality(Ancestors(g, E))
  IN  depth(a) < depth(b) \/ (depth(a) = depth(b) /\ a < b)

(* resolve_config: the last overlay that sets the variable. *)
Candidates(h) == Effective(h) \cap configured
Winner(h) == {g \in Candidates(h) : \A o \in Candidates(h) \ {g} : Before(o, g, edges)}

-----------------------------------------------------------------------------
(* The routes. *)

(* SQLite gives the id above the largest one in the table, so the id of a  *)
(* deleted group can come back.                                            *)
AddGroup(g) ==
  /\ \A o \in groups : o < g
  /\ g = 1 \/ g - 1 \in groups
  /\ groups' = groups \cup {g}
  /\ UNCHANGED <<edges, members, configured>>

(* The children that survive the cycle check.  The code checks each one    *)
(* against the edges with the ones before it added; an edge out of parent  *)
(* never opens a new way back to parent, so the order does not matter      *)
(* (GroupSave has the loop).                                               *)
NewChildren(parent, wanted, E) ==
  {c \in wanted : ~WouldCreateCycle(parent, c, E)}

(* Save the edit form of a group: members and children are replaced.  A    *)
(* wanted row that is gone violates a foreign key and rolls everything     *)
(* back.                                                                   *)
UpdateGroup(g, hosts, wanted) ==
  LET base == {e \in edges : e[1] # g}
  IN  /\ g \in groups
      /\ wanted \subseteq groups
      /\ members' = {m \in members : m[1] # g} \cup {<<g, h>> : h \in hosts}
      /\ edges' = base \cup {<<g, c>> : c \in NewChildren(g, wanted, base)}
      /\ UNCHANGED <<groups, configured>>

EdgesOf(g) == {e \in edges : e[1] = g \/ e[2] = g}

(* Membership and edges go with the group; its plugin_configs rows, which  *)
(* no foreign key ties to it, stay.                                        *)
DeleteGroup(g) ==
  /\ g \in groups
  /\ groups' = groups \ {g}
  /\ members' = {m \in members : m[1] # g}
  /\ edges' = edges \ EdgesOf(g)
  /\ configured' = configured

(* The ON DELETE CASCADE of host_group_members. *)
DeleteHost(h) ==
  /\ members' = {m \in members : m[2] # h}
  /\ UNCHANGED <<groups, edges, configured>>

(* Save a group's sparse overlay: the variable is set or left to inherit.  *)
(* Nothing checks that the group still exists.                             *)
SaveGroupConfig(g) ==
  /\ \/ configured' = configured \cup {g}
     \/ configured' = configured \ {g}
  /\ UNCHANGED <<groups, edges, members>>

Next ==
  \/ \E g \in GroupIds : AddGroup(g)
  \/ \E g \in GroupIds, hosts \in SUBSET Hosts, wanted \in SUBSET GroupIds :
       UpdateGroup(g, hosts, wanted)
  \/ \E g \in GroupIds : DeleteGroup(g)
  \/ \E h \in Hosts : DeleteHost(h)
  \/ \E g \in GroupIds : SaveGroupConfig(g)

Spec == Init /\ [][Next]_vars
-----------------------------------------------------------------------------
TypeOK ==
  /\ groups \subseteq GroupIds
  /\ edges \subseteq groups \X groups
  /\ members \subseteq groups \X Hosts
  /\ configured \subseteq GroupIds

(* "The graph is a DAG" (groups.py:4): however the forms of different      *)
(* groups are saved, every set of groups has one with no child in the set. *)
Acyclic(E) ==
  \A S \in (SUBSET GroupIds) \ {{}} : \E g \in S : \A c \in S : <<g, c>> \notin E

GraphIsAcyclic == Acyclic(edges)

(* "A more specific (child) group wins over its parents" (groups.py:87):   *)
(* the group whose overlay a host takes is above no other group that sets  *)
(* the variable for that host.                                             *)
SpecificGroupWins ==
  \A h \in Hosts : \A g \in Winner(h) : \A o \in Candidates(h) :
    g \notin Ancestors(o, edges)

(* A run on a group reaches exactly the hosts whose configuration the      *)
(* group takes part in: the walk down of expand_group_hosts and the walk   *)
(* up of effective_group_ids_for_host agree.                               *)
TargetsMatchOverlays ==
  \A g \in GroupIds, h \in Hosts : h \in ExpandHosts({g}) <=> g \in Effective(h)
=============================================================================
