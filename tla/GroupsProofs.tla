---------------------------- MODULE GroupsProofs ----------------------------
(***************************************************************************)
(* The group graph for any number of groups and hosts: it stays acyclic,   *)
(* the overlay order puts every group after the groups above it, and the   *)
(* walks down and up agree.                                                *)
(***************************************************************************)
EXTENDS GroupSave, FiniteSetTheorems, SequenceTheorems, TLAPS

USE GroupsAssumption

-----------------------------------------------------------------------------
(* Reachable is the least closed set around gs. *)

LEMMA ReachableContains ==
  ASSUME NEW gs \in SUBSET GroupIds, NEW E
  PROVE  gs \subseteq Reachable(gs, E) /\ Reachable(gs, E) \subseteq GroupIds
BY DEF Reachable

LEMMA ReachableClosed ==
  ASSUME NEW gs \in SUBSET GroupIds, NEW E, NEW a \in Reachable(gs, E),
         NEW b \in GroupIds, <<a, b>> \in E
  PROVE  b \in Reachable(gs, E)
<1> SUFFICES ASSUME NEW S \in SUBSET GroupIds, gs \subseteq S, Closed(S, E)
             PROVE  b \in S
  BY DEF Reachable
<1>1. a \in S
  BY DEF Reachable
<1>2. <<a, b>>[1] = a /\ <<a, b>>[2] = b
  OBVIOUS
<1> QED
  BY <1>1, <1>2 DEF Closed

(* Every set around gs that E does not leave holds what is reachable. *)
LEMMA ReachableLeast ==
  ASSUME NEW gs \in SUBSET GroupIds, NEW E \in SUBSET (GroupIds \X GroupIds),
         NEW S \in SUBSET GroupIds, gs \subseteq S,
         \A a \in S : \A b \in GroupIds : <<a, b>> \in E => b \in S
  PROVE  Reachable(gs, E) \subseteq S
<1>1. Closed(S, E)
  <2> SUFFICES ASSUME NEW e \in E, e[1] \in S
               PROVE  e[2] \in S
    BY DEF Closed
  <2>1. e = <<e[1], e[2]>> /\ e[2] \in GroupIds
    OBVIOUS
  <2> QED
    BY <2>1
<1> QED
  BY <1>1 DEF Reachable

LEMMA InverseEdge ==
  ASSUME NEW E \in SUBSET (GroupIds \X GroupIds)
  PROVE  /\ Reversed(E) \in SUBSET (GroupIds \X GroupIds)
         /\ \A a, b \in GroupIds : <<a, b>> \in Reversed(E) <=> <<b, a>> \in E
<1>1. Reversed(E) \in SUBSET (GroupIds \X GroupIds)
  BY DEF Reversed
<1>2. ASSUME NEW a \in GroupIds, NEW b \in GroupIds
      PROVE  <<a, b>> \in Reversed(E) <=> <<b, a>> \in E
  <2>1. ASSUME <<b, a>> \in E PROVE <<a, b>> \in Reversed(E)
    <3>1. <<b, a>>[1] = b /\ <<b, a>>[2] = a
      OBVIOUS
    <3> QED
      BY <2>1, <3>1 DEF Reversed
  <2>2. ASSUME <<a, b>> \in Reversed(E) PROVE <<b, a>> \in E
    <3>1. PICK e \in E : <<a, b>> = <<e[2], e[1]>>
      BY <2>2 DEF Reversed
    <3>2. e = <<e[1], e[2]>> /\ a = e[2] /\ b = e[1]
      BY <3>1
    <3> QED
      BY <3>2
  <2> QED
    BY <2>1, <2>2
<1> QED
  BY <1>1, <1>2

-----------------------------------------------------------------------------
(* The ancestors are the reverse of the descendants. *)

LEMMA AncestorsFacts ==
  ASSUME NEW E \in SUBSET (GroupIds \X GroupIds), NEW g \in GroupIds
  PROVE  /\ Ancestors(g, E) \subseteq GroupIds
         /\ Parents(g, E) \subseteq Ancestors(g, E)
         /\ \A a \in Ancestors(g, E) : Parents(a, E) \subseteq Ancestors(g, E)
         /\ \A S \in SUBSET GroupIds :
              Parents(g, E) \subseteq S /\ (\A a \in S : Parents(a, E) \subseteq S)
                => Ancestors(g, E) \subseteq S
<1>1. Parents(g, E) \in SUBSET GroupIds
  BY DEF Parents
<1>2. /\ Reversed(E) \in SUBSET (GroupIds \X GroupIds)
      /\ \A a, b \in GroupIds : <<a, b>> \in Reversed(E) <=> <<b, a>> \in E
  BY InverseEdge
<1>3. Ancestors(g, E) \subseteq GroupIds /\ Parents(g, E) \subseteq Ancestors(g, E)
  BY <1>1, ReachableContains DEF Ancestors
<1>4. ASSUME NEW a \in Ancestors(g, E), NEW p \in Parents(a, E)
      PROVE  p \in Ancestors(g, E)
  <2>1. a \in GroupIds /\ p \in GroupIds /\ <<a, p>> \in Reversed(E)
    BY <1>2, <1>3 DEF Parents
  <2> QED
    BY <2>1, <1>1, ReachableClosed DEF Ancestors
<1>5. ASSUME NEW S \in SUBSET GroupIds, Parents(g, E) \subseteq S,
             \A a \in S : Parents(a, E) \subseteq S
      PROVE  Ancestors(g, E) \subseteq S
  <2>1. \A a \in S : \A b \in GroupIds : <<a, b>> \in Reversed(E) => b \in S
    BY <1>2, <1>5 DEF Parents
  <2> QED
    BY <2>1, <1>1, <1>2, <1>5, ReachableLeast DEF Ancestors
<1> QED
  BY <1>3, <1>4, <1>5

LEMMA DownIsUp ==
  ASSUME NEW E \in SUBSET (GroupIds \X GroupIds),
         NEW g \in GroupIds, NEW d \in GroupIds
  PROVE  d \in Reachable({g}, E) <=> d = g \/ g \in Ancestors(d, E)
<1> DEFINE Below == {x \in GroupIds : x = g \/ g \in Ancestors(x, E)}
           Above == {x \in GroupIds : d \in Reachable({x}, E)}
<1>1. ASSUME d \in Reachable({g}, E)
      PROVE  d = g \/ g \in Ancestors(d, E)
  <2>1. {g} \subseteq Below
    OBVIOUS
  <2>2. ASSUME NEW a \in Below, NEW b \in GroupIds, <<a, b>> \in E
        PROVE  b \in Below
    <3>1. a \in Parents(b, E)
      BY <2>2 DEF Parents
    <3>2. a \in Ancestors(b, E)
      BY <3>1, AncestorsFacts
    <3>3. CASE a = g
      BY <3>2, <3>3
    <3>4. CASE g \in Ancestors(a, E)
      <4>1. Ancestors(a, E) \subseteq Ancestors(b, E)
        BY <3>2, AncestorsFacts
      <4> QED
        BY <4>1, <3>4
    <3> QED
      BY <2>2, <3>3, <3>4
  <2>3. Reachable({g}, E) \subseteq Below
    <3>1. {g} \in SUBSET GroupIds /\ Below \in SUBSET GroupIds
      OBVIOUS
    <3>2. \A a \in Below : \A b \in GroupIds : <<a, b>> \in E => b \in Below
      BY <2>2
    <3> HIDE DEF Below
    <3> QED
      BY <2>1, <3>1, <3>2, ReachableLeast
  <2> QED
    BY <1>1, <2>3
<1>2. d \in Reachable({d}, E)
  BY ReachableContains
<1>3. ASSUME g \in Ancestors(d, E)
      PROVE  d \in Reachable({g}, E)
  <2>1. ASSUME NEW a \in GroupIds, NEW b \in GroupIds, <<a, b>> \in E,
               d \in Reachable({b}, E)
        PROVE  d \in Reachable({a}, E)
    <3>1. b \in Reachable({a}, E)
      BY <2>1, ReachableContains, ReachableClosed
    <3>2. Reachable({b}, E) \subseteq Reachable({a}, E)
      BY <3>1, ReachableContains, ReachableClosed, ReachableLeast
    <3> QED
      BY <2>1, <3>2
  <2>2. Parents(d, E) \subseteq Above
    BY <1>2, <2>1 DEF Parents
  <2>3. \A a \in Above : Parents(a, E) \subseteq Above
    BY <2>1 DEF Parents
  <2>4. Ancestors(d, E) \subseteq Above
    BY <2>2, <2>3, AncestorsFacts
  <2> QED
    BY <1>3, <2>4
<1> QED
  BY <1>1, <1>2, <1>3

-----------------------------------------------------------------------------
(* Acyclicity.  The statement over sets of groups is inductive: a set in   *)
(* which everybody had a child would, after new edges out of g, contain    *)
(* one already among what the new children reach.                          *)

LEMMA NewEdgesKeepAcyclic ==
  ASSUME NEW E \in SUBSET (GroupIds \X GroupIds), Acyclic(E),
         NEW g \in GroupIds, \A c \in GroupIds : <<g, c>> \notin E,
         NEW C \in SUBSET GroupIds,
         \A c \in C : ~WouldCreateCycle(g, c, E)
  PROVE  Acyclic(E \cup {<<g, c>> : c \in C})
<1> DEFINE F == E \cup {<<g, c>> : c \in C}
<1>1. \A a, b \in GroupIds : <<a, b>> \in F <=> <<a, b>> \in E \/ (a = g /\ b \in C)
  OBVIOUS
<1> HIDE DEF F
<1> SUFFICES ASSUME NEW S \in (SUBSET GroupIds) \ {{}}
             PROVE  \E x \in S : \A y \in S : <<x, y>> \notin F
  BY DEF Acyclic, F
<1>2. CASE g \notin S \/ C \cap S = {}
  <2>1. PICK x \in S : \A y \in S : <<x, y>> \notin E
    BY DEF Acyclic
  <2> QED
    BY <1>1, <1>2, <2>1
<1>3. CASE g \in S /\ C \cap S # {}
  <2> DEFINE U == {y \in S : \E c \in C \cap S : y \in Reachable({c}, E)}
  <2>1. U \in (SUBSET GroupIds) \ {{}}
    <3>1. PICK c \in C \cap S : TRUE
      BY <1>3
    <3>2. c \in Reachable({c}, E)
      BY <3>1, ReachableContains
    <3>3. c \in U
      BY <3>1, <3>2
    <3> QED
      BY <3>3
  <2>2. PICK x \in U : \A y \in U : <<x, y>> \notin E
    BY <2>1 DEF Acyclic
  <2>3. x # g
    BY DEF WouldCreateCycle
  <2>4. ASSUME NEW y \in S, <<x, y>> \in E
        PROVE  FALSE
    <3>1. PICK c \in C \cap S : x \in Reachable({c}, E)
      OBVIOUS
    <3>2. y \in Reachable({c}, E)
      BY <2>4, <3>1, ReachableClosed
    <3> QED
      BY <2>2, <2>4, <3>1, <3>2
  <2> QED
    BY <1>1, <2>3, <2>4
<1> QED
  BY <1>2, <1>3

LEMMA FewerEdgesKeepAcyclic ==
  ASSUME NEW E, NEW F \in SUBSET E, Acyclic(E)
  PROVE  Acyclic(F)
BY DEF Acyclic

LEMMA NoOwnAncestor ==
  ASSUME NEW E \in SUBSET (GroupIds \X GroupIds), Acyclic(E), NEW a \in GroupIds
  PROVE  a \notin Ancestors(a, E)
<1> SUFFICES ASSUME a \in Ancestors(a, E)
             PROVE  FALSE
  OBVIOUS
<1> DEFINE A == Ancestors(a, E)
           W == {x \in A : \E c \in A : <<x, c>> \in E}
<1>1. /\ A \in (SUBSET GroupIds) \ {{}}
      /\ Parents(a, E) \subseteq A
      /\ \A x \in A : Parents(x, E) \subseteq A
  BY AncestorsFacts
<1>2. Parents(a, E) \subseteq W
  BY <1>1 DEF Parents
<1>3. \A x \in W : Parents(x, E) \subseteq W
  BY <1>1 DEF Parents
<1>4. A \subseteq W
  BY <1>1, <1>2, <1>3, AncestorsFacts
<1>5. PICK x \in A : \A y \in A : <<x, y>> \notin E
  BY <1>1 DEF Acyclic
<1> QED
  BY <1>4, <1>5

(* A group has strictly more ancestors than each of its ancestors.         *)
LEMMA DepthGrows ==
  ASSUME NEW E \in SUBSET (GroupIds \X GroupIds), Acyclic(E),
         NEW g \in GroupIds, NEW a \in Ancestors(g, E)
  PROVE  /\ Cardinality(Ancestors(a, E)) \in Nat
         /\ Cardinality(Ancestors(g, E)) \in Nat
         /\ Cardinality(Ancestors(a, E)) < Cardinality(Ancestors(g, E))
<1>1. a \in GroupIds /\ Ancestors(g, E) \subseteq GroupIds
  BY AncestorsFacts
<1>2. Ancestors(a, E) \subseteq Ancestors(g, E)
  BY <1>1, AncestorsFacts
<1>3. a \notin Ancestors(a, E)
  BY <1>1, NoOwnAncestor
<1>4. IsFiniteSet(Ancestors(g, E))
  <2>1. IsFiniteSet(GroupIds)
    BY FS_Interval DEF GroupIds
  <2> QED
    BY <1>1, <2>1, FS_Subset
<1>5. Ancestors(a, E) # Ancestors(g, E)
  BY <1>3
<1>6. /\ IsFiniteSet(Ancestors(a, E))
      /\ Cardinality(Ancestors(a, E)) <= Cardinality(Ancestors(g, E))
      /\ Cardinality(Ancestors(a, E)) # Cardinality(Ancestors(g, E))
  BY <1>2, <1>4, <1>5, FS_Subset
<1> QED
  BY <1>4, <1>6, FS_CardinalityType

-----------------------------------------------------------------------------
IInv == TypeOK /\ GraphIsAcyclic

LEMMA EdgesTyped ==
  ASSUME TypeOK
  PROVE  edges \in SUBSET (GroupIds \X GroupIds)
BY DEF TypeOK

LEMMA InitIInv == Init => IInv
BY DEF Init, IInv, TypeOK, GraphIsAcyclic, Acyclic

LEMMA UpdateGroupIInv ==
  ASSUME IInv, NEW g \in GroupIds, NEW hosts \in SUBSET Hosts,
         NEW wanted \in SUBSET GroupIds, UpdateGroup(g, hosts, wanted)
  PROVE  IInv'
<1> DEFINE base == {e \in edges : e[1] # g}
           C == NewChildren(g, wanted, base)
<1>1. /\ TypeOK
      /\ g \in groups /\ wanted \subseteq groups
      /\ members' = {m \in members : m[1] # g} \cup {<<g, h>> : h \in hosts}
      /\ edges' = base \cup {<<g, c>> : c \in C}
      /\ groups' = groups /\ configured' = configured
  BY DEF UpdateGroup, IInv
<1>2. C \subseteq wanted /\ \A c \in C : ~WouldCreateCycle(g, c, base)
  BY DEF NewChildren
<1>3. base \subseteq edges /\ \A c \in GroupIds : <<g, c>> \notin base
  OBVIOUS
<1>4. TypeOK'
  <2>1. groups' \subseteq GroupIds /\ configured' \subseteq GroupIds
    BY <1>1 DEF TypeOK
  <2>2. edges' \subseteq groups' \X groups'
    <3>1. base \subseteq groups \X groups
      BY <1>1, <1>3 DEF TypeOK
    <3>2. g \in groups /\ C \subseteq groups
      BY <1>1, <1>2
    <3> HIDE DEF base, C
    <3>3. {<<g, c>> : c \in C} \subseteq groups \X groups
      BY <3>2
    <3> QED
      BY <1>1, <3>1, <3>3
  <2>3. members' \subseteq groups' \X Hosts
    <3>1. {m \in members : m[1] # g} \subseteq groups \X Hosts
      BY <1>1 DEF TypeOK
    <3>2. {<<g, h>> : h \in hosts} \subseteq groups \X Hosts
      BY <1>1
    <3> QED
      BY <1>1, <3>1, <3>2
  <2> QED
    BY <2>1, <2>2, <2>3 DEF TypeOK
<1>5. Acyclic(base)
  BY <1>3, FewerEdgesKeepAcyclic DEF IInv, GraphIsAcyclic
<1>6. base \in SUBSET (GroupIds \X GroupIds)
  BY <1>1, <1>3, EdgesTyped
<1> HIDE DEF base, C
<1>7. Acyclic(base \cup {<<g, c>> : c \in C})
  BY <1>2, <1>3, <1>5, <1>6, NewEdgesKeepAcyclic
<1> QED
  BY <1>1, <1>4, <1>7 DEF IInv, GraphIsAcyclic

LEMMA NextIInv ==
  ASSUME IInv, [Next]_vars
  PROVE  IInv'
<1>1. ASSUME NEW g \in GroupIds, AddGroup(g)
      PROVE  IInv'
  BY <1>1 DEF AddGroup, IInv, TypeOK, GraphIsAcyclic
<1>2. ASSUME NEW g \in GroupIds, NEW hosts \in SUBSET Hosts,
             NEW wanted \in SUBSET GroupIds, UpdateGroup(g, hosts, wanted)
      PROVE  IInv'
  BY <1>2, UpdateGroupIInv
<1>3. ASSUME NEW g \in GroupIds, DeleteGroup(g)
      PROVE  IInv'
  <2>1. TypeOK'
    BY <1>3 DEF DeleteGroup, EdgesOf, IInv, TypeOK
  <2>2. GraphIsAcyclic'
    BY <1>3, FewerEdgesKeepAcyclic DEF DeleteGroup, IInv, GraphIsAcyclic
  <2> QED
    BY <2>1, <2>2 DEF IInv
<1>4. ASSUME NEW h \in Hosts, DeleteHost(h)
      PROVE  IInv'
  BY <1>4 DEF DeleteHost, IInv, TypeOK, GraphIsAcyclic
<1>5. ASSUME NEW g \in GroupIds, SaveGroupConfig(g)
      PROVE  IInv'
  BY <1>5 DEF SaveGroupConfig, IInv, TypeOK, GraphIsAcyclic
<1>6. CASE UNCHANGED vars
  BY <1>6 DEF vars, IInv, TypeOK, GraphIsAcyclic
<1> QED
  BY <1>1, <1>2, <1>3, <1>4, <1>5, <1>6 DEF Next

LEMMA OverlayOrder == IInv => SpecificGroupWins
<1> SUFFICES ASSUME IInv, NEW h \in Hosts, NEW g \in Winner(h),
                    NEW o \in Candidates(h), g \in Ancestors(o, edges)
             PROVE  FALSE
  BY DEF SpecificGroupWins
<1>1. edges \in SUBSET (GroupIds \X GroupIds) /\ Acyclic(edges)
  BY EdgesTyped DEF IInv, GraphIsAcyclic
<1>2. o \in GroupIds
  BY <1>1, AncestorsFacts DEF Candidates, IInv, TypeOK
<1>3. /\ Cardinality(Ancestors(g, edges)) \in Nat
      /\ Cardinality(Ancestors(o, edges)) \in Nat
      /\ Cardinality(Ancestors(g, edges)) < Cardinality(Ancestors(o, edges))
  BY <1>1, <1>2, DepthGrows
<1>4. o # g
  BY <1>3
<1>5. Before(o, g, edges)
  BY <1>4 DEF Winner
<1> QED
  BY <1>3, <1>5 DEF Before

LEMMA WalksAgree == IInv => TargetsMatchOverlays
<1> SUFFICES ASSUME IInv, NEW g \in GroupIds, NEW h \in Hosts
             PROVE  h \in ExpandHosts({g}) <=> g \in Effective(h)
  BY DEF TargetsMatchOverlays
<1>1. edges \in SUBSET (GroupIds \X GroupIds)
  BY EdgesTyped DEF IInv
<1>2. Reachable({g}, edges) \subseteq GroupIds
  BY ReachableContains
<1>3. h \in ExpandHosts({g})
        <=> \E d \in Direct(h) : d \in Reachable({g}, edges)
  BY <1>2 DEF ExpandHosts, Direct
<1>4. \A d \in Direct(h) :
        d \in Reachable({g}, edges) <=> d = g \/ g \in Ancestors(d, edges)
  BY <1>1, DownIsUp DEF Direct
<1>5. g \in Effective(h) <=> \E d \in Direct(h) : d = g \/ g \in Ancestors(d, edges)
  BY DEF Effective
<1> QED
  BY <1>3, <1>4, <1>5

-----------------------------------------------------------------------------
LEMMA Invariance == Spec => []IInv
<1>1. IInv /\ [Next]_vars => IInv'
  BY NextIInv
<1> QED
  BY <1>1, InitIInv, PTL DEF Spec

(* However the group forms are saved, the graph of groups stays a DAG      *)
(* (groups.py:4), for any number of groups.                                *)
THEOREM AlwaysAcyclic == Spec => []GraphIsAcyclic
<1>1. IInv => GraphIsAcyclic
  BY DEF IInv
<1> QED
  BY <1>1, Invariance, PTL

(* Rows refer to existing groups.                                          *)
THEOREM TypeCorrect == Spec => []TypeOK
<1>1. IInv => TypeOK
  BY DEF IInv
<1> QED
  BY <1>1, Invariance, PTL

(* A host takes its configuration from the most specific of its groups     *)
(* that sets it (groups.py:83-100), for any graph the routes can build.    *)
THEOREM MostSpecificWins == Spec => []SpecificGroupWins
  BY OverlayOrder, Invariance, PTL

(* The hosts a run on a group reaches are those it configures.             *)
THEOREM DownMatchesUp == Spec => []TargetsMatchOverlays
  BY WalksAgree, Invariance, PTL

-----------------------------------------------------------------------------
(* update_group as its loops.  An edge out of g opens no way back to g: to *)
(* use it a walk must have been at g already.                              *)
LEMMA WayBack ==
  ASSUME NEW E \in SUBSET (GroupIds \X GroupIds), NEW g \in GroupIds,
         NEW C \in SUBSET GroupIds, NEW x \in GroupIds
  PROVE  g \in Reachable({x}, E \cup {<<g, c>> : c \in C}) <=> g \in Reachable({x}, E)
<1> DEFINE F == E \cup {<<g, c>> : c \in C}
<1>1. F \in SUBSET (GroupIds \X GroupIds)
  OBVIOUS
<1>2. \A a, b \in GroupIds : <<a, b>> \in F <=> <<a, b>> \in E \/ (a = g /\ b \in C)
  OBVIOUS
<1> HIDE DEF F
<1>3. Reachable({x}, E) \subseteq Reachable({x}, F)
  <2>1. /\ {x} \subseteq Reachable({x}, F)
        /\ Reachable({x}, F) \in SUBSET GroupIds
    BY ReachableContains
  <2>2. \A a \in Reachable({x}, F) : \A b \in GroupIds :
          <<a, b>> \in E => b \in Reachable({x}, F)
    BY <1>2, <2>1, ReachableClosed
  <2> QED
    BY <2>1, <2>2, ReachableLeast
<1>4. ASSUME g \notin Reachable({x}, E)
      PROVE  Reachable({x}, F) \subseteq Reachable({x}, E)
  <2>1. /\ {x} \subseteq Reachable({x}, E)
        /\ Reachable({x}, E) \in SUBSET GroupIds
    BY ReachableContains
  <2>2. ASSUME NEW a \in Reachable({x}, E), NEW b \in GroupIds, <<a, b>> \in F
        PROVE  b \in Reachable({x}, E)
    <3>1. a \in GroupIds /\ a # g
      BY <1>4, <2>1
    <3>2. <<a, b>> \in E
      BY <1>2, <2>2, <3>1
    <3> QED
      BY <3>2, ReachableClosed
  <2> QED
    BY <1>1, <2>1, <2>2, ReachableLeast
<1> QED
  BY <1>3, <1>4 DEF F

(* Popping and extending a stack, as sets. *)
LEMMA RestOfStack ==
  ASSUME stack \in Seq(GroupIds), stack # <<>>
  PROVE  /\ Top \in GroupIds /\ Rest \in Seq(GroupIds)
         /\ Elems(stack) = Elems(Rest) \cup {Top}
<1>1. Len(stack) \in Nat /\ Len(stack) > 0 /\ DOMAIN stack = 1..Len(stack)
  OBVIOUS
<1>2. Top \in GroupIds
  BY <1>1 DEF Top
<1>3. /\ Rest \in Seq(GroupIds) /\ Len(Rest) = Len(stack) - 1
      /\ \A i \in 1..Len(stack) - 1 : Rest[i] = stack[i]
  BY <1>1 DEF Rest
<1>4. DOMAIN Rest = 1..Len(stack) - 1
  BY <1>3
<1>5. ASSUME NEW x \in Elems(stack) PROVE x \in Elems(Rest) \cup {Top}
  <2>1. PICK i \in 1..Len(stack) : x = stack[i]
    BY <1>1 DEF Elems
  <2>2. CASE i = Len(stack)
    BY <2>1, <2>2 DEF Top
  <2>3. CASE i \in 1..Len(stack) - 1
    <3>1. x = Rest[i] /\ i \in DOMAIN Rest
      BY <2>1, <2>3, <1>3, <1>4
    <3> QED
      BY <3>1 DEF Elems
  <2>4. i = Len(stack) \/ i \in 1..Len(stack) - 1
    <3>1. PICK n \in Nat : n = Len(stack)
      BY <1>1
    <3>2. i \in 1..n
      BY <2>1, <3>1
    <3>3. i = n \/ i \in 1..n - 1
      BY <3>2
    <3> QED
      BY <3>1, <3>3
  <2> QED
    BY <2>2, <2>3, <2>4
<1>6. Elems(Rest) \cup {Top} \subseteq Elems(stack)
  BY <1>1, <1>3, <1>4 DEF Elems, Top
<1> QED
  BY <1>2, <1>3, <1>5, <1>6

LEMMA OrderOfSet ==
  ASSUME NEW S \in SUBSET GroupIds, NEW s \in Orders(S)
  PROVE  s \in Seq(GroupIds) /\ Elems(s) = S
<1>1. IsFiniteSet(GroupIds)
  BY FS_Interval DEF GroupIds
<1>2. Cardinality(S) \in Nat
  BY <1>1, FS_Subset, FS_CardinalityType
<1>3. /\ s \in [1..Cardinality(S) -> S]
      /\ \A x \in S : \E i \in 1..Cardinality(S) : s[i] = x
  BY DEF Orders
<1>4. s \in Seq(S)
  BY <1>2, <1>3, SeqDef
<1> QED
  BY <1>3, <1>4 DEF Elems

LEMMA ExtendedStack ==
  ASSUME NEW r \in Seq(GroupIds), NEW m \in Seq(GroupIds)
  PROVE  r \o m \in Seq(GroupIds) /\ Elems(r \o m) = Elems(r) \cup Elems(m)
<1>1. /\ r \o m \in Seq(GroupIds) /\ Len(r \o m) = Len(r) + Len(m)
      /\ Len(r) \in Nat /\ Len(m) \in Nat
      /\ DOMAIN r = 1..Len(r) /\ DOMAIN m = 1..Len(m)
      /\ DOMAIN (r \o m) = 1..Len(r) + Len(m)
      /\ \A i \in 1..Len(r) : (r \o m)[i] = r[i]
      /\ \A i \in 1..Len(m) : (r \o m)[Len(r) + i] = m[i]
  OBVIOUS
<1>2. ASSUME NEW x \in Elems(r \o m) PROVE x \in Elems(r) \cup Elems(m)
  <2>1. PICK i \in 1..Len(r) + Len(m) : x = (r \o m)[i]
    BY <1>1 DEF Elems
  <2>2. CASE i \in 1..Len(r)
    BY <1>1, <2>1, <2>2 DEF Elems
  <2>3. CASE i \notin 1..Len(r)
    <3>1. i - Len(r) \in 1..Len(m) /\ i = Len(r) + (i - Len(r))
      BY <1>1, <2>1, <2>3
    <3> QED
      BY <1>1, <2>1, <3>1 DEF Elems
  <2> QED
    BY <2>2, <2>3
<1>3. Elems(r) \subseteq Elems(r \o m)
  BY <1>1 DEF Elems
<1>4. ASSUME NEW x \in Elems(m) PROVE x \in Elems(r \o m)
  <2>1. PICK i \in 1..Len(m) : x = m[i]
    BY <1>1 DEF Elems
  <2>2. Len(r) + i \in 1..Len(r) + Len(m)
    BY <1>1, <2>1
  <2> QED
    BY <1>1, <2>1, <2>2 DEF Elems
<1> QED
  BY <1>1, <1>2, <1>3, <1>4

-----------------------------------------------------------------------------
(* While the route runs, the edges of the draft are the old ones of other  *)
(* groups and the children accepted so far, each judged by the old ones    *)
(* alone; and the walk has not left what it can reach nor forgotten where  *)
(* to go on.                                                               *)
Judged == IF pc = "walking" THEN (form.children \ todo) \ {child} ELSE form.children \ todo

DraftInv ==
  pc # "idle" =>
    /\ parent \in groups /\ todo \subseteq form.children
    /\ draft = EdgesOfOthers(parent)
                 \cup {<<parent, c>> : c \in NewChildren(parent, Judged, EdgesOfOthers(parent))}

Reached == seen \cup Elems(stack)

WalkInv ==
  pc = "walking" =>
    /\ child \in form.children /\ child # parent /\ child \notin todo
    /\ child \in Reached
    /\ Reached \subseteq Reachable({child}, draft)
    /\ \A a \in seen : \A b \in GroupIds : <<a, b>> \in draft => b \in Reached

SaveInv == IInv /\ LoopTypeOK /\ DraftInv /\ WalkInv

LEMMA InitSaveInv == SaveInit => SaveInv
<1> SUFFICES ASSUME SaveInit PROVE SaveInv
  OBVIOUS
<1>1. IInv
  BY InitIInv DEF SaveInit
<1>2. LoopTypeOK
  BY DEF SaveInit, LoopTypeOK, NoForm, Forms, GroupIds
<1> QED
  BY <1>1, <1>2 DEF SaveInit, SaveInv, DraftInv, WalkInv

(* An empty stack: the walk is over. *)
LEMMA WalkOver ==
  ASSUME LoopTypeOK, WalkInv
  PROVE  WalkFindsReachable
<1> SUFFICES ASSUME pc = "walking", stack = <<>>
             PROVE  seen = Reachable({child}, draft)
  BY DEF WalkFindsReachable
<1>1. Elems(stack) = {}
  BY DEF Elems
<1>2. /\ {child} \subseteq seen /\ seen \subseteq Reachable({child}, draft)
      /\ \A a \in seen : \A b \in GroupIds : <<a, b>> \in draft => b \in seen
  BY <1>1 DEF WalkInv, Reached
<1>3. /\ {child} \in SUBSET GroupIds /\ seen \in SUBSET GroupIds
      /\ draft \in SUBSET (GroupIds \X GroupIds)
  BY DEF LoopTypeOK
<1> QED
  BY <1>2, <1>3, ReachableLeast

(* What a save in progress does not touch. *)
LEMMA RowsUntouched ==
  ASSUME IInv, UNCHANGED vars
  PROVE  IInv'
BY NextIInv

LEMMA BaseFacts ==
  ASSUME IInv
  PROVE  /\ EdgesOfOthers(parent) \in SUBSET (GroupIds \X GroupIds)
         /\ EdgesOfOthers(parent) \subseteq groups \X groups
BY DEF EdgesOfOthers, IInv, TypeOK

LEMMA JudgedFacts ==
  ASSUME LoopTypeOK
  PROVE  /\ Judged \in SUBSET GroupIds
         /\ NewChildren(parent, Judged, EdgesOfOthers(parent)) \in SUBSET GroupIds
<1>1. form.children \in SUBSET GroupIds
  BY DEF LoopTypeOK, Forms
<1> QED
  BY <1>1 DEF Judged, NewChildren

LEMMA BeginKeeps ==
  ASSUME SaveInv, NEW g \in GroupIds, NEW hosts \in SUBSET Hosts,
         NEW children \in SUBSET GroupIds, Begin(g, hosts, children)
  PROVE  SaveInv'
<1>1. IInv'
  BY RowsUntouched DEF SaveInv, Begin
<1>2. form' \in Forms /\ form'.children = children
  BY DEF Begin, Forms
<1>3. EdgesOfOthers(g) \in SUBSET (GroupIds \X GroupIds)
  BY EdgesTyped DEF SaveInv, IInv, EdgesOfOthers
<1>4. LoopTypeOK'
  BY <1>2, <1>3 DEF Begin, SaveInv, LoopTypeOK
<1>5. Judged' = {}
  BY <1>2 DEF Begin, Judged
<1>6. EdgesOfOthers(parent)' = EdgesOfOthers(g)
  BY DEF Begin, vars, EdgesOfOthers
<1>7. DraftInv'
  <2>1. {<<parent, c>> : c \in NewChildren(parent, Judged, EdgesOfOthers(parent))}' = {}
    BY <1>5 DEF NewChildren
  <2> QED
    BY <1>2, <1>6, <2>1 DEF Begin, vars, DraftInv
<1> QED
  BY <1>1, <1>4, <1>7 DEF Begin, SaveInv, WalkInv

LEMMA SkipItselfKeeps ==
  ASSUME SaveInv, SkipItself
  PROVE  SaveInv'
<1>1. IInv'
  BY RowsUntouched DEF SaveInv, SkipItself
<1>2. LoopTypeOK'
  BY DEF SkipItself, SaveInv, LoopTypeOK
<1>3. EdgesOfOthers(parent)' = EdgesOfOthers(parent)
  BY DEF SkipItself, vars, EdgesOfOthers
<1> DEFINE B == EdgesOfOthers(parent)
<1>4. NewChildren(parent, Judged, B)' = NewChildren(parent, Judged, B)
  <2>1. Judged' \ {parent} = Judged \ {parent}
    BY DEF SkipItself, Judged
  <2> QED
    BY <1>3, <2>1 DEF SkipItself, NewChildren, WouldCreateCycle
<1>5. DraftInv'
  BY <1>3, <1>4 DEF SkipItself, vars, SaveInv, DraftInv
<1> QED
  BY <1>1, <1>2, <1>5 DEF SkipItself, SaveInv, WalkInv

LEMMA CheckKeeps ==
  ASSUME SaveInv, NEW c \in GroupIds, Check(c)
  PROVE  SaveInv'
<1>1. IInv'
  BY RowsUntouched DEF SaveInv, Check
<1>2. LoopTypeOK'
  BY DEF Check, SaveInv, LoopTypeOK
<1>3. EdgesOfOthers(parent)' = EdgesOfOthers(parent)
  BY DEF Check, vars, EdgesOfOthers
<1>4. c \in form.children /\ c \in todo /\ Judged' = Judged
  <2>1. c \in form.children /\ c \in todo
    BY DEF Check, SaveInv, DraftInv
  <2> QED
    BY <2>1 DEF Check, Judged
<1>5. DraftInv'
  BY <1>3, <1>4 DEF Check, vars, SaveInv, DraftInv, NewChildren
<1>6. WalkInv'
  <2>1. Elems(stack)' = {c}
    BY DEF Check, Elems
  <2>2. c \in Reachable({c}, draft)
    BY ReachableContains
  <2> QED
    BY <1>4, <2>1, <2>2 DEF Check, WalkInv, Reached
<1> QED
  BY <1>1, <1>2, <1>5, <1>6 DEF SaveInv

LEMMA PopKeeps ==
  ASSUME SaveInv, Pop
  PROVE  SaveInv'
<1>1. IInv'
  BY RowsUntouched DEF SaveInv, Pop
<1>2. EdgesOfOthers(parent)' = EdgesOfOthers(parent) /\ Judged' = Judged
  BY DEF Pop, vars, EdgesOfOthers, Judged
<1>3. DraftInv'
  BY <1>2 DEF Pop, vars, SaveInv, DraftInv, NewChildren
<1>4. LoopTypeOK /\ WalkInv /\ pc = "walking" /\ stack # <<>>
  BY DEF Pop, SaveInv
<1>5. /\ Top \in GroupIds /\ Rest \in Seq(GroupIds)
      /\ Elems(stack) = Elems(Rest) \cup {Top}
  BY <1>4, RestOfStack DEF LoopTypeOK
<1>6. /\ stack' \in Seq(GroupIds) /\ seen' = seen \cup {Top}
      /\ Elems(stack)' = Elems(Rest) \cup (IF Top \in seen THEN {} ELSE Unseen(Top))
  <2>1. CASE Top \in seen
    BY <2>1, <1>5 DEF Pop, Elems
  <2>2. CASE Top \notin seen
    <3>1. PICK more \in Orders(Unseen(Top)) : stack' = Rest \o more
      BY <2>2 DEF Pop
    <3>2. Unseen(Top) \in SUBSET GroupIds
      BY DEF Unseen
    <3>3. more \in Seq(GroupIds) /\ Elems(more) = Unseen(Top)
      BY <3>1, <3>2, OrderOfSet
    <3>4. stack' \in Seq(GroupIds) /\ Elems(Rest \o more) = Elems(Rest) \cup Unseen(Top)
      BY <1>5, <3>1, <3>3, ExtendedStack
    <3>5. Elems(stack)' = Elems(Rest) \cup Unseen(Top)
      BY <3>1, <3>4 DEF Elems
    <3> QED
      BY <2>2, <3>4, <3>5 DEF Pop
  <2> QED
    BY <2>1, <2>2
<1>7. LoopTypeOK'
  BY <1>4, <1>5, <1>6 DEF Pop, LoopTypeOK
<1>8. Top \in Reachable({child}, draft)
  BY <1>4, <1>5 DEF WalkInv, Reached
<1>9. Reached' = Reached \cup (IF Top \in seen THEN {} ELSE Unseen(Top))
  BY <1>5, <1>6 DEF Reached
<1>10. Unseen(Top) \subseteq Reachable({child}, draft)
  <2>1. child \in GroupIds
    BY <1>4 DEF LoopTypeOK
  <2> QED
    BY <1>8, <2>1, ReachableClosed DEF Unseen
<1>11. ASSUME NEW a \in seen', NEW b \in GroupIds, <<a, b>> \in draft
       PROVE  b \in Reached'
  <2>1. CASE a \in seen
    BY <2>1, <1>4, <1>9, <1>11 DEF WalkInv
  <2>2. CASE a = Top /\ Top \notin seen
    <3>1. b \in seen \cup {Top} \cup Unseen(Top)
      BY <2>2, <1>11 DEF Unseen
    <3> QED
      BY <2>2, <3>1, <1>6, <1>9 DEF Reached
  <2> QED
    BY <1>6, <2>1, <2>2
<1>12. WalkInv'
  <2>1. /\ draft' = draft /\ child' = child /\ form' = form /\ todo' = todo
        /\ parent' = parent
    BY DEF Pop
  <2>2. child \in Reached' /\ Reached' \subseteq Reachable({child}, draft)
    BY <1>4, <1>9, <1>10 DEF WalkInv
  <2> QED
    BY <1>4, <1>11, <2>1, <2>2 DEF WalkInv
<1> QED
  BY <1>1, <1>3, <1>7, <1>12 DEF SaveInv

(* The child that is judged next: its walk has met the parent or not.      *)
LEMMA DecideKeeps ==
  ASSUME SaveInv, Decide
  PROVE  SaveInv'
<1> DEFINE B == EdgesOfOthers(parent)
           J == Judged
           C == NewChildren(parent, J, B)
<1>1. IInv'
  BY RowsUntouched DEF SaveInv, Decide
<1>2. /\ LoopTypeOK /\ WalkInv /\ DraftInv
      /\ pc = "walking" /\ stack = <<>> /\ parent \in GroupIds /\ child \in GroupIds
  BY DEF Decide, SaveInv, LoopTypeOK
<1>3. LoopTypeOK'
  BY <1>2 DEF Decide, LoopTypeOK, GroupIds
<1>4. B' = B /\ Judged' = J \cup {child}
  <2>1. child \in form.children /\ child \notin todo
    BY <1>2 DEF WalkInv
  <2> QED
    BY <1>2, <2>1 DEF Decide, vars, EdgesOfOthers, Judged
<1>5. /\ B \in SUBSET (GroupIds \X GroupIds)
      /\ C \in SUBSET GroupIds
  BY <1>2, BaseFacts, JudgedFacts DEF SaveInv
<1>6. draft = B \cup {<<parent, c>> : c \in C}
  BY <1>2 DEF DraftInv
<1>7. parent \in seen <=> WouldCreateCycle(parent, child, B)
  <2>1. seen = Reachable({child}, draft)
    BY <1>2, WalkOver DEF WalkFindsReachable
  <2>2. parent \in Reachable({child}, draft) <=> parent \in Reachable({child}, B)
    <3> HIDE DEF B, C
    <3>1. parent \in Reachable({child}, B \cup {<<parent, c>> : c \in C})
            <=> parent \in Reachable({child}, B)
      BY <1>2, <1>5, WayBack
    <3> QED
      BY <1>6, <3>1
  <2>3. child # parent
    BY <1>2 DEF WalkInv
  <2> QED
    BY <2>1, <2>2, <2>3 DEF WouldCreateCycle
<1>8. NewChildren(parent, J \cup {child}, B)
        = C \cup (IF WouldCreateCycle(parent, child, B) THEN {} ELSE {child})
  BY DEF NewChildren
<1>9. draft' = B \cup {<<parent, c>> : c \in NewChildren(parent, J \cup {child}, B)}
  <2>1. CASE parent \in seen
    BY <2>1, <1>6, <1>7, <1>8 DEF Decide
  <2>2. CASE parent \notin seen
    <3>1. NewChildren(parent, J \cup {child}, B) = C \cup {child}
      BY <2>2, <1>7, <1>8
    <3>2. draft' = draft \cup {<<parent, child>>}
      BY <2>2 DEF Decide
    <3> HIDE DEF B, C
    <3> QED
      BY <1>6, <3>1, <3>2
  <2> QED
    BY <2>1, <2>2
<1>10. DraftInv'
  <2>1. /\ groups' = groups /\ parent' = parent /\ todo' = todo /\ form' = form
    BY DEF Decide, vars
  <2>2. NewChildren(parent, Judged, EdgesOfOthers(parent))'
          = NewChildren(parent, J \cup {child}, B)
    BY <1>4, <2>1 DEF NewChildren
  <2> QED
    BY <1>2, <1>4, <1>9, <2>1, <2>2 DEF DraftInv
<1>11. WalkInv'
  BY DEF Decide, WalkInv
<1> QED
  BY <1>1, <1>3, <1>10, <1>11 DEF SaveInv

(* The commit of the loops is one step of Groups: a child the check has    *)
(* skipped is there too, since it has an edge or is the parent itself.     *)
LEMMA CommitIsUpdate ==
  ASSUME SaveInv, Commit
  PROVE  UpdateGroup(parent, form.hosts, form.children)
<1> DEFINE B == EdgesOfOthers(parent)
           C == NewChildren(parent, form.children, B)
<1>1. LoopTypeOK /\ DraftInv /\ IInv /\ pc = "saving" /\ todo = {} /\ RowsExist
  BY DEF Commit, SaveInv
<1>2. Judged = form.children /\ parent \in groups
  BY <1>1 DEF Judged, DraftInv
<1>3. draft = B \cup {<<parent, c>> : c \in C}
  BY <1>1, <1>2 DEF DraftInv
<1>4. form.children \subseteq groups
  <2> SUFFICES ASSUME NEW c \in form.children PROVE c \in groups
    OBVIOUS
  <2>1. c \in GroupIds /\ parent \in GroupIds
    BY <1>1 DEF LoopTypeOK, Forms
  <2>2. CASE c \in C
    <3>1. <<parent, c>> \in draft
      BY <1>3, <2>2
    <3> QED
      BY <1>1, <3>1 DEF RowsExist
  <2>3. CASE c = parent
    BY <1>2, <2>3
  <2>4. CASE c # parent /\ parent \in Reachable({c}, B)
    <3>1. B \in SUBSET (GroupIds \X GroupIds) /\ B \subseteq groups \X groups
      BY <1>1, BaseFacts
    <3> HIDE DEF B
    <3>2. PICK b \in GroupIds : <<c, b>> \in B
      <4> SUFFICES ASSUME \A b \in GroupIds : <<c, b>> \notin B PROVE FALSE
        OBVIOUS
      <4>1. Reachable({c}, B) \subseteq {c}
        BY <2>1, <3>1, ReachableLeast
      <4> QED
        BY <2>4, <4>1
    <3> QED
      BY <3>1, <3>2
  <2> QED
    BY <2>2, <2>3, <2>4 DEF NewChildren, WouldCreateCycle
<1> QED
  BY <1>2, <1>3, <1>4 DEF Commit, UpdateGroup, EdgesOfOthers

(* One step of the loops is that of the form, another route's, or none.    *)
LEMMA FormStep ==
  ASSUME SaveInv, [SaveNext]_<<vars, loop>>
  PROVE  [RouteStep]_vars
<1>1. CASE Commit
  BY <1>1, CommitIsUpdate DEF Commit, RouteStep
<1>2. CASE OtherRoute
  BY <1>2 DEF OtherRoute, Next, RouteStep
<1>3. CASE SkipItself \/ (\E c \in GroupIds : Check(c)) \/ Pop \/ Decide \/ RollBack
  BY <1>3 DEF SkipItself, Check, Pop, Decide, RollBack
<1>4. ASSUME NEW g \in GroupIds, NEW hosts \in SUBSET Hosts,
             NEW children \in SUBSET GroupIds, Begin(g, hosts, children)
      PROVE  UNCHANGED vars
  BY <1>4 DEF Begin
<1> QED
  BY <1>1, <1>2, <1>3, <1>4 DEF SaveNext, LoopStep

(* So it is a step of Groups or none.                                      *)
LEMMA SaveStep ==
  ASSUME SaveInv, [SaveNext]_<<vars, loop>>
  PROVE  [Next]_vars
<1>1. parent \in GroupIds /\ form.hosts \in SUBSET Hosts /\ form.children \in SUBSET GroupIds
  BY DEF SaveInv, LoopTypeOK, Forms
<1> QED
  BY <1>1, FormStep DEF RouteStep, Next

LEMMA NextSaveInv ==
  ASSUME SaveInv, [SaveNext]_<<vars, loop>>
  PROVE  SaveInv'
<1>1. CASE Commit \/ RollBack
  <2>1. IInv'
    BY SaveStep, NextIInv DEF SaveInv
  <2>2. LoopTypeOK' /\ pc' = "idle"
    <3>1. /\ pc' = "idle" /\ parent' = 1 /\ form' = NoForm /\ todo' = {} /\ draft' = {}
          /\ child' = child /\ stack' = stack /\ seen' = seen
      BY <1>1 DEF Commit, RollBack, Leave
    <3>2. 1 \in GroupIds /\ NoForm \in Forms
      BY DEF GroupIds, NoForm, Forms
    <3> QED
      BY <3>1, <3>2 DEF SaveInv, LoopTypeOK
  <2> QED
    BY <2>1, <2>2 DEF SaveInv, DraftInv, WalkInv
<1>2. CASE OtherRoute
  <2>1. IInv'
    BY SaveStep, NextIInv DEF SaveInv
  <2> QED
    BY <1>2, <2>1 DEF OtherRoute, loop, SaveInv, LoopTypeOK, DraftInv, WalkInv
<1>3. CASE UNCHANGED <<vars, loop>>
  <2>1. IInv'
    BY <1>3, RowsUntouched DEF SaveInv
  <2>2. LoopTypeOK'
    BY <1>3 DEF loop, SaveInv, LoopTypeOK
  <2>3. DraftInv'
    BY <1>3 DEF vars, loop, SaveInv, DraftInv, Judged, EdgesOfOthers, NewChildren
  <2>4. WalkInv'
    <3>1. Reached' = Reached
      BY <1>3 DEF loop, Reached, Elems
    <3> QED
      BY <1>3, <3>1 DEF loop, SaveInv, WalkInv
  <2> QED
    BY <2>1, <2>2, <2>3, <2>4 DEF SaveInv
<1> QED
  BY <1>1, <1>2, <1>3, BeginKeeps, SkipItselfKeeps, CheckKeeps, PopKeeps, DecideKeeps
     DEF SaveNext, LoopStep

LEMMA SaveInvariance == SaveSpec => []SaveInv
<1>1. SaveInv /\ [SaveNext]_<<vars, loop>> => SaveInv'
  BY NextSaveInv
<1> QED
  BY <1>1, InitSaveInv, PTL DEF SaveSpec

(* Every walk of would_create_cycle ends with what can be reached, for any *)
(* graph and any order of iteration (groups.py:28-36).                     *)
THEOREM WalksAreRight == SaveSpec => []WalkFindsReachable
<1>1. SaveInv => WalkFindsReachable
  BY WalkOver DEF SaveInv
<1> QED
  BY <1>1, SaveInvariance, PTL

(* update_group with its two loops is the step of Groups for its form, or  *)
(* nothing.                                                                *)
THEOREM Refinement == SaveSpec => ImplementsRoutes
<1>1. SaveInit => Init
  BY DEF SaveInit
<1>2. SaveInv /\ [SaveNext]_<<vars, loop>> => [RouteStep]_vars
  BY FormStep
<1> QED
  BY <1>1, <1>2, SaveInvariance, PTL DEF SaveSpec, ImplementsRoutes

(* So what holds of Groups holds of the rows the loops of the code write.  *)
THEOREM LoopsKeepTheGraph ==
  SaveSpec => [](GraphIsAcyclic /\ SpecificGroupWins /\ TargetsMatchOverlays)
<1>1. SaveInit => Init
  BY DEF SaveInit
<1>2. SaveInv /\ [SaveNext]_<<vars, loop>> => [Next]_vars
  BY SaveStep
<1>3. SaveSpec => Spec
  BY <1>1, <1>2, SaveInvariance, PTL DEF SaveSpec, Spec
<1> QED
  BY <1>3, AlwaysAcyclic, MostSpecificWins, DownMatchesUp, PTL
=============================================================================
