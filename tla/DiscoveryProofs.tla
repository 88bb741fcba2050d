-------------------------- MODULE DiscoveryProofs --------------------------
(***************************************************************************)
(* The safety properties of Discovery, for any number of machines, hosts,  *)
(* names and scanners.                                                     *)
(***************************************************************************)
EXTENDS Discovery, FiniteSetTheorems, TLAPS

(* One row for a machine to register, one open question for a host. *)
One(R) ==
  \A r1, r2 \in R :
    /\ r1.kind = r2.kind /\ r1.of = r2.of
    /\ r1.kind = "new_host" \/ (r1.status = "pending" /\ r2.status = "pending")
    => r1 = r2

Quiet(R) == \A r \in Pending(R) : [r EXCEPT !.status = "ignored"] \notin R

Apart == \A h, k \in hosts : h.id = k.id => h = k

Listings == found = [s \in Scanners |-> found[s]]

IInv ==
  /\ TypeOK
  /\ Listings
  /\ Apart
  /\ One(rows)
  /\ Quiet(rows)

Consistent(R) == R \subseteq Row /\ One(R) /\ Quiet(R)

-----------------------------------------------------------------------------
(* Rows *)

(* A row is what its fields are. *)
LEMMA RowFields ==
  ASSUME NEW r \in Row
  PROVE  /\ r = [kind |-> r.kind, status |-> r.status, of |-> r.of,
                 old |-> r.old, new |-> r.new]
         /\ r.kind \in {"new_host", "name_change"} /\ r.status \in Statuses
         /\ r.kind = "new_host" => r.of \in Machines /\ (r.of \in Guests => r.new \in Names)
         /\ r.kind = "name_change" => r.of \in HostIds /\ r.new \in Names
BY DiscoveryAssumption DEF Row

(* A decision changes the status and nothing else. *)
LEMMA Stamped ==
  ASSUME NEW r \in Row, NEW st \in Statuses
  PROVE  /\ [r EXCEPT !.status = st] \in Row
         /\ [r EXCEPT !.status = st] =
              [kind |-> r.kind, status |-> st, of |-> r.of, old |-> r.old, new |-> r.new]
BY RowFields DEF Row

(* The name to be recorded for a host. *)
LEMMA ChangeIsRow ==
  ASSUME NEW h \in Host, NEW n \in Names, NEW st \in Statuses
  PROVE  Change(h, n, st) \in Row
BY DEF Change, Host, Row

-----------------------------------------------------------------------------
(* Reconciling names *)

(* What is pending for a host after it is reconciled is one row at most,   *)
(* which was there before or is a change nobody has ignored.               *)
LEMMA OneHost ==
  ASSUME NEW R, Consistent(R), NEW h \in Host, NEW n \in Names
  PROVE  /\ \A p \in Pending(Mine(ReconcileName(R, h, n), h)) :
              /\ p \in Row /\ p.kind = "name_change" /\ p.of = h.id /\ p.status = "pending"
              /\ p \in R \/ (p = Change(h, n, "pending") /\ Change(h, n, "ignored") \notin R)
         /\ \A p, q \in Pending(Mine(ReconcileName(R, h, n), h)) : p = q
<1> DEFINE PM == Pending(Mine(R, h))
           C == Change(h, n, "pending")
<1>1. \A p, q \in PM : p = q
  BY DEF Consistent, One, Pending, Mine
<1>2. Refreshed(R, h, n) = {C}
  <2>1. CASE PM = {}
    BY <2>1 DEF Refreshed
  <2>2. CASE PM # {}
    <3>1. PICK first : first = (CHOOSE r \in PM : TRUE)
      OBVIOUS
    <3>2. first \in PM
      BY <2>2, <3>1
    <3>3. PM \ {first} = {}
      BY <1>1, <3>2
    <3> QED BY <2>2, <3>1, <3>3 DEF Refreshed
  <2> QED BY <2>1, <2>2
<1>3. C \in Row /\ C.kind = "name_change" /\ C.of = h.id /\ C.status = "pending"
  BY ChangeIsRow DEF Change, Statuses
<1>4. CASE n = h.name
  BY <1>4 DEF ReconcileName, Pending, Mine
<1>5. CASE n # h.name /\ Ignored(R, h, n)
  <2>1. ReconcileName(R, h, n) = R
    BY <1>5 DEF ReconcileName
  <2> QED BY <1>1, <2>1 DEF Pending, Mine, Consistent
<1>6. CASE n # h.name /\ ~Ignored(R, h, n)
  <2>1. ReconcileName(R, h, n) = (R \ PM) \cup {C}
    BY <1>2, <1>6 DEF ReconcileName
  <2>2. \A p \in Pending(Mine(ReconcileName(R, h, n), h)) : p = C
    BY <2>1 DEF Pending, Mine
  <2> QED BY <1>3, <1>6, <2>2 DEF Ignored
<1> QED BY <1>4, <1>5, <1>6

(* Reconciling the names of some hosts keeps the rows consistent, and what *)
(* is decided.                                                             *)
LEMMA ManyHosts ==
  ASSUME NEW R, Consistent(R), NEW H \in SUBSET Host, NEW name \in [H -> Names],
         \A h, k \in H : h.id = k.id => h = k
  PROVE  /\ Consistent(ReconcileNames(R, H, name))
         /\ \A r \in R \ Pending(R) : r \in ReconcileNames(R, H, name)
<1> DEFINE N == ReconcileNames(R, H, name)
           After(h) == Pending(Mine(ReconcileName(R, h, name[h]), h))
           Kept == {r \in R : r.status # "pending" \/ \A h \in H : r \notin Mine(R, h)}
<1>1. N = Kept \cup UNION {After(h) : h \in H}
  BY DEF ReconcileNames
<1>2. \A h \in H : \A p \in After(h) :
        /\ p \in Row /\ p.kind = "name_change" /\ p.of = h.id /\ p.status = "pending"
        /\ p \in R \/ (p = Change(h, name[h], "pending") /\ Change(h, name[h], "ignored") \notin R)
  BY OneHost
<1>3. \A h \in H : \A p, q \in After(h) : p = q
  BY OneHost
<1>4. \A r \in N : r \in Kept \/ \E h \in H : r \in After(h)
  BY <1>1
<1> HIDE DEF N, After
<1>5. N \subseteq Row
  BY <1>2, <1>4 DEF Consistent
<1>6. One(N)
  <2> SUFFICES ASSUME NEW r1 \in N, NEW r2 \in N, r1.kind = r2.kind, r1.of = r2.of,
                      r1.kind = "new_host" \/ (r1.status = "pending" /\ r2.status = "pending")
               PROVE  r1 = r2
    BY DEF One
  <2>1. CASE r1 \in Kept /\ r2 \in Kept
    BY <2>1 DEF Consistent, One
  <2>2. CASE \E h \in H : r1 \in After(h)
    <3>1. PICK h \in H : r1 \in After(h)
      BY <2>2
    <3>2. r1.kind = "name_change" /\ r1.of = h.id
      BY <1>2, <3>1
    <3>3. r2 \notin Kept
      BY <3>2 DEF Mine
    <3>4. PICK k \in H : r2 \in After(k)
      BY <1>4, <3>3
    <3>5. h = k
      BY <1>2, <3>2, <3>4
    <3> QED BY <1>3, <3>1, <3>4, <3>5
  <2>3. CASE \E h \in H : r2 \in After(h)
    <3>1. PICK h \in H : r2 \in After(h)
      BY <2>3
    <3>2. r2.kind = "name_change" /\ r2.of = h.id
      BY <1>2, <3>1
    <3>3. r1 \notin Kept
      BY <3>2 DEF Mine
    <3>4. PICK k \in H : r1 \in After(k)
      BY <1>4, <3>3
    <3>5. h = k
      BY <1>2, <3>2, <3>4
    <3> QED BY <1>3, <3>1, <3>4, <3>5
  <2> QED BY <1>4, <2>1, <2>2, <2>3
<1>7. Quiet(N)
  <2> SUFFICES ASSUME NEW p \in N, p.status = "pending",
                      [p EXCEPT !.status = "ignored"] \in N
               PROVE  FALSE
    BY DEF Quiet, Pending
  <2> DEFINE q == [p EXCEPT !.status = "ignored"]
  <2>1. p \in Row
    BY <1>5
  <2>2. q = [kind |-> p.kind, status |-> "ignored", of |-> p.of, old |-> p.old, new |-> p.new]
    BY <2>1, Stamped DEF Statuses
  <2>3. q \in R
    BY <1>2, <1>4, <2>2
  <2>4. p \notin R
    BY <2>3 DEF Consistent, Quiet, Pending
  <2>5. PICK h \in H : p = Change(h, name[h], "pending") /\ Change(h, name[h], "ignored") \notin R
    BY <1>2, <1>4, <2>4
  <2>6. q = Change(h, name[h], "ignored")
    BY <2>2, <2>5 DEF Change
  <2> QED BY <2>3, <2>5, <2>6
<1>8. \A r \in R \ Pending(R) : r \in N
  BY <1>1 DEF Pending
<1> QED BY <1>5, <1>6, <1>7, <1>8 DEF Consistent, N

-----------------------------------------------------------------------------
(* Reconciling machines *)

(* What a scan or a sweep has found: names for guests, none for addresses. *)
FoundBy(S, L) ==
  /\ DOMAIN L \subseteq S
  /\ \/ S = Guests /\ \A m \in DOMAIN L : L[m] \in Names
     \/ S = Machines \ Guests /\ \A m \in DOMAIN L : L[m] = NoName

(* The rows of a source keep their machine, and those of name changes and  *)
(* those decided stay as they are.                                         *)
LEMMA TreatedRow ==
  ASSUME NEW S, NEW L, FoundBy(S, L), NEW r \in Row
  PROVE  /\ Treated(r, S, L) \in Row
         /\ Treated(r, S, L).kind = r.kind /\ Treated(r, S, L).of = r.of
         /\ r.kind = "name_change" \/ r.status # "pending" => Treated(r, S, L) = r
<1> DEFINE t == Treated(r, S, L)
<1>1. CASE r.kind # "new_host" \/ r.status # "pending" \/ r.of \notin S
  BY <1>1, RowFields DEF Treated
<1>2. CASE /\ ~(r.kind # "new_host" \/ r.status # "pending" \/ r.of \notin S)
           /\ r.of \in Registered
  <2>1. t = [r EXCEPT !.status = "confirmed"]
    BY <1>2 DEF Treated
  <2>2. /\ t \in Row
        /\ t = [kind |-> r.kind, status |-> "confirmed", of |-> r.of, old |-> r.old, new |-> r.new]
    <3>1. "confirmed" \in Statuses
      BY DEF Statuses
    <3> QED BY <2>1, <3>1, Stamped
  <2> QED BY <1>2, <2>2
<1>3. CASE /\ ~(r.kind # "new_host" \/ r.status # "pending" \/ r.of \notin S)
           /\ r.of \notin Registered /\ r.of \in DOMAIN L
  <2>1. t = [r EXCEPT !.new = L[r.of]]
    BY <1>3 DEF Treated
  <2>2. t = [kind |-> "new_host", status |-> "pending", of |-> r.of, old |-> r.old, new |-> L[r.of]]
    BY <1>3, <2>1, RowFields
  <2>3. r.old = NoName
    BY <1>3, RowFields DEF Row
  <2>4. t \in Row
    <3>1. CASE S = Guests /\ \A m \in DOMAIN L : L[m] \in Names
      BY <1>3, <2>2, <2>3, <3>1 DEF Row, Statuses
    <3>2. CASE S = Machines \ Guests /\ \A m \in DOMAIN L : L[m] = NoName
      BY <1>3, <2>2, <2>3, <3>2 DEF Row, Statuses
    <3> QED BY <3>1, <3>2 DEF FoundBy
  <2> QED BY <1>3, <2>2, <2>4
<1>4. CASE /\ ~(r.kind # "new_host" \/ r.status # "pending" \/ r.of \notin S)
           /\ r.of \notin Registered /\ r.of \notin DOMAIN L
  BY <1>4, RowFields DEF Treated
<1> QED BY <1>1, <1>2, <1>3, <1>4

LEMMA ManyMachines ==
  ASSUME NEW R, Consistent(R), NEW S, NEW L, FoundBy(S, L)
  PROVE  /\ Consistent(ReconcileMachines(R, S, L))
         /\ \A r \in R \ Pending(R) : r \in ReconcileMachines(R, S, L)
<1> DEFINE N == ReconcileMachines(R, S, L)
           New == {m \in DOMAIN L \ Registered : ~Known(R, m)}
<1>1. \A x \in N : (\E r \in R : x = Treated(r, S, L)) \/ (\E m \in New : x = Found(m, L[m]))
  BY DEF ReconcileMachines
<1>2. \A r \in R : Treated(r, S, L) \in N
  BY DEF ReconcileMachines
<1> HIDE DEF N
<1>3. \A r \in R : /\ Treated(r, S, L) \in Row
                   /\ Treated(r, S, L).kind = r.kind /\ Treated(r, S, L).of = r.of
                   /\ r.kind = "name_change" \/ r.status # "pending" => Treated(r, S, L) = r
  BY TreatedRow DEF Consistent
<1>4. \A m \in New : /\ Found(m, L[m]) \in Row
                     /\ Found(m, L[m]).kind = "new_host" /\ Found(m, L[m]).of = m
  <2> SUFFICES ASSUME NEW m \in New
               PROVE  /\ Found(m, L[m]) \in Row
                      /\ Found(m, L[m]).kind = "new_host" /\ Found(m, L[m]).of = m
    OBVIOUS
  <2>1. CASE S = Guests /\ \A x \in DOMAIN L : L[x] \in Names
    BY <2>1 DEF FoundBy, Found, Row, Statuses
  <2>2. CASE S = Machines \ Guests /\ \A x \in DOMAIN L : L[x] = NoName
    BY <2>2 DEF FoundBy, Found, Row, Statuses
  <2> QED BY <2>1, <2>2 DEF FoundBy
<1>5. N \subseteq Row
  BY <1>1, <1>3, <1>4
<1>6. One(N)
  <2> SUFFICES ASSUME NEW x \in N, NEW y \in N, x.kind = y.kind, x.of = y.of,
                      x.kind = "new_host" \/ (x.status = "pending" /\ y.status = "pending")
               PROVE  x = y
    BY DEF One
  <2>1. ASSUME NEW r \in R, NEW q \in R, x = Treated(r, S, L), y = Treated(q, S, L)
        PROVE  x = y
    <3>1. r.kind = q.kind /\ r.of = q.of
      BY <1>3, <2>1
    <3>2. CASE x.kind = "new_host"
      BY <1>3, <2>1, <3>1, <3>2 DEF Consistent, One
    <3>3. CASE x.kind # "new_host"
      <4>1. r \in Row /\ r.kind = "name_change" /\ q.kind = "name_change"
        BY <1>3, <2>1, <3>1, <3>3, RowFields DEF Consistent
      <4>2. x = r /\ y = q
        BY <1>3, <2>1, <4>1
      <4> QED BY <3>1, <3>3, <4>2 DEF Consistent, One
    <3> QED BY <3>2, <3>3
  <2>2. ASSUME NEW r \in R, NEW m \in New, r.kind = "new_host" PROVE r.of # m
    BY <2>2 DEF Known
  <2>3. CASE \E m \in New : x = Found(m, L[m])
    BY <1>1, <1>3, <1>4, <2>2, <2>3
  <2>4. CASE \E m \in New : y = Found(m, L[m])
    BY <1>1, <1>3, <1>4, <2>2, <2>4
  <2> QED BY <1>1, <2>1, <2>3, <2>4
<1>7. Quiet(N)
  <2> SUFFICES ASSUME NEW p \in N, p.status = "pending",
                      [p EXCEPT !.status = "ignored"] \in N
               PROVE  FALSE
    BY DEF Quiet, Pending
  <2> DEFINE q == [p EXCEPT !.status = "ignored"]
  <2>1. q = [kind |-> p.kind, status |-> "ignored", of |-> p.of, old |-> p.old, new |-> p.new]
    BY <1>5, Stamped DEF Statuses
  <2>2. p.kind # "new_host"
    BY <1>6, <2>1 DEF One
  <2>3. p.kind = "name_change" /\ q.kind = "name_change"
    BY <1>5, <2>1, <2>2, RowFields
  <2>4. \A x \in N : x.kind = "name_change" => x \in R
    <3> SUFFICES ASSUME NEW x \in N, x.kind = "name_change" PROVE x \in R
      OBVIOUS
    <3>1. PICK r \in R : x = Treated(r, S, L)
      BY <1>1, <1>4
    <3> QED BY <1>3, <3>1
  <2>5. p \in R /\ q \in R
    BY <2>3, <2>4
  <2> QED BY <2>5 DEF Consistent, Quiet, Pending
<1>8. \A r \in R \ Pending(R) : r \in N
  BY <1>2, <1>3 DEF Pending
<1> QED BY <1>5, <1>6, <1>7, <1>8 DEF Consistent, N

(* A decision keeps the rows consistent, and what was decided before.      *)
LEMMA DecidedRows ==
  ASSUME Consistent(rows), NEW r \in Pending(rows), NEW st \in Statuses \ {"pending"}
  PROVE  /\ Consistent(Decided(r, st))
         /\ \A x \in rows \ Pending(rows) : x \in Decided(r, st)
<1> DEFINE N == Decided(r, st)
           d == [r EXCEPT !.status = st]
<1>1. r \in Row /\ r.status = "pending" /\ r \in rows
  BY DEF Consistent, Pending
<1>2. d \in Row /\ d = [kind |-> r.kind, status |-> st, of |-> r.of, old |-> r.old, new |-> r.new]
  BY <1>1, Stamped
<1>3. N \subseteq Row
  BY <1>2 DEF Consistent, Decided
<1>4. \A x \in N : x = d \/ (x \in rows /\ x # r)
  BY DEF Decided
<1> HIDE DEF d
<1>5. One(N)
  BY <1>1, <1>2, <1>4 DEF Consistent, One
<1>6. Quiet(N)
  <2> SUFFICES ASSUME NEW p \in N, p.status = "pending",
                      [p EXCEPT !.status = "ignored"] \in N
               PROVE  FALSE
    BY DEF Quiet, Pending
  <2> DEFINE q == [p EXCEPT !.status = "ignored"]
  <2>1. p \in rows /\ p # r /\ p \in Row
    BY <1>2, <1>3, <1>4
  <2>2. q = [kind |-> p.kind, status |-> "ignored", of |-> p.of, old |-> p.old, new |-> p.new]
    BY <2>1, Stamped DEF Statuses
  <2>3. q \notin rows
    BY <2>1 DEF Consistent, Quiet, Pending
  <2>4. q = d
    BY <1>4, <2>3
  <2>5. p.kind = r.kind /\ p.of = r.of
    BY <1>2, <2>2, <2>4
  <2> QED BY <1>1, <2>1, <2>5, RowFields DEF Consistent, One
<1>7. \A x \in rows \ Pending(rows) : x \in N
  BY <1>1 DEF Decided, Pending
<1> QED BY <1>3, <1>5, <1>6, <1>7 DEF Consistent

-----------------------------------------------------------------------------
(* Hosts *)

(* A host with an id of its own keeps the ids of hosts apart.              *)
LEMMA AddedHost ==
  ASSUME hosts \subseteq Host, Apart, NEW i \in FreeIds, NEW m \in Machines,
         NEW x \in HostNames, hosts' = hosts \cup {[id |-> i, machine |-> m, name |-> x]}
  PROVE  hosts' \subseteq Host /\ Apart'
<1>1. [id |-> i, machine |-> m, name |-> x] \in Host /\ \A h \in hosts : h.id # i
  BY DEF FreeIds, Host
<1> QED BY <1>1 DEF Apart

LEMMA DistinctName ==
  ASSUME NEW n \in Names, NEW suffix \in Machines \cup HostIds, NEW taken
  PROVE  Distinct(n, suffix, taken) \in HostNames
BY DEF Distinct, HostNames, Suffixed

LEMMA CreatedGuest ==
  ASSUME hosts \subseteq Host, Apart, NEW g \in Guests, NEW n \in Names, CreateGuest(g, n)
  PROVE  hosts' \subseteq Host /\ Apart'
<1>1. g \in Machines
  BY DiscoveryAssumption
<1>2. Distinct(n, g, Taken) \in HostNames
  BY <1>1, DistinctName
<1>3. PICK i \in FreeIds :
        hosts' = hosts \cup {[id |-> i, machine |-> g, name |-> Distinct(n, g, Taken)]}
  BY DEF CreateGuest
<1> QED BY <1>1, <1>2, <1>3, AddedHost

-----------------------------------------------------------------------------
(* Steps *)

(* What the step does to the rows already decided. *)
Stuck ==
  \A r \in rows \ Pending(rows) :
    \/ r \in rows'
    \/ r.kind = "name_change" /\ r.of \notin {h.id : h \in hosts'}

(* What a scanner may have in hand. *)
Listing(L) ==
  \/ /\ DOMAIN L \subseteq Guests \/ DOMAIN L \subseteq HostNames
     /\ \A x \in DOMAIN L : L[x] \in Names
  \/ L \in UNION {[M -> {NoName}] : M \in SUBSET (Machines \ Guests)}

(* A step that keeps the types of what it changes and leaves consistent    *)
(* rows keeps the invariant.                                               *)
LEMMA Assemble ==
  ASSUME live' \in [Machines -> Names], hosts' \subseteq Host, Apart', Listings',
         Consistent(rows'),
         \A s \in Scanners : found'[s] # Idle => Listing(found'[s])
  PROVE  IInv'
BY DEF Listing, IInv, TypeOK, Consistent, One, Quiet, Pending

(* The result of one scanner changes. *)
LEMMA NewListing ==
  ASSUME IInv, NEW s \in Scanners, NEW L, found' = [found EXCEPT ![s] = L],
         L # Idle => Listing(L)
  PROVE  /\ Listings'
         /\ \A z \in Scanners : found'[z] # Idle => Listing(found'[z])
<1>1. found = [z \in Scanners |-> found[z]]
  BY DEF IInv, Listings
<1>2. found' = [z \in Scanners |-> IF z = s THEN L ELSE found[z]]
  BY <1>1
<1>3. \A z \in Scanners : found'[z] = IF z = s THEN L ELSE found[z]
  BY <1>2
<1>4. Listings'
  BY <1>2, <1>3 DEF Listings
<1>5. ASSUME NEW z \in Scanners, found'[z] # Idle
      PROVE  Listing(found'[z])
  <2>1. CASE z = s
    BY <1>3, <1>5, <2>1
  <2>2. CASE z # s
    BY <1>3, <1>5, <2>2 DEF Listing, IInv, TypeOK
  <2> QED BY <2>1, <2>2
<1> QED BY <1>4, <1>5

LEMMA RenamedPreserves ==
  ASSUME IInv, NEW m \in Machines, NEW n \in Names, Renamed(m, n)
  PROVE  IInv' /\ Stuck
<1>1. live' \in [Machines -> Names] /\ hosts' = hosts /\ rows' = rows /\ found' = found
  BY DEF IInv, TypeOK, Renamed
<1> QED BY <1>1 DEF IInv, TypeOK, Listings, Apart, One, Quiet, Pending, Stuck

LEMMA ListPreserves ==
  ASSUME IInv, NEW s \in Scanners, List(s)
  PROVE  IInv' /\ Stuck
<1>1. PICK L \in SUBSET Guests : found' = [found EXCEPT ![s] = [g \in L |-> live[g]]]
  BY DEF List
<1>2. \A g \in L : live[g] \in Names
  BY DiscoveryAssumption DEF IInv, TypeOK
<1>3. Listing([g \in L |-> live[g]])
  BY <1>2 DEF Listing
<1>4. live' = live /\ hosts' = hosts /\ rows' = rows
  BY DEF List
<1>5. live' \in [Machines -> Names] /\ hosts' \subseteq Host /\ Apart' /\ Consistent(rows')
  BY <1>4 DEF IInv, TypeOK, Apart, Consistent
<1> HIDE DEF List
<1>6. IInv'
  BY <1>1, <1>3, <1>5, NewListing, Assemble
<1> QED BY <1>4, <1>6 DEF Stuck

LEMMA SweepPreserves ==
  ASSUME IInv, NEW s \in Scanners, Sweep(s)
  PROVE  IInv' /\ Stuck
<1>1. PICK L \in SUBSET (Machines \ Guests) :
        found' = [found EXCEPT ![s] = [m \in L |-> NoName]]
  BY DEF Sweep
<1>2. Listing([m \in L |-> NoName])
  <2>1. [m \in L |-> NoName] \in [L -> {NoName}]
    OBVIOUS
  <2> QED BY <2>1 DEF Listing
<1>3. live' = live /\ hosts' = hosts /\ rows' = rows
  BY DEF Sweep
<1>4. live' \in [Machines -> Names] /\ hosts' \subseteq Host /\ Apart' /\ Consistent(rows')
  BY <1>3 DEF IInv, TypeOK, Apart, Consistent
<1>5. IInv'
  BY <1>1, <1>2, <1>4, NewListing, Assemble
<1> QED BY <1>3, <1>5 DEF Stuck

LEMMA ProbePreserves ==
  ASSUME IInv, NEW s \in Scanners, Probe(s)
  PROVE  IInv' /\ Stuck
<1>1. PICK H \in SUBSET hosts :
        found' = [found EXCEPT ![s] = [x \in {h.name : h \in H} |->
                    live[(CHOOSE h \in H : h.name = x).machine]]]
  BY DEF Probe
<1> DEFINE L == [x \in {h.name : h \in H} |-> live[(CHOOSE h \in H : h.name = x).machine]]
<1>2. \A h \in H : h.name \in HostNames /\ h.machine \in Machines
  BY DEF IInv, TypeOK, Host
<1>3. \A x \in {h.name : h \in H} : (CHOOSE h \in H : h.name = x) \in H
  OBVIOUS
<1>4. Listing(L)
  <2>1. DOMAIN L \subseteq HostNames /\ \A x \in DOMAIN L : L[x] \in Names
    BY <1>2, <1>3 DEF IInv, TypeOK
  <2> QED BY <2>1 DEF Listing
<1>5. live' = live /\ hosts' = hosts /\ rows' = rows
  BY DEF Probe
<1>6. live' \in [Machines -> Names] /\ hosts' \subseteq Host /\ Apart' /\ Consistent(rows')
  BY <1>5 DEF IInv, TypeOK, Apart, Consistent
<1>7. found' = [found EXCEPT ![s] = L]
  BY <1>1
<1> HIDE DEF L
<1>8. IInv'
  BY <1>4, <1>6, <1>7, NewListing, Assemble
<1> QED BY <1>5, <1>8 DEF Stuck

(* A session: the result is used up, the hosts stay, and the rows are      *)
(* consistent afterwards.                                                  *)
LEMMA SessionPreserves ==
  ASSUME IInv, NEW s \in Scanners, found' = [found EXCEPT ![s] = Idle],
         live' = live, hosts' = hosts, Consistent(rows'),
         \A r \in rows \ Pending(rows) : r \in rows'
  PROVE  IInv' /\ Stuck
<1>1. live' \in [Machines -> Names] /\ hosts' \subseteq Host /\ Apart'
  BY DEF IInv, TypeOK, Apart
<1>2. Listings' /\ \A z \in Scanners : found'[z] # Idle => Listing(found'[z])
  BY NewListing
<1>3. IInv'
  BY <1>1, <1>2, Assemble
<1> QED BY <1>3 DEF Stuck

(* What the domain of a result says of its values. *)
LEMMA InHand ==
  ASSUME IInv, NEW s \in Scanners, found[s] # Idle
  PROVE  /\ DOMAIN found[s] \subseteq Guests => FoundBy(Guests, found[s])
         /\ DOMAIN found[s] \subseteq Machines \ Guests => FoundBy(Machines \ Guests, found[s])
         /\ DOMAIN found[s] \subseteq HostNames => \A x \in DOMAIN found[s] : found[s][x] \in Names
<1> DEFINE L == found[s]
<1>1. CASE /\ DOMAIN L \subseteq Guests \/ DOMAIN L \subseteq HostNames
           /\ \A x \in DOMAIN L : L[x] \in Names
  BY <1>1, DiscoveryAssumption DEF FoundBy
<1>2. CASE L \in UNION {[M -> {NoName}] : M \in SUBSET (Machines \ Guests)}
  <2>1. DOMAIN L \subseteq Machines \ Guests /\ \A x \in DOMAIN L : L[x] = NoName
    BY <1>2
  <2> HIDE DEF L
  <2>2. /\ DOMAIN L \subseteq Guests => FoundBy(Guests, L)
        /\ DOMAIN L \subseteq Machines \ Guests => FoundBy(Machines \ Guests, L)
        /\ DOMAIN L \subseteq HostNames => \A x \in DOMAIN L : L[x] \in Names
    BY <2>1, DiscoveryAssumption DEF FoundBy
  <2> QED BY <2>2 DEF L
<1> QED BY <1>1, <1>2 DEF IInv, TypeOK

LEMMA ScansPreserves ==
  ASSUME IInv, NEW s \in Scanners, Scans(s)
  PROVE  IInv' /\ Stuck
<1> DEFINE L == found[s]
           H == {h \in hosts : h.machine \in DOMAIN L}
           N == ReconcileNames(rows, H, [h \in H |-> L[h.machine]])
<1>1. Consistent(rows)
  BY DEF IInv, TypeOK, Consistent
<1>2. FoundBy(Guests, L) /\ \A m \in DOMAIN L : L[m] \in Names
  <2>1. DOMAIN L \subseteq Guests /\ FoundBy(Guests, L)
    BY InHand DEF Scans
  <2> QED BY <2>1 DEF FoundBy, IInv, TypeOK
<1>3. H \in SUBSET Host /\ \A h, k \in H : h.id = k.id => h = k
  BY DEF IInv, TypeOK, Apart
<1>4. [h \in H |-> L[h.machine]] \in [H -> Names]
  BY <1>2
<1> HIDE DEF H
<1>5. Consistent(N) /\ \A r \in rows \ Pending(rows) : r \in N
  BY <1>1, <1>3, <1>4, ManyHosts
<1>6. rows' = ReconcileMachines(N, Guests, L)
  BY DEF Scans, AfterScan, H
<1> HIDE DEF N, L
<1>7. Consistent(rows') /\ \A r \in N \ Pending(N) : r \in rows'
  BY <1>2, <1>5, <1>6, ManyMachines
<1>8. \A r \in rows \ Pending(rows) : r \in rows'
  BY <1>5, <1>7 DEF Pending
<1> QED BY <1>7, <1>8, SessionPreserves DEF Scans

LEMMA SweepsPreserves ==
  ASSUME IInv, NEW s \in Scanners, Sweeps(s)
  PROVE  IInv' /\ Stuck
<1>1. Consistent(rows)
  BY DEF IInv, TypeOK, Consistent
<1>2. FoundBy(Machines \ Guests, found[s])
  BY InHand DEF Sweeps
<1>3. rows' = ReconcileMachines(rows, Machines \ Guests, found[s])
  BY DEF Sweeps
<1>4. Consistent(rows') /\ \A r \in rows \ Pending(rows) : r \in rows'
  BY <1>1, <1>2, <1>3, ManyMachines
<1> QED BY <1>4, SessionPreserves DEF Sweeps

LEMMA ReportsPreserves ==
  ASSUME IInv, NEW s \in Scanners, Reports(s)
  PROVE  IInv' /\ Stuck
<1> DEFINE L == found[s]
           H == {h \in hosts : h.name \in DOMAIN L /\ h.machine \notin Guests}
<1>1. Consistent(rows)
  BY DEF IInv, TypeOK, Consistent
<1>2. \A x \in DOMAIN L : L[x] \in Names
  BY InHand DEF Reports
<1>3. H \in SUBSET Host /\ \A h, k \in H : h.id = k.id => h = k
  BY DEF IInv, TypeOK, Apart
<1>4. [h \in H |-> L[h.name]] \in [H -> Names]
  BY <1>2
<1>5. rows' = ReconcileNames(rows, H, [h \in H |-> L[h.name]])
  BY DEF Reports
<1> HIDE DEF H, L
<1>6. Consistent(rows') /\ \A r \in rows \ Pending(rows) : r \in rows'
  BY <1>1, <1>3, <1>4, <1>5, ManyHosts
<1> QED BY <1>6, SessionPreserves DEF Reports

(* A decision, or an edit of the hosts: nobody's result changes.           *)
LEMMA EditPreserves ==
  ASSUME IInv, UNCHANGED <<live, found>>, hosts' \subseteq Host, Apart', Consistent(rows')
  PROVE  IInv'
<1>1. live' \in [Machines -> Names] /\ Listings'
  BY DEF IInv, TypeOK, Listings
<1>2. \A s \in Scanners : found'[s] # Idle => Listing(found'[s])
  BY DEF IInv, TypeOK, Listing
<1> QED BY <1>1, <1>2, Assemble

LEMMA RowsConsistent ==
  ASSUME IInv
  PROVE  Consistent(rows) /\ hosts \subseteq Host /\ Apart
BY DEF IInv, TypeOK, Consistent

LEMMA ConfirmMachinePreserves ==
  ASSUME IInv, NEW r \in rows, ConfirmMachine(r)
  PROVE  IInv' /\ Stuck
<1>1. r \in Pending(rows) /\ "confirmed" \in Statuses \ {"pending"} /\ r \in Row
  BY RowsConsistent DEF ConfirmMachine, Statuses, Consistent
<1>2. rows' = Decided(r, "confirmed")
  BY DEF ConfirmMachine
<1>3. Consistent(rows') /\ \A x \in rows \ Pending(rows) : x \in rows'
  BY <1>1, <1>2, RowsConsistent, DecidedRows
<1>4. hosts' \subseteq Host /\ Apart'
  <2>1. CASE r.of \in Guests \ Registered
    <3>1. CreateGuest(r.of, r.new)
      BY <2>1 DEF ConfirmMachine
    <3>2. r.new \in Names
      BY <1>1, <2>1, RowFields DEF ConfirmMachine
    <3> QED BY <2>1, <3>1, <3>2, RowsConsistent, CreatedGuest
  <2>2. CASE r.of \notin Guests \ Registered
    BY <2>2, RowsConsistent DEF ConfirmMachine, Apart
  <2> QED BY <2>1, <2>2
<1>5. IInv'
  BY <1>3, <1>4, EditPreserves DEF ConfirmMachine
<1> QED BY <1>3, <1>5 DEF Stuck

LEMMA ConfirmNamePreserves ==
  ASSUME IInv, NEW r \in rows, ConfirmName(r)
  PROVE  IInv' /\ Stuck
<1>1. r \in Pending(rows) /\ "confirmed" \in Statuses \ {"pending"} /\ r \in Row
  BY RowsConsistent DEF ConfirmName, Statuses, Consistent
<1>2. rows' = Decided(r, "confirmed")
  BY DEF ConfirmName
<1>3. Consistent(rows') /\ \A x \in rows \ Pending(rows) : x \in rows'
  BY <1>1, <1>2, RowsConsistent, DecidedRows
<1>4. PICK h \in hosts :
        hosts' = (hosts \ {h}) \cup
          {[h EXCEPT !.name = Distinct(r.new, Suffix(h), {k.name : k \in hosts \ {h}})]}
  BY DEF ConfirmName
<1> DEFINE x == Distinct(r.new, Suffix(h), {k.name : k \in hosts \ {h}})
<1>5. h \in Host /\ Suffix(h) \in Machines \cup HostIds /\ r.new \in Names
  BY <1>1, RowsConsistent, RowFields DEF Host, Suffix, ConfirmName
<1>6. x \in HostNames
  BY <1>5, DistinctName
<1>7. hosts' = (hosts \ {h}) \cup {[h EXCEPT !.name = x]}
  BY <1>4
<1> HIDE DEF x
<1>8. [h EXCEPT !.name = x] \in Host /\ [h EXCEPT !.name = x].id = h.id
  BY <1>5, <1>6 DEF Host
<1>9. hosts' \subseteq Host /\ Apart'
  <2>1. PICK k \in Host : k.id = h.id /\ hosts' = (hosts \ {h}) \cup {k}
    BY <1>7, <1>8
  <2>2. \A g \in hosts \ {h} : g.id # k.id
    BY <2>1, RowsConsistent DEF Apart
  <2> QED BY <2>1, <2>2, RowsConsistent DEF Apart
<1>10. IInv'
  BY <1>3, <1>9, EditPreserves DEF ConfirmName
<1> QED BY <1>3, <1>10 DEF Stuck

LEMMA IgnorePreserves ==
  ASSUME IInv, NEW r \in rows, Ignore(r)
  PROVE  IInv' /\ Stuck
<1>1. r \in Pending(rows) /\ "ignored" \in Statuses \ {"pending"}
  BY DEF Ignore, Statuses
<1>2. rows' = Decided(r, "ignored") /\ hosts' = hosts
  BY DEF Ignore
<1>3. Consistent(rows') /\ \A x \in rows \ Pending(rows) : x \in rows'
  BY <1>1, <1>2, RowsConsistent, DecidedRows
<1>4. hosts' \subseteq Host /\ Apart'
  BY <1>2, RowsConsistent DEF Apart
<1>5. IInv'
  BY <1>3, <1>4, EditPreserves DEF Ignore
<1> QED BY <1>3, <1>5 DEF Stuck

LEMMA PickPreserves ==
  ASSUME IInv, NEW g \in Guests, Pick(g)
  PROVE  IInv' /\ Stuck
<1>1. live[g] \in Names
  BY DiscoveryAssumption DEF IInv, TypeOK
<1>2. CreateGuest(g, live[g]) /\ rows' = rows
  BY DEF Pick
<1>3. hosts' \subseteq Host /\ Apart'
  BY <1>1, <1>2, RowsConsistent, CreatedGuest
<1>4. Consistent(rows')
  BY <1>2, RowsConsistent
<1>5. IInv'
  BY <1>3, <1>4, EditPreserves DEF Pick
<1> QED BY <1>2, <1>5 DEF Stuck

LEMMA AddHostPreserves ==
  ASSUME IInv, NEW m \in Machines, NEW n \in Names, AddHost(m, n)
  PROVE  IInv' /\ Stuck
<1>1. PICK i \in FreeIds : hosts' = hosts \cup {[id |-> i, machine |-> m, name |-> n]}
  BY DEF AddHost
<1>2. n \in HostNames
  BY DEF HostNames
<1>3. hosts' \subseteq Host /\ Apart'
  BY <1>1, <1>2, RowsConsistent, AddedHost
<1>4. Consistent(rows') /\ \A x \in rows \ Pending(rows) : x \in rows'
  <2>1. CASE rows' = rows
    BY <2>1, RowsConsistent
  <2>2. CASE \E r \in Pending(rows) : rows' = Decided(r, "confirmed")
    <3>1. PICK r \in Pending(rows) : rows' = Decided(r, "confirmed")
      BY <2>2
    <3>2. "confirmed" \in Statuses \ {"pending"}
      BY DEF Statuses
    <3> QED BY <3>1, <3>2, RowsConsistent, DecidedRows
  <2> QED BY <2>1, <2>2 DEF AddHost
<1>5. IInv'
  BY <1>3, <1>4, EditPreserves DEF AddHost
<1> QED BY <1>4, <1>5 DEF Stuck

LEMMA DeleteHostPreserves ==
  ASSUME IInv, NEW h \in hosts, DeleteHost(h)
  PROVE  IInv' /\ Stuck
<1>1. hosts' = hosts \ {h} /\ rows' = rows \ Mine(rows, h)
  BY DEF DeleteHost
<1>2. hosts' \subseteq Host /\ Apart'
  BY <1>1, RowsConsistent DEF Apart
<1>3. Consistent(rows')
  BY <1>1, RowsConsistent DEF Consistent, One, Quiet, Pending
<1>4. IInv'
  BY <1>2, <1>3, EditPreserves DEF DeleteHost
<1>5. h.id \notin {k.id : k \in hosts'}
  BY <1>1, RowsConsistent DEF Apart
<1>6. Stuck
  BY <1>1, <1>5 DEF Stuck, Mine
<1> QED BY <1>4, <1>6

-----------------------------------------------------------------------------
(* The specification *)

LEMMA InitEstablishes == Init => IInv
<1> SUFFICES ASSUME Init PROVE IInv
  OBVIOUS
<1>1. found = [s \in Scanners |-> Idle]
  BY DEF Init
<1>2. Listings /\ \A s \in Scanners : found[s] = Idle
  BY <1>1 DEF Listings
<1> QED BY <1>2 DEF Init, IInv, TypeOK, Apart, One, Quiet, Pending

LEMMA StepPreserves == IInv /\ [Next]_vars => IInv' /\ Stuck
<1> SUFFICES ASSUME IInv, [Next]_vars PROVE IInv' /\ Stuck
  OBVIOUS
<1>1. CASE UNCHANGED vars
  BY <1>1 DEF vars, IInv, TypeOK, Listings, Apart, One, Quiet, Pending, Stuck
<1>2. ASSUME NEW m \in Machines, NEW n \in Names, Renamed(m, n) PROVE IInv' /\ Stuck
  BY <1>2, RenamedPreserves
<1>3. ASSUME NEW m \in Machines, NEW n \in Names, AddHost(m, n) PROVE IInv' /\ Stuck
  BY <1>3, AddHostPreserves
<1>4. ASSUME NEW s \in Scanners, List(s) PROVE IInv' /\ Stuck
  BY <1>4, ListPreserves
<1>5. ASSUME NEW s \in Scanners, Scans(s) PROVE IInv' /\ Stuck
  BY <1>5, ScansPreserves
<1>6. ASSUME NEW s \in Scanners, Sweep(s) PROVE IInv' /\ Stuck
  BY <1>6, SweepPreserves
<1>7. ASSUME NEW s \in Scanners, Sweeps(s) PROVE IInv' /\ Stuck
  BY <1>7, SweepsPreserves
<1>8. ASSUME NEW s \in Scanners, Probe(s) PROVE IInv' /\ Stuck
  BY <1>8, ProbePreserves
<1>9. ASSUME NEW s \in Scanners, Reports(s) PROVE IInv' /\ Stuck
  BY <1>9, ReportsPreserves
<1>10. ASSUME NEW r \in rows, ConfirmMachine(r) PROVE IInv' /\ Stuck
  BY <1>10, ConfirmMachinePreserves
<1>11. ASSUME NEW r \in rows, ConfirmName(r) PROVE IInv' /\ Stuck
  BY <1>11, ConfirmNamePreserves
<1>12. ASSUME NEW r \in rows, Ignore(r) PROVE IInv' /\ Stuck
  BY <1>12, IgnorePreserves
<1>13. ASSUME NEW g \in Guests, Pick(g) PROVE IInv' /\ Stuck
  BY <1>13, PickPreserves
<1>14. ASSUME NEW h \in hosts, DeleteHost(h) PROVE IInv' /\ Stuck
  BY <1>14, DeleteHostPreserves
<1> QED
  BY <1>1, <1>2, <1>3, <1>4, <1>5, <1>6, <1>7, <1>8, <1>9, <1>10, <1>11, <1>12, <1>13, <1>14
  DEF Next

LEMMA AlwaysIInv == Spec => []IInv
<1>1. IInv /\ [Next]_vars => IInv'
  BY StepPreserves
<1> QED BY InitEstablishes, <1>1, PTL DEF Spec

(* Machines, hosts, rows and results keep their types, whatever is found,  *)
(* renamed, registered or decided (discovery.py, routers/hosts.py).        *)
THEOREM TypeCorrect == Spec => []TypeOK
<1>1. IInv => TypeOK
  BY DEF IInv
<1> QED BY AlwaysIInv, <1>1, PTL

(* The question a host or a machine has open is its only one, for any      *)
(* number of them (discovery.py:244, the dedup in application code).       *)
THEOREM OneQuestion == Spec => []OneQuestionPerMachine
<1>1. ASSUME NEW S, \A x, y \in S : x = y
      PROVE  Cardinality(S) <= 1
  <2>1. CASE S = {}
    BY <2>1, FS_EmptySet
  <2>2. CASE S # {}
    <3>1. PICK x : x \in S
      BY <2>2
    <3>2. S = {x}
      BY <1>1, <3>1
    <3> QED BY <3>2, FS_Singleton
  <2> QED BY <2>1, <2>2
<1>2. IInv => OneQuestionPerMachine
  <2> SUFFICES ASSUME IInv PROVE OneQuestionPerMachine
    OBVIOUS
  <2>1. \A h \in hosts : \A x, y \in Pending(Mine(rows, h)) : x = y
    BY DEF IInv, One, Pending, Mine
  <2>2. \A m \in Machines : \A x, y \in {r \in rows : r.kind = "new_host" /\ r.of = m} : x = y
    BY DEF IInv, One
  <2> QED BY <1>1, <2>1, <2>2 DEF OneQuestionPerMachine
<1> QED BY AlwaysIInv, <1>2, PTL

(* What was ignored is not asked again (models.py:386-388), for any number *)
(* of machines, however scans, probes and decisions follow each other.     *)
THEOREM IgnoredIsQuiet == Spec => []IgnoredStaysQuiet
<1>1. IInv => IgnoredStaysQuiet
  BY DEF IInv, Quiet, IgnoredStaysQuiet
<1> QED BY AlwaysIInv, <1>1, PTL

(* Confirmed and ignored rows are history: no step changes or drops one,   *)
(* unless its host is deleted (discovery.py:15).                           *)
THEOREM DecisionsAreKept == Spec => DecisionsStick
<1> DEFINE A == \A r \in rows \ Pending(rows) :
                  \/ r \in rows'
                  \/ r.kind = "name_change" /\ r.of \notin {h.id : h \in hosts'}
<1>1. IInv /\ [Next]_vars => [A]_vars
  BY StepPreserves DEF Stuck
<1> QED BY AlwaysIInv, <1>1, PTL DEF Spec, DecisionsStick
=============================================================================
