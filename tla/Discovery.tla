----------------------------- MODULE Discovery -----------------------------
(***************************************************************************)
(* Discoveries (discovery.py, the host routes of routers/hosts.py): what   *)
(* scans and probes find out about the fleet, and what administrators      *)
(* decide about it.                                                        *)
(*                                                                         *)
(* Listing the guests, sweeping the network and probing the hosts take     *)
(* seconds or minutes and come before the rows are read and written, so    *)
(* they are steps of their own; the rest of a session, and a request, are  *)
(* one step.  A machine that is no guest stands for its address.           *)
(* Timestamps, audit rows and the node of a guest are left out.            *)
(***************************************************************************)
EXTENDS Integers, FiniteSets

CONSTANTS
  Guests,    \* the vmids of the Proxmox node
  Machines,  \* what hosts can be registered for: guests and others
  HostIds,   \* bound: rows of the servers table
  Names,     \* host names
  Scanners,  \* the scheduler child and the threads of the panel
  MaxRows,   \* bound: discovery rows (identical history rows count once)
  NoName,    \* no name
  Idle       \* a scanner with no result in hand

(* A name that was taken is followed by a vmid or by a server id. *)
Suffixed == Names \X (Machines \cup HostIds)
HostNames == Names \cup Suffixed

ASSUME DiscoveryAssumption ==
  /\ Guests \subseteq Machines
  /\ Machines \cap HostNames = {}
  /\ MaxRows \in Nat
  /\ NoName \notin Names

VARIABLES
  live,   \* the name each machine has at present
  hosts,  \* servers: id, machine (by vmid or by address), name
  rows,   \* discoveries
  found   \* what a scanner has listed and not yet reconciled

vars == <<live, hosts, rows, found>>

Host == [id : HostIds, machine : Machines, name : HostNames]

Statuses == {"pending", "confirmed", "ignored"}
Row ==
  [kind : {"new_host"}, status : Statuses, of : Guests, old : {NoName}, new : Names]
    \cup
  [kind : {"new_host"}, status : Statuses, of : Machines \ Guests,
   old : {NoName}, new : {NoName}]
    \cup
  [kind : {"name_change"}, status : Statuses, of : HostIds, old : HostNames, new : Names]

Pending(R) == {r \in R : r.status = "pending"}
Registered == {h.machine : h \in hosts}
Taken == {h.name : h \in hosts}
Bounded(R) == Cardinality(R) <= MaxRows

Init ==
  /\ live \in [Machines -> Names]
  /\ hosts = {}
  /\ rows = {}
  /\ found = [s \in Scanners |-> Idle]

(* Somebody renames a container, or changes the hostname of a host. *)
Renamed(m, n) ==
  /\ live' = [live EXCEPT ![m] = n]
  /\ UNCHANGED <<hosts, rows, found>>

-----------------------------------------------------------------------------
(* Reconciling one host with the name it was found to have. *)

Mine(R, h) == {r \in R : r.kind = "name_change" /\ r.of = h.id}

Change(h, n, st) ==
  [kind |-> "name_change", status |-> st, of |-> h.id, old |-> h.name, new |-> n]

(* Mutant: ignored transitions are not looked up. *)
NeverIgnored(R, h, n) == FALSE

(* Only exactly this transition, once ignored, is not brought up again. *)
Ignored(R, h, n) == Change(h, n, "ignored") \in R

(* Mutant: a row is added beside the pending one. *)
RefreshedByAdding(R, h, n) == Pending(Mine(R, h)) \cup {Change(h, n, "pending")}

(* The pending row is refreshed if there is one. *)
Refreshed(R, h, n) ==
  IF Pending(Mine(R, h)) = {} THEN {Change(h, n, "pending")}
  ELSE LET first == CHOOSE r \in Pending(Mine(R, h)) : TRUE
       IN  (Pending(Mine(R, h)) \ {first}) \cup {Change(h, n, "pending")}

ReconcileName(R, h, n) ==
  LET others == R \ Pending(Mine(R, h))
  IN  IF n = h.name THEN others
      ELSE IF Ignored(R, h, n) THEN R
      ELSE others \cup Refreshed(R, h, n)

(* For each host of H; a row belongs to one host, so the order is free. *)
ReconcileNames(R, H, name) ==
  {r \in R : r.status # "pending" \/ \A h \in H : r \notin Mine(R, h)}
    \cup UNION {Pending(Mine(ReconcileName(R, h, name[h]), h)) : h \in H}

-----------------------------------------------------------------------------
(* run_discovery *)

(* pct list and qm list: each may fail, and then its guests are missing;   *)
(* with nothing listed the scan ends at once.                              *)
List(s) ==
  /\ found[s] = Idle
  /\ \E L \in SUBSET Guests \ {{}} : found' = [found EXCEPT ![s] = [g \in L |-> live[g]]]
  /\ UNCHANGED <<live, hosts, rows>>

Found(m, n) ==
  [kind |-> "new_host", status |-> "pending", of |-> m, old |-> NoName, new |-> n]

Known(R, m) == \E r \in R : r.kind = "new_host" /\ r.of = m

(* Mutant: rows already decided are refreshed like pending ones. *)
TreatedWhateverDecided(r, S, L) ==
  IF r.kind # "new_host" \/ r.of \notin S THEN r
  ELSE IF r.of \in Registered THEN [r EXCEPT !.status = "confirmed"]
  ELSE IF r.of \in DOMAIN L THEN [r EXCEPT !.new = L[r.of]]
  ELSE r

(* A pending machine of the source is refreshed, or confirmed if it has    *)
(* become a host.                                                          *)
Treated(r, S, L) ==
  IF r.kind # "new_host" \/ r.status # "pending" \/ r.of \notin S THEN r
  ELSE IF r.of \in Registered THEN [r EXCEPT !.status = "confirmed"]
  ELSE IF r.of \in DOMAIN L THEN [r EXCEPT !.new = L[r.of]]
  ELSE r

(* S are the machines the source can find, L those it has found. *)
ReconcileMachines(R, S, L) ==
  {Treated(r, S, L) : r \in R}
    \cup {Found(m, L[m]) : m \in {m \in DOMAIN L \ Registered : ~Known(R, m)}}

AfterScan(L) ==
  LET H == {h \in hosts : h.machine \in DOMAIN L}
  IN  ReconcileMachines(ReconcileNames(rows, H, [h \in H |-> L[h.machine]]), Guests, L)

Scans(s) ==
  /\ found[s] # Idle /\ DOMAIN found[s] \subseteq Guests
  /\ rows' = AfterScan(found[s])
  /\ Bounded(rows')
  /\ found' = [found EXCEPT ![s] = Idle]
  /\ UNCHANGED <<live, hosts>>

-----------------------------------------------------------------------------
(* run_network_scan: any of the addresses may answer; the name of a row is *)
(* only offered in a form.                                                 *)

Sweep(s) ==
  /\ found[s] = Idle
  /\ \E L \in SUBSET (Machines \ Guests) \ {{}} :
       found' = [found EXCEPT ![s] = [m \in L |-> NoName]]
  /\ UNCHANGED <<live, hosts, rows>>

Sweeps(s) ==
  /\ found[s] # Idle /\ DOMAIN found[s] \subseteq Machines \ Guests
  /\ rows' = ReconcileMachines(rows, Machines \ Guests, found[s])
  /\ Bounded(rows')
  /\ found' = [found EXCEPT ![s] = Idle]
  /\ UNCHANGED <<live, hosts>>

-----------------------------------------------------------------------------
(* A probe, or any run of ansible, reports the hostnames of the hosts it   *)
(* reached, under the names the hosts had when it began.  The names of     *)
(* guests are left to the scan.                                            *)

Probe(s) ==
  /\ found[s] = Idle
  /\ \E H \in SUBSET hosts \ {{}} :
       found' = [found EXCEPT ![s] = [x \in {h.name : h \in H} |->
                   live[(CHOOSE h \in H : h.name = x).machine]]]
  /\ UNCHANGED <<live, hosts, rows>>

Reports(s) ==
  /\ found[s] # Idle /\ DOMAIN found[s] \subseteq HostNames
  /\ LET H == {h \in hosts : h.name \in DOMAIN found[s] /\ h.machine \notin Guests}
     IN  rows' = ReconcileNames(rows, H, [h \in H |-> found[s][h.name]])
  /\ Bounded(rows')
  /\ found' = [found EXCEPT ![s] = Idle]
  /\ UNCHANGED <<live, hosts>>

-----------------------------------------------------------------------------
(* Decisions *)

Decided(r, st) == (rows \ {r}) \cup {[r EXCEPT !.status = st]}

FreeIds == HostIds \ {h.id : h \in hosts}

(* The name of a guest gets its vmid for a suffix if it is taken; if that  *)
(* is taken too, the unique constraint undoes the request.                 *)
Distinct(n, suffix, taken) == IF n \in taken THEN <<n, suffix>> ELSE n

CreateGuest(g, n) ==
  LET name == Distinct(n, g, Taken)
  IN  /\ name \notin Taken
      /\ \E i \in FreeIds : hosts' = hosts \cup {[id |-> i, machine |-> g, name |-> name]}

(* There is nothing to create from an address. *)
ConfirmMachine(r) ==
  /\ r \in Pending(rows) /\ r.kind = "new_host"
  /\ IF r.of \in Guests \ Registered THEN CreateGuest(r.of, r.new) ELSE UNCHANGED hosts
  /\ rows' = Decided(r, "confirmed")
  /\ UNCHANGED <<live, found>>

Suffix(h) == IF h.machine \in Guests THEN h.machine ELSE h.id

ConfirmName(r) ==
  /\ r \in Pending(rows) /\ r.kind = "name_change"
  /\ \E h \in hosts :
       LET others == {k.name : k \in hosts \ {h}}
           name == Distinct(r.new, Suffix(h), others)
       IN  /\ h.id = r.of /\ name \notin others
           /\ hosts' = (hosts \ {h}) \cup {[h EXCEPT !.name = name]}
  /\ rows' = Decided(r, "confirmed")
  /\ UNCHANGED <<live, found>>

Ignore(r) ==
  /\ r \in Pending(rows)
  /\ rows' = Decided(r, "ignored")
  /\ UNCHANGED <<live, hosts, found>>

(* The picker registers containers and leaves the rows to the next scan. *)
Pick(g) ==
  /\ g \notin Registered
  /\ CreateGuest(g, live[g])
  /\ UNCHANGED <<live, rows, found>>

(* The pending discovery of a vmid. *)
ByVmid(m) == {r \in Pending(rows) : m \in Guests /\ r.kind = "new_host" /\ r.of = m}

(* The Add-host form takes any vmid or address and any free name.  It      *)
(* confirms the discovery whose id it carries, of whatever kind and machine*)
(* (its fields may have been edited since), or without one that of the     *)
(* vmid; a discovery that has been decided stays as it is.                 *)
AddHost(m, n) ==
  /\ n \notin Taken
  /\ \E i \in FreeIds : hosts' = hosts \cup {[id |-> i, machine |-> m, name |-> n]}
  /\ \/ \E r \in Pending(rows) : rows' = Decided(r, "confirmed")
     \/ rows' = rows /\ (ByVmid(m) = {} \/ rows # Pending(rows))
  /\ UNCHANGED <<live, found>>

(* The rows of its name changes go with a host. *)
DeleteHost(h) ==
  /\ hosts' = hosts \ {h}
  /\ rows' = rows \ Mine(rows, h)
  /\ UNCHANGED <<live, found>>

Next ==
  \/ \E m \in Machines, n \in Names : Renamed(m, n) \/ AddHost(m, n)
  \/ \E s \in Scanners : List(s) \/ Scans(s) \/ Sweep(s) \/ Sweeps(s) \/ Probe(s) \/ Reports(s)
  \/ \E r \in rows : ConfirmMachine(r) \/ ConfirmName(r) \/ Ignore(r)
  \/ \E g \in Guests : Pick(g)
  \/ \E h \in hosts : DeleteHost(h)

Spec == Init /\ [][Next]_vars

-----------------------------------------------------------------------------

TypeOK ==
  /\ live \in [Machines -> Names]
  /\ hosts \subseteq Host
  /\ rows \subseteq Row
  /\ \A s \in Scanners : found[s] # Idle =>
       \/ /\ DOMAIN found[s] \subseteq Guests \/ DOMAIN found[s] \subseteq HostNames
          /\ \A x \in DOMAIN found[s] : found[s][x] \in Names
       \/ found[s] \in UNION {[L -> {NoName}] : L \in SUBSET (Machines \ Guests)}

(* "Keeps at most one *pending* name_change per host", and one discovery   *)
(* of a machine, decided or not: the dedup "is done in application code".  *)
OneQuestionPerMachine ==
  /\ \A h \in hosts : Cardinality(Pending(Mine(rows, h))) <= 1
  /\ \A m \in Machines : Cardinality({r \in rows : r.kind = "new_host" /\ r.of = m}) <= 1

(* "Confirmed/ignored rows are retained as history": whatever is scanned,  *)
(* probed, decided or added later, a decision neither changes nor goes,    *)
(* but with the host it is about.                                          *)
DecisionsStick ==
  [][\A r \in rows \ Pending(rows) :
       \/ r \in rows'
       \/ r.kind = "name_change" /\ r.of \notin {h.id : h \in hosts'}]_vars

(* "ignoring records the decision so a recurring identical event is a      *)
(* no-op": no pending question repeats one that was ignored.               *)
IgnoredStaysQuiet ==
  \A r \in Pending(rows) : [r EXCEPT !.status = "ignored"] \notin rows

(* "always reflecting the latest live target": what a scan leaves pending  *)
(* for a guest it has listed is the name it has listed.                    *)
PendingReflectsLive ==
  [][\A s \in Scanners : Scans(s) =>
       \A h \in hosts : h.machine \in DOMAIN found[s] =>
         \A r \in Pending(Mine(rows', h)) : r.new = found[s][h.machine]]_vars
=============================================================================
