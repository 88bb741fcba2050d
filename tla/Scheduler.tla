----------------------------- MODULE Scheduler -----------------------------
(***************************************************************************)
(* The scheduler child process (scheduler.py) and its manager in the       *)
(* panel.  A child polls the schedules table; one tick is one SQLAlchemy   *)
(* session, in which the loaded rows stay as they were read, the new       *)
(* next_run_at of a schedule that has fired is only a pending change, the  *)
(* queries for the next schedule flush the pending changes (and so take    *)
(* SQLite's write lock), headless.run_now commits them with its own rows,  *)
(* and an exception rolls them back.  The panel starts, stops and restarts *)
(* the child, which it knows by a Popen handle and by a pidfile.           *)
(*                                                                         *)
(* What a run does to the hosts is HostRuns' subject.  The housekeeping,   *)
(* discovery and probe steps that follow a tick have sessions of their own *)
(* and are not part of this module.                                        *)
(***************************************************************************)
EXTENDS Integers

CONSTANTS
  MaxPid,        \* bound: children ever spawned
  MaxSchedules,  \* rows of the schedules table
  Scans,         \* the schedules whose action is network_scan
  UnderSystemd,  \* does a restart of the panel take its children with it?
  MaxDue,        \* bound: how often a next_run_at is reached
  MaxEdits,      \* bound: rows toggled, deleted and added
  MaxFaults      \* bound: crashes of a child

ASSUME SchedulerAssumption ==
  /\ MaxPid \in Nat \ {0}
  /\ MaxSchedules \in Nat \ {0}
  /\ Scans \subseteq 1..MaxSchedules
  /\ UnderSystemd \in BOOLEAN
  /\ MaxDue \in Nat /\ MaxEdits \in Nat /\ MaxFaults \in Nat

VARIABLES
  row,      \* schedules, as committed
  db,       \* the child whose tick holds SQLite's write lock, 0 if none
  pc,       \* where each child is
  stopping, \* the children whose running["stop"] is set
  todo,     \* the loaded schedules a tick has still to look at
  fresh,    \* those that were loaded without a next_run_at
  pend,     \* the schedules whose new next_run_at is not committed
  pidfile,  \* scheduler.pid, 0 if absent
  handle,   \* SchedulerProcess._proc, 0 if None
  admin,    \* is a restart between its stop() and its ensure_running()?
  ran,      \* what each child has run since that schedule became due, less
            \* what a rollback has made it forget (only for NoRefire)
  budget    \* what is left of the bounds

table == <<row, db>>
session == <<todo, fresh, pend, ran>>
manager == <<pidfile, handle, admin>>
vars == <<table, session, manager, pc, stopping, budget>>

Pids == 1..MaxPid
Schedules == 1..MaxSchedules

Bounds == {"due", "edits", "faults"}

(* "off": disabled; "new": enabled, next_run_at is NULL; "due" and         *)
(* "later": enabled, next_run_at is reached or not.                        *)
RowStates == {"absent", "off", "new", "due", "later"}

Alive(procs, p) == p # 0 /\ procs[p] \notin {"none", "gone"}

(* SchedulerProcess.status: the handle first, then the pidfile. *)
StatusOf(procs, known, file) ==
  IF Alive(procs, known) THEN known ELSE IF Alive(procs, file) THEN file ELSE 0

Status == StatusOf(pc, handle, pidfile)

NextPid(p) == pc[p] = "none" /\ \A q \in Pids : q < p => pc[q] # "none"

(* SchedulerProcess.ensure_running, from what it knows and finds. *)
EnsureRunning(procs, known, file) ==
  \/ /\ StatusOf(procs, known, file) # 0
     /\ pc' = procs
     /\ handle' = known
  \/ /\ StatusOf(procs, known, file) = 0
     /\ \E p \in Pids : /\ NextPid(p)
                        /\ pc' = [procs EXCEPT ![p] = "booting"]
                        /\ handle' = p

(* The seeded schedules, and those an admin has added before.  The panel    *)
(* has just called ensure_running.                                         *)
Init ==
  /\ row = [s \in Schedules |-> "new"]
  /\ db = 0
  /\ pc = [p \in Pids |-> IF p = 1 THEN "booting" ELSE "none"]
  /\ stopping = {}
  /\ todo = [p \in Pids |-> {}]
  /\ fresh = [p \in Pids |-> {}]
  /\ pend = [p \in Pids |-> {}]
  /\ pidfile = 0
  /\ handle = 1
  /\ admin = "idle"
  /\ ran = [p \in Pids |-> {}]
  /\ budget = [b \in Bounds |-> IF b = "due" THEN MaxDue
                                ELSE IF b = "edits" THEN MaxEdits ELSE MaxFaults]

Spend(what) ==
  /\ budget[what] > 0
  /\ budget' = [budget EXCEPT ![what] = @ - 1]
-----------------------------------------------------------------------------
(* The loop of a child.                                                    *)

(* Up to the first poll: the pidfile is written, then the handlers go in.  *)
Boots(p) ==
  /\ pc[p] = "booting"
  /\ pc' = [pc EXCEPT ![p] = "loop"]
  /\ pidfile' = p
  /\ UNCHANGED <<table, session, handle, admin, stopping, budget>>

(* The rows a tick acts on; one loaded with a next_run_at in the future is *)
(* passed over and does not matter.  They are taken in rowid order.        *)
Loaded == {s \in Schedules : row[s] \in {"new", "due"}}
At(p, s) == s \in todo[p] /\ \A t \in todo[p] : s <= t

TickBegins(p) ==
  /\ pc[p] = "loop"
  /\ p \notin stopping
  /\ pc' = [pc EXCEPT ![p] = "tick"]
  /\ todo' = [todo EXCEPT ![p] = Loaded]
  /\ fresh' = [fresh EXCEPT ![p] = {s \in Schedules : row[s] = "new"}]
  /\ UNCHANGED <<table, manager, pend, ran, stopping, budget>>

(* The tick has reached a schedule that was due when it was loaded. *)
Firing(p, s) == pc[p] = "tick" /\ At(p, s) /\ s \notin fresh[p]

(* sched.next_run_at = ... : a change of the session, not yet of the row. *)
Reschedule(p, s) ==
  /\ pend' = [pend EXCEPT ![p] = @ \cup {s}]
  /\ todo' = [todo EXCEPT ![p] = @ \ {s}]
  /\ fresh' = [fresh EXCEPT ![p] = @ \ {s}]

FirstSeen(p) == \E s \in fresh[p] :
  /\ pc[p] = "tick" /\ At(p, s)
  /\ Reschedule(p, s)
  /\ UNCHANGED <<table, manager, pc, stopping, ran, budget>>

(* The write lock may be taken; else the statement waits up to 5 s.        *)
CanWrite(p) == db \in {0, p}

(* Flushing the change of a deleted row raises StaleDataError.             *)
Stale(p) == \E s \in pend[p] : row[s] = "absent"

SavedFromMissedTime(S) ==
  [s \in Schedules |-> IF s \in S /\ row[s] = "new" THEN "later" ELSE row[s]]

(* What the rows become when pending changes are committed; next_run_at    *)
(* is written whether the schedule is still enabled or not.                *)
Saved(S) == [s \in Schedules |->
  IF s \in S /\ row[s] \in {"new", "due"} THEN "later" ELSE row[s]]

Release(p) == db' = IF db = p THEN 0 ELSE db

(* The rollback of session_scope, and the loop that must not die of it.    *)
Unsaved(p) == pend[p] \cup {s \in Schedules : At(p, s)}

Abort(p) ==
  /\ pc' = [pc EXCEPT ![p] = "loop"]
  /\ todo' = [todo EXCEPT ![p] = {}]
  /\ fresh' = [fresh EXCEPT ![p] = {}]
  /\ pend' = [pend EXCEPT ![p] = {}]
  /\ ran' = [ran EXCEPT ![p] = @ \ Unsaved(p)]
  /\ Release(p)
  /\ UNCHANGED <<manager, stopping, row>>

(* A due network scan: no query of the tick's session, hence no flush;     *)
(* the scan reports through a session of its own.                          *)
ScanBegins(p) == \E s \in Scans :
  /\ Firing(p, s)
  /\ pc' = [pc EXCEPT ![p] = "scan"]
  /\ ran' = [ran EXCEPT ![p] = @ \cup {s}]
  /\ UNCHANGED <<table, manager, stopping, todo, fresh, pend, budget>>

(* What the scan raises is caught: it counts as run, whatever came of it.  *)
ScanEnds(p) == \E s \in Scans :
  /\ pc[p] = "scan" /\ At(p, s)
  /\ pc' = [pc EXCEPT ![p] = "tick"]
  /\ Reschedule(p, s)
  /\ UNCHANGED <<table, manager, stopping, ran, budget>>

NothingToRunContinues(p) == \E s \in Schedules \ Scans :
  /\ Firing(p, s)
  /\ CanWrite(p) \/ pend[p] = {}
  /\ ~Stale(p)
  /\ db' = IF pend[p] = {} THEN db ELSE p
  /\ todo' = [todo EXCEPT ![p] = @ \ {s}]
  /\ UNCHANGED <<manager, pc, stopping, row, fresh, pend, ran, budget>>

(* A due run without hosts or without plugins: resolving them has flushed  *)
(* the pending changes, and nothing commits.                               *)
NothingToRun(p) == \E s \in Schedules \ Scans :
  /\ Firing(p, s)
  /\ CanWrite(p) \/ pend[p] = {}
  /\ ~Stale(p)
  /\ db' = IF pend[p] = {} THEN db ELSE p
  /\ Reschedule(p, s)
  /\ UNCHANGED <<manager, pc, stopping, row, ran, budget>>

RunBeginsFlushing(p) == \E s \in Schedules \ Scans :
  /\ Firing(p, s)
  /\ CanWrite(p)
  /\ ~Stale(p)
  /\ db' = p
  /\ pc' = [pc EXCEPT ![p] = "run"]
  /\ ran' = [ran EXCEPT ![p] = @ \cup {s}]
  /\ UNCHANGED <<row, pend, manager, stopping, todo, fresh, budget>>

(* run_now up to the commit that precedes ansible. *)
RunBegins(p) == \E s \in Schedules \ Scans :
  /\ Firing(p, s)
  /\ CanWrite(p)
  /\ ~Stale(p)
  /\ row' = Saved(pend[p])
  /\ Release(p)
  /\ pend' = [pend EXCEPT ![p] = {}]
  /\ pc' = [pc EXCEPT ![p] = "run"]
  /\ ran' = [ran EXCEPT ![p] = @ \cup {s}]
  /\ UNCHANGED <<manager, stopping, todo, fresh, budget>>

(* ... and to its last commit, for the last host. *)
RunEnds(p) == \E s \in Schedules \ Scans :
  /\ pc[p] = "run" /\ At(p, s)
  /\ CanWrite(p)
  /\ pc' = [pc EXCEPT ![p] = "tick"]
  /\ Reschedule(p, s)
  /\ UNCHANGED <<table, manager, stopping, ran, budget>>

(* An exception at a schedule, which ends the tick: when next_run_at is    *)
(* computed from a daily_time that is no time; before a run's first commit *)
(* (a credential that cannot be decrypted, the run directory); or after    *)
(* it, at the results or at the next host.  Most recur at every tick.      *)
TickRaises(p, s) ==
  /\ At(p, s)
  /\ \/ pc[p] \in {"scan", "run"}
     \/ pc[p] = "tick" /\ (s \in fresh[p] \/ s \notin Scans)
  /\ Abort(p)
  /\ UNCHANGED budget

TickEnds(p) ==
  /\ pc[p] = "tick"
  /\ todo[p] = {}
  /\ CanWrite(p) \/ pend[p] = {}
  /\ ~Stale(p)
  /\ row' = Saved(pend[p])
  /\ Release(p)
  /\ pend' = [pend EXCEPT ![p] = {}]
  /\ pc' = [pc EXCEPT ![p] = "loop"]
  /\ UNCHANGED <<manager, stopping, todo, fresh, ran, budget>>

(* Where a tick writes, and what a deleted row or another writer does. *)
Writing(p) ==
  \/ \E s \in Schedules \ Scans : Firing(p, s)
  \/ pc[p] = "tick" /\ todo[p] = {} /\ pend[p] # {}
  \/ pc[p] = "run"

WriteFails(p) ==
  /\ Writing(p)
  /\ Stale(p) \/ ~CanWrite(p)
  /\ Abort(p)
  /\ UNCHANGED budget

(* The end of the children S, whose connections roll back.                 *)
Gone(S) ==
  /\ stopping' = stopping \ S
  /\ todo' = [p \in Pids |-> IF p \in S THEN {} ELSE todo[p]]
  /\ fresh' = [p \in Pids |-> IF p \in S THEN {} ELSE fresh[p]]
  /\ pend' = [p \in Pids |-> IF p \in S THEN {} ELSE pend[p]]
  /\ ran' = [p \in Pids |-> IF p \in S THEN {} ELSE ran[p]]
  /\ db' = IF db \in S THEN 0 ELSE db

(* SIGTERM only set a flag; the tick has been finished, and the pidfile    *)
(* goes whoever wrote it last.                                             *)
Leaves(p) ==
  /\ pc[p] = "loop"
  /\ p \in stopping
  /\ pc' = [pc EXCEPT ![p] = "gone"]
  /\ pidfile' = 0
  /\ Gone({p})
  /\ UNCHANGED <<row, handle, admin, budget>>

(* SIGHUP has its default disposition, and the kernel may kill. *)
Crashes(p) ==
  /\ Alive(pc, p)
  /\ Spend("faults")
  /\ pc' = [pc EXCEPT ![p] = "gone"]
  /\ Gone({p})
  /\ UNCHANGED <<manager, row>>
-----------------------------------------------------------------------------
(* The manager, in the panel.                                              *)

Start ==
  /\ admin = "idle"
  /\ Status = 0
  /\ EnsureRunning(pc, handle, pidfile)
  /\ UNCHANGED <<table, session, pidfile, admin, stopping, budget>>

StopChildKeepsPidfile ==
  \/ Status = 0 /\ UNCHANGED <<pc, stopping, pidfile, handle>>
  \/ /\ Status # 0
     /\ IF pc[Status] = "booting"
        THEN pc' = [pc EXCEPT ![Status] = "gone"] /\ UNCHANGED stopping
        ELSE stopping' = stopping \cup {Status} /\ UNCHANGED pc
     /\ handle' = 0
     /\ UNCHANGED pidfile

(* SchedulerProcess.stop.  A child without handlers yet dies of SIGTERM.   *)
StopChild ==
  \/ Status = 0 /\ UNCHANGED <<pc, stopping, pidfile, handle>>
  \/ /\ Status # 0
     /\ IF pc[Status] = "booting"
        THEN pc' = [pc EXCEPT ![Status] = "gone"] /\ UNCHANGED stopping
        ELSE stopping' = stopping \cup {Status} /\ UNCHANGED pc
     /\ handle' = 0
     /\ pidfile' = 0

Stop ==
  /\ admin = "idle"
  /\ StopChild
  /\ UNCHANGED <<table, session, admin, budget>>

(* SchedulerProcess.restart: stop, one second of sleep, ensure_running. *)
RestartStops ==
  /\ admin = "idle"
  /\ StopChild
  /\ admin' = "restarting"
  /\ UNCHANGED <<table, session, budget>>

RestartStarts ==
  /\ admin = "restarting"
  /\ EnsureRunning(pc, handle, pidfile)
  /\ admin' = "idle"
  /\ UNCHANGED <<table, session, pidfile, stopping, budget>>

(* The panel restarts.  systemd ends every process of the service before   *)
(* it starts the new one, and a child that had the time took the pidfile   *)
(* along; off systemd the panel re-executes itself and the child goes on.  *)
PanelRestarts ==
  /\ admin' = "idle"
  /\ IF UnderSystemd
     THEN /\ EnsureRunning([p \in Pids |-> IF Alive(pc, p) THEN "gone" ELSE pc[p]],
                           0, pidfile)
          /\ pidfile' \in {pidfile, 0}
          /\ Gone(Pids)
     ELSE /\ EnsureRunning(pc, 0, pidfile)
          /\ UNCHANGED <<pidfile, db, session, stopping>>
  /\ UNCHANGED <<row, budget>>
-----------------------------------------------------------------------------
(* The table, from the schedules page, and time.  A request whose write    *)
(* finds the table locked for 5 s fails and changes nothing.               *)

Edit(s, new) ==
  /\ db = 0
  /\ Spend("edits")
  /\ row' = [row EXCEPT ![s] = new]
  /\ UNCHANGED <<session, manager, pc, stopping, db>>

Toggle(s) ==
  /\ row[s] # "absent"
  /\ Edit(s, IF row[s] = "off" THEN "new" ELSE "off")

Delete(s) == row[s] # "absent" /\ Edit(s, "absent")

(* SQLite gives a new row the highest id plus one. *)
Add(s) ==
  /\ \A t \in Schedules : row[t] # "absent" => t < s
  /\ s > 1 => row[s - 1] # "absent"
  /\ Edit(s, "new")

TimePasses(s) ==
  /\ row[s] = "later"
  /\ Spend("due")
  /\ row' = [row EXCEPT ![s] = "due"]
  /\ ran' = [p \in Pids |-> ran[p] \ {s}]
  /\ UNCHANGED <<manager, pc, stopping, db, todo, fresh, pend>>
-----------------------------------------------------------------------------
Proceeds(p) ==
  \/ Boots(p) \/ TickBegins(p) \/ FirstSeen(p) \/ ScanBegins(p) \/ ScanEnds(p)
  \/ NothingToRun(p) \/ RunBegins(p) \/ RunEnds(p) \/ TickEnds(p)
  \/ WriteFails(p) \/ Leaves(p)

Next ==
  \/ \E p \in Pids : Proceeds(p) \/ (\E s \in Schedules : TickRaises(p, s)) \/ Crashes(p)
  \/ Start \/ Stop \/ RestartStops \/ RestartStarts \/ PanelRestarts
  \/ \E s \in Schedules : Toggle(s) \/ Delete(s) \/ Add(s) \/ TimePasses(s)

(* A child that lives goes on with its loop: it sleeps at most POLL_SECONDS *)
(* and SQLite waits at most 5 s; a scan and an ansible run end by           *)
(* themselves.  No request, crash or exception is ever promised.            *)
Fairness == \A p \in Pids : WF_vars(Proceeds(p))

Spec == Init /\ [][Next]_vars /\ Fairness
-----------------------------------------------------------------------------
TypeOK ==
  /\ row \in [Schedules -> RowStates]
  /\ db \in {0} \cup Pids
  /\ pc \in [Pids -> {"none", "booting", "loop", "tick", "scan", "run", "gone"}]
  /\ stopping \subseteq Pids
  /\ todo \in [Pids -> SUBSET Schedules]
  /\ fresh \in [Pids -> SUBSET Schedules]
  /\ pend \in [Pids -> SUBSET Schedules]
  /\ pidfile \in {0} \cup Pids
  /\ handle \in {0} \cup Pids
  /\ admin \in {"idle", "restarting"}
  /\ ran \in [Pids -> SUBSET Schedules]
  /\ budget \in [Bounds -> Nat]
  /\ \A p \in Pids : pc[p] \in {"scan", "run"} => todo[p] # {}

(* What the schedules page shows is what there is: the children nobody     *)
(* asked to stop are exactly the one the status names, so there is never a *)
(* second scheduler and a "stopped" is true (scheduler.py:9, 214-221).     *)
StatusNamesTheScheduler ==
  {p \in Pids : Alive(pc, p) /\ p \notin stopping} = {Status} \ {0}

(* The panel can write while ansible runs for a schedule and while the     *)
(* scheduler sleeps: its tick holds the write lock at neither time         *)
(* (scheduler.py:156-190, headless.py:139).                                *)
LockFreeWhileRunning ==
  db # 0 => pc[db] \notin {"none", "booting", "loop", "run", "gone"}

(* A child runs a schedule again before its next time only after a         *)
(* rollback that lost the new next_run_at (scheduler.py:189-190).          *)
NoRefire == [][\A p \in Pids : pc'[p] \in {"scan", "run"} /\ pc[p] = "tick"
                 => \A s \in ran[p] : ~At(p, s)]_vars

RaisesForever(S) ==
  []<><<\E p \in Pids, s \in S : TickRaises(p, s)>>_vars

(* "The child polls the schedules table and runs due schedules"            *)
(* (scheduler.py:4-5), as far as exceptions let it.  While a scheduler     *)
(* runs, a due schedule comes to its turn unless an earlier one goes on    *)
(* raising; and it does not stay due unless some schedule goes on raising, *)
(* whatever the other children, lost write locks and restarts do.          *)
DueRuns == \A s \in Schedules :
  /\ \/ RaisesForever(1..(s - 1))
     \/ row[s] = "due"
          ~> row[s] # "due" \/ (\E p \in Pids : Firing(p, s)) \/ Status = 0
  /\ \/ RaisesForever(Schedules)
     \/ row[s] = "due" ~> row[s] # "due" \/ Status = 0
=============================================================================
