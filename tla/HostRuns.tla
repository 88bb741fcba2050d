------------------------------ MODULE HostRuns ------------------------------
(***************************************************************************)
(* How finished runs reach the per-host state.  Two executors share the    *)
(* database and the run lock: the panel's job manager (jobs.py), which     *)
(* takes a job id when the job is submitted and runs up to Pool jobs at a  *)
(* time, and the scheduler child (headless.run_now), which takes its id    *)
(* when it begins, tries the lock once, and applies its results after it   *)
(* has given the lock back.  Each applies the results of a run in one      *)
(* SQLite transaction, guarded by HostState.last_job_id.                   *)
(*                                                                         *)
(* The manager's own queue, timer and restart handling are JobManager's    *)
(* subject; here they are what decides the order of the runs.              *)
(***************************************************************************)
EXTENDS Integers, Sequences, FiniteSets

CONSTANTS
  MaxRuns,       \* bound: Job rows ever created
  Hosts,         \* the registered servers
  Pool,          \* max_concurrent_jobs
  SchedulerOn,   \* does the scheduler child fire runs?
  UnderSystemd,  \* does a restart of the panel take the child with it?
  MaxFaults      \* bound: exceptions while the scheduler applies results

ASSUME HostRunsAssumption ==
  /\ MaxRuns \in Nat \ {0}
  /\ Pool \in Nat \ {0}
  /\ SchedulerOn \in BOOLEAN
  /\ UnderSystemd \in BOOLEAN
  /\ MaxFaults \in Nat

VARIABLES
  kind,      \* what each Job row is: "none", "check", "apply" or "power"
  targets,   \* the hosts of each run
  scheduled, \* the runs fired by the scheduler
  status,    \* jobs.status
  start,     \* the order in which the runs started, 0 before
  report,    \* per host, the recap in the log of a run whose results are in
  queue,     \* JobManager._queue
  active,    \* JobManager._active
  lock,      \* /run/hack.lock
  fired,     \* the run inside headless.run_now, 0 if none
  phase,     \* where run_now is with it
  state,     \* HostState of each host
  timeline,  \* HostEvent rows of each host, oldest first
  faults     \* exceptions so far (bounded)

rows == <<kind, targets, scheduled>>
effects == <<report, state, timeline>>
vars == <<rows, effects, status, start, queue, active, lock, fired, phase, faults>>

Runs == 1..MaxRuns
Kinds == {"check", "apply", "power"}
Recaps == {"absent", "ok", "changed", "failed"}
NoReport == [h \in Hosts |-> "none"]
Terminal == {"success", "failed", "cancelled"}

(* The ansible runs whose results were applied to a host. *)
Settled(h) == {r \in Runs : h \in targets[r] /\ report[r] # NoReport}

Init ==
  /\ kind = [r \in Runs |-> "none"]
  /\ targets = [r \in Runs |-> {}]
  /\ scheduled = {}
  /\ status = [r \in Runs |-> "none"]
  /\ start = [r \in Runs |-> 0]
  /\ report = [r \in Runs |-> NoReport]
  /\ queue = <<>>
  /\ active = {}
  /\ lock = "free"
  /\ fired = 0
  /\ phase = "idle"
  /\ state = [h \in Hosts |-> [job |-> 0, last |-> "none", config |-> "none"]]
  /\ timeline = [h \in Hosts |-> <<>>]
  /\ faults = 0

-----------------------------------------------------------------------------
(* What a finished run says of one host. *)

(* status_from_stats, keeping the old value when there is no recap. *)
StatusFromStats(recap, old) == IF recap = "absent" THEN old ELSE recap

(* derive_host_state: a check that would change something leaves the host  *)
(* pending, an apply without failures has converged.                       *)
DeriveHostState(mode, recap) ==
  IF recap \in {"absent", "failed"} THEN "failed"
  ELSE IF mode = "check" /\ recap = "changed" THEN "pending"
  ELSE "ok"

GuardByArrival(r, h) == TRUE

GuardOfChecks(r, h) == kind[r] = "check" => state[h].job <= r

(* "Only the most recent run wins": an older id never overwrites. *)
Guard(r, h) == state[h].job <= r

UpdateStateIfReached(r, recaps) ==
  [h \in Hosts |->
     IF h \in targets[r] /\ Guard(r, h)
     THEN [job    |-> r,
           last   |-> StatusFromStats(recaps[h], state[h].last),
           config |-> IF recaps[h] = "absent" THEN state[h].config
                      ELSE DeriveHostState(kind[r], recaps[h])]
     ELSE state[h]]

UpdateState(r, recaps) ==
  [h \in Hosts |->
     IF h \in targets[r] /\ Guard(r, h)
     THEN [job    |-> r,
           last   |-> StatusFromStats(recaps[h], state[h].last),
           config |-> DeriveHostState(kind[r], recaps[h])]
     ELSE state[h]]

(* _record_host_event: applies always, checks that fail to reach the host  *)
(* and checks that change its state.                                       *)
Event(r, h, recap) ==
  IF kind[r] = "apply"
  THEN <<[run |-> r, kind |-> "apply",
          status |-> IF recap = "absent" THEN "failed" ELSE recap]>>
  ELSE IF recap = "absent"
  THEN <<[run |-> r, kind |-> "check", status |-> "unreachable"]>>
  ELSE IF DeriveHostState(kind[r], recap) # state[h].config
  THEN <<[run |-> r, kind |-> "check", status |-> DeriveHostState(kind[r], recap)]>>
  ELSE <<>>

RecordEventsOfStragglers(r, recaps) ==
  [h \in Hosts |->
     IF h \in targets[r]
     THEN timeline[h] \o Event(r, h, recaps[h])
     ELSE timeline[h]]

RecordEvents(r, recaps) ==
  [h \in Hosts |->
     IF h \in targets[r] /\ Guard(r, h)
     THEN timeline[h] \o Event(r, h, recaps[h])
     ELSE timeline[h]]

RecordPowerEvents(r, result) ==
  [h \in Hosts |->
     IF h \in targets[r]
     THEN Append(timeline[h], [run |-> r, kind |-> "power", status |-> result])
     ELSE timeline[h]]

(* What a log can say: a recap, or none, for each host of the run. *)
Reports(r) ==
  {recaps \in [Hosts -> Recaps \cup {"none"}] :
     \A h \in Hosts : recaps[h] = "none" <=> h \notin targets[r]}

-----------------------------------------------------------------------------
(* The panel. *)

NextRow(r) == status[r] = "none" /\ \A i \in 1..(r - 1) : status[i] # "none"

Started == Cardinality({r \in Runs : start[r] # 0})

(* _dispatch: jobs leave the queue in order while there is room and the    *)
(* lock is not the scheduler's; the panel lets the lock go when nothing is *)
(* active and nothing waits.                                               *)
Dispatch(q, act, st, lk) ==
  LET room == Pool - Cardinality(act)
      n == IF lk = "sched" \/ room <= 0 THEN 0
           ELSE IF Len(q) < room THEN Len(q) ELSE room
      starts == {q[i] : i \in 1..n}
  IN  /\ queue' = SubSeq(q, n + 1, Len(q))
      /\ active' = act \cup starts
      /\ status' = [r \in Runs |-> IF r \in starts THEN "running" ELSE st[r]]
      /\ start' = [r \in Runs |->
                     IF r \in starts
                     THEN Started + (CHOOSE i \in 1..n : q[i] = r)
                     ELSE start[r]]
      /\ lock' = IF n > 0 THEN "panel"
                 ELSE IF lk = "panel" /\ act = {} /\ q = <<>> THEN "free"
                 ELSE lk

(* start_job / start_power_job. *)
PanelSubmits(r, hosts, k) ==
  /\ NextRow(r)
  /\ kind' = [kind EXCEPT ![r] = k]
  /\ targets' = [targets EXCEPT ![r] = hosts]
  /\ scheduled' = scheduled
  /\ Dispatch(Append(queue, r), active, [status EXCEPT ![r] = "queued"], lock)
  /\ UNCHANGED <<effects, fired, phase, faults>>

(* The retry timer of a queue that met the scheduler's lock. *)
PanelRetries ==
  /\ queue # <<>>
  /\ lock # "sched"
  /\ Dispatch(queue, active, status, lock)
  /\ UNCHANGED <<rows, effects, fired, phase, faults>>

(* The finally block of _run: _finalize applies the results in one         *)
(* transaction, the slot is freed, waiting jobs start.  A cancelled run    *)
(* keeps its cancellation and its log is applied all the same.             *)
PanelFinishes(r, result) ==
  /\ r \in active
  /\ IF kind[r] = "power"
     THEN /\ timeline' = RecordPowerEvents(r, result)
          /\ UNCHANGED <<report, state>>
     ELSE \E recaps \in Reports(r) :
            /\ report' = [report EXCEPT ![r] = recaps]
            /\ state' = UpdateState(r, recaps)
            /\ timeline' = RecordEvents(r, recaps)
  /\ Dispatch(queue, active \ {r}, [status EXCEPT ![r] = result], lock)
  /\ UNCHANGED <<rows, fired, phase, faults>>

(* Cancel of a job that still waits. *)
PanelCancelsQueued(r) ==
  /\ \E i \in 1..Len(queue) :
       /\ queue[i] = r
       /\ queue' = SubSeq(queue, 1, i - 1) \o SubSeq(queue, i + 1, Len(queue))
  /\ status' = [status EXCEPT ![r] = "cancelled"]
  /\ UNCHANGED <<rows, effects, start, active, lock, fired, phase, faults>>

(* The recovery UPDATE of the startup hook. *)
Recovered(s) == IF s \in {"running", "queued"} THEN "failed" ELSE s

(* The panel goes and comes back (JobManager tells the ways).  Its memory  *)
(* and its lock go with it; under systemd so does the scheduler.           *)
PanelRestarts ==
  /\ queue' = <<>>
  /\ active' = {}
  /\ status' = [r \in Runs |-> Recovered(status[r])]
  /\ fired' = IF UnderSystemd THEN 0 ELSE fired
  /\ phase' = IF UnderSystemd THEN "idle" ELSE phase
  /\ lock' = IF lock = "panel" \/ UnderSystemd THEN "free" ELSE lock
  /\ UNCHANGED <<rows, effects, start, faults>>

-----------------------------------------------------------------------------
(* The scheduler child: headless.run_now, one host of the fan-out a call.  *)

(* The row is committed as running before the lock is tried. *)
SchedBegins(r, h, k) ==
  /\ SchedulerOn
  /\ fired = 0
  /\ NextRow(r)
  /\ kind' = [kind EXCEPT ![r] = k]
  /\ targets' = [targets EXCEPT ![r] = {h}]
  /\ scheduled' = scheduled \cup {r}
  /\ status' = [status EXCEPT ![r] = "running"]
  /\ fired' = r
  /\ phase' = "begun"
  /\ UNCHANGED <<effects, start, queue, active, lock, faults>>

(* flock(LOCK_EX | LOCK_NB) succeeds. *)
SchedLocks ==
  /\ phase = "begun"
  /\ lock = "free"
  /\ lock' = "sched"
  /\ phase' = "running"
  /\ start' = [start EXCEPT ![fired] = Started + 1]
  /\ UNCHANGED <<rows, effects, status, queue, active, fired, faults>>

(* Another run holds the lock: this one is skipped, not retried. *)
SchedSkips ==
  /\ phase = "begun"
  /\ lock # "free"
  /\ status' = [status EXCEPT ![fired] = "cancelled"]
  /\ fired' = 0
  /\ phase' = "idle"
  /\ UNCHANGED <<rows, effects, start, queue, active, lock, faults>>

(* ansible-playbook ends and the lock is given back. *)
SchedUnlocks ==
  /\ phase = "running"
  /\ lock' = "free"
  /\ phase' = "parsing"
  /\ UNCHANGED <<rows, effects, status, start, queue, active, fired, faults>>

(* The results are applied and committed.  No host event is written. *)
SchedApplies(result) ==
  /\ phase = "parsing"
  /\ \E recaps \in Reports(fired) :
       /\ report' = [report EXCEPT ![fired] = recaps]
       /\ state' = UpdateState(fired, recaps)
  /\ status' = [status EXCEPT ![fired] = result]
  /\ fired' = 0
  /\ phase' = "idle"
  /\ UNCHANGED <<rows, start, queue, active, lock, timeline, faults>>

(* An exception while applying (database locked): everything rolls back to *)
(* the committed row, which says running for ever.                         *)
SchedFails ==
  /\ phase = "parsing"
  /\ faults < MaxFaults
  /\ faults' = faults + 1
  /\ fired' = 0
  /\ phase' = "idle"
  /\ UNCHANGED <<rows, effects, status, start, queue, active, lock>>

Next ==
  \/ \E r \in Runs, hosts \in (SUBSET Hosts) \ {{}}, k \in Kinds : PanelSubmits(r, hosts, k)
  \/ PanelRetries
  \/ \E r \in Runs, result \in Terminal : PanelFinishes(r, result)
  \/ \E r \in Runs : PanelCancelsQueued(r)
  \/ PanelRestarts
  \/ \E r \in Runs, h \in Hosts, k \in {"check", "apply"} : SchedBegins(r, h, k)
  \/ SchedLocks
  \/ SchedSkips
  \/ SchedUnlocks
  \/ \E result \in {"success", "failed"} : SchedApplies(result)
  \/ SchedFails

Spec == Init /\ [][Next]_vars
-----------------------------------------------------------------------------
Event0 == [run : Runs, kind : Kinds,
           status : Recaps \cup Terminal \cup {"unreachable", "pending"}]

TypeOK ==
  /\ kind \in [Runs -> Kinds \cup {"none"}]
  /\ targets \in [Runs -> SUBSET Hosts]
  /\ scheduled \subseteq Runs
  /\ status \in [Runs -> Terminal \cup {"none", "queued", "running"}]
  /\ start \in [Runs -> Nat]
  /\ report \in [Runs -> [Hosts -> Recaps \cup {"none"}]]
  /\ queue \in Seq(Runs)
  /\ active \subseteq Runs
  /\ lock \in {"free", "panel", "sched"}
  /\ fired \in Runs \cup {0}
  /\ phase \in {"idle", "begun", "running", "parsing"}
  /\ state \in [Hosts -> [job : Runs \cup {0},
                          last : {"none", "ok", "changed", "failed"},
                          config : {"none", "ok", "pending", "failed"}]]
  /\ timeline \in [Hosts -> Seq(Event0)]
  /\ faults \in 0..MaxFaults

(* The guard makes the order in which results arrive irrelevant: however   *)
(* the two executors finish, a host's state belongs to the newest job id   *)
(* among all the runs that were applied to it.                             *)
HighestIdWins ==
  \A h \in Hosts :
    /\ \A r \in Settled(h) : r <= state[h].job
    /\ state[h].job # 0 => state[h].job \in Settled(h)

(* ... and it says what that run's log says, nothing of an older run: an   *)
(* unreachable host is failed even if an earlier run had found it in order *)
(* (results.py:149 "always overwritten").                                  *)
StateMatchesLog ==
  \A h \in Hosts : state[h].job # 0 =>
    /\ state[h].config = DeriveHostState(kind[state[h].job], report[state[h].job][h])
    /\ report[state[h].job][h] # "absent" =>
         state[h].last = report[state[h].job][h]

(* "Only the most recent run wins" (jobs.py:340): of the panel's own runs, *)
(* whatever the scheduler does in between, the one that started last       *)
(* decides: submitted in order, started in order.                          *)
PanelRunsInOrder ==
  \A h \in Hosts : \A r \in Settled(h) \ scheduled :
    state[h].job \notin scheduled => start[r] <= start[state[h].job]

NeverStarted(r) == status[r] \in Terminal /\ start[r] = 0

Implied(e) ==
  IF e.status \in {"failed", "unreachable"} THEN "failed"
  ELSE IF e.kind = "apply" THEN "ok" ELSE e.status

ConfigEvents(h) == {i \in 1..Len(timeline[h]) : timeline[h][i].kind # "power"}

(* The host's timeline explains its state: replaying the last check or     *)
(* apply event gives the configuration state the host is in, although      *)
(* checks that change nothing are not recorded and power events mix in     *)
(* (jobs.py:380-384).  A scheduled run records nothing, so the claim is    *)
(* made of hosts that only the panel's runs have reached.  And a run that  *)
(* did not get the lock, or was cancelled before it started, is in neither.*)
TimelineExplainsState ==
  \A h \in Hosts :
    /\ state[h].job # 0 /\ Settled(h) \cap scheduled = {} =>
         \E i \in ConfigEvents(h) :
           /\ \A k \in ConfigEvents(h) : k <= i
           /\ Implied(timeline[h][i]) = state[h].config
    /\ \A r \in Runs : NeverStarted(r) =>
         state[h].job # r /\ \A i \in 1..Len(timeline[h]) : timeline[h][i].run # r
=============================================================================
