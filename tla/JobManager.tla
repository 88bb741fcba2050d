----------------------------- MODULE JobManager -----------------------------
(***************************************************************************)
(* The panel's job manager (src/webpanel/app/jobs.py): a bounded pool and  *)
(* a FIFO queue kept in the memory of one process, the Job rows kept in    *)
(* SQLite, and the run lock (/run/hack.lock) shared with every other       *)
(* process that runs ansible.                                              *)
(*                                                                         *)
(* Everything the manager does on the event loop between two awaits is one *)
(* action.  Three things are not on the loop: the ansible children, the    *)
(* holder of the lock outside the panel, and the POST /settings/runtime    *)
(* handler, a plain function that FastAPI runs in a worker thread and that *)
(* calls JobManager._dispatch from there.                                  *)
(***************************************************************************)
EXTENDS Integers, Sequences, FiniteSets

CONSTANTS
  MaxJobs,       \* bound: Job rows ever created
  MaxLimit,      \* MAX_MAX_CONCURRENT (jobs.py:62), smaller here
  DefaultLimit,  \* DEFAULT_MAX_CONCURRENT (jobs.py:61)
  UnderSystemd,  \* system.under_systemd(): does a restart kill the children?
  MaxSaves,      \* bound: saves of the runtime settings
  MaxFaults,     \* bound: exceptions that kill a job's coroutine
  MaxUpsets      \* bound: saves and such exceptions together

ASSUME JobManagerAssumption ==
  /\ MaxJobs \in Nat \ {0}
  /\ MaxLimit \in Nat \ {0}
  /\ DefaultLimit \in 1..MaxLimit
  /\ UnderSystemd \in BOOLEAN
  /\ MaxSaves \in Nat
  /\ MaxFaults \in Nat
  /\ MaxUpsets \in Nat

VARIABLES
  row,         \* jobs.status in the database, "none" before the INSERT
  queue,       \* JobManager._queue: job ids waiting, head first
  task,        \* JobManager._active and the coroutine of each member
  cancelled,   \* JobRuntime.status = "cancelled"
  cancelling,  \* cancel() suspended in wait_for(process.wait())
  children,    \* jobs whose ansible process is alive
  lock,        \* who holds /run/hack.lock
  retry,       \* _retry_handle is armed
  draining,    \* _draining
  deadline,    \* the drain has a finite timeout
  limit,       \* Setting max_concurrent_jobs
  panel,       \* is the panel process up?
  worker,      \* the settings thread, inside _dispatch
  saves,       \* settings saves so far (bounded)
  faults       \* coroutine-killing exceptions so far (bounded)

memory == <<queue, task, cancelled, cancelling, retry, draining, deadline, worker>>
vars == <<row, memory, children, lock, limit, panel, saves, faults>>

Jobs == 1..MaxJobs

(* "done" is success or failed, by the return code: nothing here depends   *)
(* on which (HostRuns is about what a run reports).                        *)
Statuses == {"none", "queued", "running", "done", "cancelled"}
Terminal == {"done", "cancelled"}

(***************************************************************************)
(* A member of _active is in one of these stages: "created" (task created, *)
(* rt.process still None), "running" (child alive), "exited" (child gone,  *)
(* the finally block still to run), or "lost": a slot with no coroutine    *)
(* behind it, which nothing ever frees.  The child of a job that is no     *)
(* longer "running" may be alive all the same.                             *)
(***************************************************************************)
Stages == {"none", "created", "running", "exited", "lost"}

Active == {j \in Jobs : task[j] # "none"}
Live == {j \in Jobs : task[j] \notin {"none", "lost"}}
Attended == {j \in children : task[j] # "none"}

(* rt.process is set.  (So it is in a lost slot whose child is gone, but   *)
(* there send_signal raises and the mark it leaves is read by nobody.)     *)
HasProcess(j) ==
  task[j] \in {"running", "exited"} \/ (task[j] = "lost" /\ j \in children)
Waiting == {queue[i] : i \in 1..Len(queue)}

Init ==
  /\ row = [j \in Jobs |-> "none"]
  /\ queue = <<>>
  /\ task = [j \in Jobs |-> "none"]
  /\ cancelled = {}
  /\ cancelling = {}
  /\ children = {}
  /\ lock = "free"
  /\ retry = FALSE
  /\ draining = FALSE
  /\ deadline = FALSE
  /\ limit = DefaultLimit
  /\ panel = "up"
  /\ worker = "idle"
  /\ saves = 0
  /\ faults = 0

-----------------------------------------------------------------------------
(***************************************************************************)
(* _dispatch on the event loop, with _start for every job it promotes: the *)
(* handler that calls it passes the queue, the active set, the rows and    *)
(* the lock as it leaves them.  Draining promotes nothing; a lock held by  *)
(* another process arms the retry timer; any other outcome leaves the      *)
(* timer cancelled.                                                        *)
(***************************************************************************)
Room(tk) == limit - Cardinality({j \in Jobs : tk[j] # "none"})

PromotableWithoutLimit(q, tk) == IF draining THEN 0 ELSE Len(q)

Promotable(q, tk) ==
  IF draining \/ Room(tk) <= 0 THEN 0
  ELSE IF Len(q) < Room(tk) THEN Len(q) ELSE Room(tk)

Dispatch(q, tk, rw, lk) ==
  LET n == Promotable(q, tk)
      starts == {q[i] : i \in 1..n}
  IN  IF n > 0 /\ lk = "external"
      THEN /\ queue' = q
           /\ task' = tk
           /\ row' = rw
           /\ lock' = lk
           /\ retry' = TRUE
      ELSE /\ queue' = SubSeq(q, n + 1, Len(q))
           /\ task' = [j \in Jobs |-> IF j \in starts THEN "created" ELSE tk[j]]
           /\ row' = [j \in Jobs |-> IF j \in starts THEN "running" ELSE rw[j]]
           /\ lock' = IF n > 0 THEN "panel" ELSE lk
           /\ retry' = FALSE

(* The INSERT of a Job row takes the next id (service.py:106, 175). *)
NextRow(j) == row[j] = "none" /\ \A i \in 1..(j - 1) : row[i] # "none"

EnqueueInFront(q, j) == <<j>> \o q

Enqueue(q, j) == Append(q, j)

(* start_job / start_power_job, to the end: row committed, job submitted. *)
Submit(j) ==
  /\ panel = "up"
  /\ NextRow(j)
  /\ ~draining
  /\ Dispatch(Enqueue(queue, j), task, [row EXCEPT ![j] = "queued"], lock)
  /\ UNCHANGED <<cancelled, cancelling, children, draining, deadline, limit,
                 panel, worker, saves, faults>>

(* submit raises PanelRestarting after the row was committed as queued; so *)
(* does start_job when building the inventory or the secrets raises        *)
(* ValueError after the flush: the route renders the error and commits.    *)
SubmitLeavesRow(j) ==
  /\ panel = "up"
  /\ NextRow(j)
  /\ row' = [row EXCEPT ![j] = "queued"]
  /\ UNCHANGED <<memory, children, lock, limit, panel, saves, faults>>

RetryFiresOnce ==
  /\ panel = "up"
  /\ retry
  /\ IF lock = "external"
     THEN retry' = FALSE /\ UNCHANGED <<row, queue, task, lock>>
     ELSE Dispatch(queue, task, row, lock)
  /\ UNCHANGED <<cancelled, cancelling, children, draining, deadline, limit,
                 panel, worker, saves, faults>>

(* The timer of _arm_retry fires. *)
RetryFires ==
  /\ panel = "up"
  /\ retry
  /\ Dispatch(queue, task, row, lock)
  /\ UNCHANGED <<cancelled, cancelling, children, draining, deadline, limit,
                 panel, worker, saves, faults>>

-----------------------------------------------------------------------------
(* The coroutine _run. *)

(* create_subprocess_exec returns and rt.process is set. *)
Spawn(j) ==
  /\ panel = "up"
  /\ task[j] = "created"
  /\ task' = [task EXCEPT ![j] = "running"]
  /\ children' = children \cup {j}
  /\ UNCHANGED <<row, queue, cancelled, cancelling, lock, retry, draining,
                 deadline, limit, panel, worker, saves, faults>>

(* The child ends by itself or by a signal.  It outlives the panel when    *)
(* the restart did not kill it.                                            *)
ChildExits(j) ==
  /\ j \in children
  /\ children' = children \ {j}
  /\ IF task[j] = "running"
     THEN task' = [task EXCEPT ![j] = "exited"]
     ELSE task' = task
  /\ UNCHANGED <<row, queue, cancelled, cancelling, lock, retry, draining,
                 deadline, limit, panel, worker, saves, faults>>

FinalStatusFromRc(j) == "done"

(* An explicit cancellation wins over the return code. *)
FinalStatus(j) == IF j \in cancelled THEN "cancelled" ELSE "done"

(* Mutant: the slots are not looked at. *)
IdleWhenQueueEmpty(tk) == queue = <<>>

(* not self._active and not self._queue, with the slots as in tk. *)
Idle(tk) == queue = <<>> /\ \A i \in Jobs : tk[i] = "none"

(* The finally block: no await in it.  The row gets its status, the slot   *)
(* is freed, waiting jobs start, and the lock goes only when the manager   *)
(* is idle.                                                                *)
FinallyBlock(j) ==
  LET tk == [task EXCEPT ![j] = "none"]
      rw == [row EXCEPT ![j] = FinalStatus(j)]
  IN  /\ Dispatch(queue, tk, rw, IF Idle(tk) THEN "free" ELSE lock)
      /\ cancelled' = cancelled \ {j}
      /\ UNCHANGED <<cancelling, children, draining, deadline, limit, panel,
                     worker, saves, faults>>

Finish(j) ==
  /\ panel = "up"
  /\ task[j] = "exited"
  /\ FinallyBlock(j)

(* create_subprocess_exec raises: straight to the finally block, rc = 1. *)
SpawnFails(j) ==
  /\ panel = "up"
  /\ task[j] = "created"
  /\ FinallyBlock(j)

(* An exception once the child is there: the commit of its pid meets a     *)
(* locked database, a line of output is longer than the reader's limit, a  *)
(* write to the log fails.  The except clause catches it and the finally   *)
(* block runs as after a failure; nobody looks after the child any more.   *)
RunnerRaises(j) ==
  /\ panel = "up"
  /\ task[j] = "running"
  /\ FinallyBlock(j)

(* The coroutine dies with the slot taken: the log file cannot be opened   *)
(* (before the try), or _finalize, _cleanup_secrets or run_housekeeping    *)
(* raises inside the finally block, after or before the row's commit; the  *)
(* block may have been entered with the child alive, as in RunnerRaises.   *)
CoroutineDies(j) ==
  /\ panel = "up"
  /\ faults < MaxFaults
  /\ saves + faults < MaxUpsets
  /\ faults' = faults + 1
  /\ j \in Live
  /\ task' = [task EXCEPT ![j] = "lost"]
  /\ \/ row' = row
     \/ /\ task[j] # "created"
        /\ row' = [row EXCEPT ![j] = FinalStatus(j)]
  /\ UNCHANGED <<queue, cancelled, cancelling, children, lock, retry, draining,
                 deadline, limit, panel, worker, saves>>

-----------------------------------------------------------------------------
(* POST /jobs/{id}/cancel. *)

(* rt.process is set: mark the runtime, SIGTERM, and wait.  Once the child *)
(* is gone send_signal may raise, and the handler then ends here.          *)
CancelRunning(j) ==
  /\ panel = "up"
  /\ HasProcess(j)
  /\ cancelled' = cancelled \cup {j}
  /\ \/ cancelling' = cancelling \cup {j}
     \/ j \notin children /\ cancelling' = cancelling
  /\ UNCHANGED <<row, queue, task, children, lock, retry, draining, deadline,
                 limit, panel, worker, saves, faults>>

(* The wait ends (the child is gone, or ten seconds passed and SIGKILL was *)
(* sent): the handler writes the row.                                      *)
CancelSettles(j) ==
  /\ panel = "up"
  /\ j \in cancelling
  /\ cancelling' = cancelling \ {j}
  /\ row' = [row EXCEPT ![j] = "cancelled"]
  /\ UNCHANGED <<queue, task, cancelled, children, lock, retry, draining,
                 deadline, limit, panel, worker, saves, faults>>

(* Still queued: dropped from the queue at its position. *)
CancelQueued(j) ==
  /\ panel = "up"
  /\ ~HasProcess(j)
  /\ \E i \in 1..Len(queue) :
       /\ queue[i] = j
       /\ queue' = SubSeq(queue, 1, i - 1) \o SubSeq(queue, i + 1, Len(queue))
  /\ row' = [row EXCEPT ![j] = "cancelled"]
  /\ UNCHANGED <<task, cancelled, cancelling, children, lock, retry, draining,
                 deadline, limit, panel, worker, saves, faults>>

-----------------------------------------------------------------------------
(* Restarting the panel. *)

(* The process goes, and with it its memory and its lock descriptor, which *)
(* is not inheritable.  Under systemd the whole control group is killed;   *)
(* otherwise os.execv replaces the image and the children live on.         *)
PanelStops ==
  /\ panel = "up"
  /\ panel' = "down"
  /\ queue' = <<>>
  /\ task' = [j \in Jobs |-> "none"]
  /\ cancelled' = {}
  /\ cancelling' = {}
  /\ retry' = FALSE
  /\ draining' = FALSE
  /\ deadline' = FALSE
  /\ worker' = "idle"
  /\ lock' = IF lock = "panel" THEN "free" ELSE lock
  /\ children' = IF UnderSystemd THEN {} ELSE children
  /\ UNCHANGED <<row, limit, saves, faults>>

(* First SIGHUP (begin_drain): freeze the queue, start the drain task,     *)
(* which reads the timeout setting (0 = no deadline).                      *)
Sighup ==
  /\ panel = "up"
  /\ ~draining
  /\ draining' = TRUE
  /\ deadline' \in BOOLEAN
  /\ UNCHANGED <<row, queue, task, cancelled, cancelling, retry, worker,
                 children, lock, limit, panel, saves, faults>>

DrainEndsWhenAllDone ==
  /\ draining
  /\ (Active = {} /\ queue = <<>>) \/ deadline
  /\ PanelStops

(* _drain_and_restart sees no active job, or its deadline passes. *)
DrainEnds ==
  /\ draining
  /\ Active = {} \/ deadline
  /\ PanelStops

(* A second SIGHUP while draining, the Restart button (system.             *)
(* request_restart, which does not drain), or a crash.                     *)
AbruptStop == PanelStops

RecoveredQueuedOnly(status) == IF status = "queued" THEN "done" ELSE status

RecoveredRunningOnly(status) == IF status = "running" THEN "done" ELSE status

(* The recovery UPDATE of the startup hook. *)
Recovered(status) == IF status \in {"running", "queued"} THEN "done" ELSE status

(* lifespan: what the database still calls running or queued is failed. *)
Boot ==
  /\ panel = "down"
  /\ panel' = "up"
  /\ row' = [j \in Jobs |-> Recovered(row[j])]
  /\ UNCHANGED <<memory, children, lock, limit, saves, faults>>

-----------------------------------------------------------------------------
(***************************************************************************)
(* POST /settings/runtime in its worker thread: the new limit is committed *)
(* and _dispatch runs there.  The thread finds no event loop, so           *)
(* _arm_retry returns without a timer, and asyncio.create_task raises      *)
(* after _start registered the job.  The loop may act between the thread's *)
(* check and its pop.                                                      *)
(***************************************************************************)
(* max(1, min(MAX_MAX_CONCURRENT, n)) *)
Clamp(n) == IF n < 1 THEN 1 ELSE IF n > MaxLimit THEN MaxLimit ELSE n

SettingsSave(n) ==
  /\ panel = "up"
  /\ worker = "idle"
  /\ saves < MaxSaves
  /\ saves + faults < MaxUpsets
  /\ saves' = saves + 1
  /\ limit' = Clamp(n)
  /\ retry' = FALSE
  /\ IF draining \/ queue = <<>> \/ Cardinality(Active) >= Clamp(n) \/ lock = "external"
     THEN worker' = worker /\ lock' = lock
     ELSE worker' = "popping" /\ lock' = "panel"
  /\ UNCHANGED <<row, queue, task, cancelled, cancelling, children, draining,
                 deadline, panel, faults>>

WorkerPops ==
  /\ worker = "popping"
  /\ worker' = "idle"
  /\ IF queue = <<>>      \* pop(0) raises IndexError
     THEN UNCHANGED <<row, queue, task>>
     ELSE /\ queue' = Tail(queue)
          /\ task' = [task EXCEPT ![Head(queue)] = "lost"]
          /\ row' = [row EXCEPT ![Head(queue)] = "running"]
  /\ UNCHANGED <<cancelled, cancelling, children, lock, retry, draining,
                 deadline, limit, panel, saves, faults>>

-----------------------------------------------------------------------------
(* Another process runs ansible under the same lock (headless._Flock in    *)
(* the scheduler child, or run.sh) and never waits for it.                 *)
ExternalBegins ==
  /\ lock = "free"
  /\ lock' = "external"
  /\ UNCHANGED <<row, memory, children, limit, panel, saves, faults>>

ExternalEnds ==
  /\ lock = "external"
  /\ lock' = "free"
  /\ UNCHANGED <<row, memory, children, limit, panel, saves, faults>>

JobStep(j) ==
  \/ Submit(j)
  \/ SubmitLeavesRow(j)
  \/ Spawn(j)
  \/ ChildExits(j)
  \/ Finish(j)
  \/ SpawnFails(j)
  \/ RunnerRaises(j)
  \/ CoroutineDies(j)
  \/ CancelRunning(j)
  \/ CancelSettles(j)
  \/ CancelQueued(j)

Next ==
  \/ \E j \in Jobs : JobStep(j)
  \/ RetryFires
  \/ Sighup
  \/ DrainEnds
  \/ AbruptStop
  \/ Boot
  \/ \E n \in 0..(MaxLimit + 1) : SettingsSave(n)
  \/ WorkerPops
  \/ ExternalBegins
  \/ ExternalEnds

Spec == Init /\ [][Next]_vars

(***************************************************************************)
(* What the event loop, the timers and the environment owe.  The loop runs *)
(* every ready coroutine; a cancelled child is killed after ten seconds;   *)
(* other children and foreign runs are assumed to end.  The retry is       *)
(* strongly fair with respect to a free lock: the timer comes back every   *)
(* five seconds (jobs.py:63) while the scheduler sleeps thirty between two *)
(* ticks (scheduler.py POLL_SECONDS), so it meets a free lock.             *)
(***************************************************************************)
Fairness ==
  /\ \A j \in Jobs : WF_vars(Spawn(j) \/ SpawnFails(j))
  /\ \A j \in Jobs : WF_vars(ChildExits(j))
  /\ \A j \in Jobs : WF_vars(Finish(j))
  /\ \A j \in Jobs : WF_vars(CancelSettles(j))
  /\ WF_vars(RetryFires)
  /\ SF_vars(RetryFires /\ lock # "external")
  /\ WF_vars(DrainEnds)
  /\ WF_vars(Boot)
  /\ WF_vars(WorkerPops)
  /\ WF_vars(ExternalEnds)

FairSpec == Spec /\ Fairness
-----------------------------------------------------------------------------
TypeOK ==
  /\ row \in [Jobs -> Statuses]
  /\ queue \in Seq(Jobs)
  /\ task \in [Jobs -> Stages]
  /\ cancelled \subseteq Jobs
  /\ cancelling \subseteq Jobs
  /\ children \subseteq Jobs
  /\ lock \in {"free", "panel", "external"}
  /\ retry \in BOOLEAN
  /\ draining \in BOOLEAN
  /\ deadline \in BOOLEAN
  /\ limit \in 1..MaxLimit
  /\ panel \in {"up", "down"}
  /\ worker \in {"idle", "popping"}
  /\ saves \in 0..MaxSaves
  /\ faults \in 0..MaxFaults

(* No ansible process of the panel is alive while another process runs     *)
(* ansible under the lock (README.md:76: "panel, scheduler, and CLI runs   *)
(* never overlap"; jobs.py:76-79 says the same).                           *)
RunsNeverOverlap == lock = "external" => children = {}

(* What the lock does give: nobody else runs ansible while a process of a  *)
(* job that still has its slot is alive (jobs.py:287-293).  Left out are   *)
(* the processes whose job ended without them: RunnerRaises, an execv.     *)
AttendedRunsNeverOverlap == lock = "external" => Attended = {}

(* A job whose coroutine still has work to do is covered by the lock: the  *)
(* reference-counted lock is not given back while one of several jobs ends *)
(* (jobs.py:287-293).                                                      *)
LiveJobsHoldLock == Live # {} => lock = "panel"

(* Nobody waits for what will not come.  A waiting job is never forgotten: *)
(* either the timer will look again or a live job's finally block will     *)
(* (jobs.py:78-79: "queued jobs simply wait and a timer retries").  And an *)
(* idle manager does not keep the lock from the others: only a drain that  *)
(* froze a non-empty queue keeps it, until the restart.  All this until    *)
(* the first save of the settings, whose thread loses the timer.           *)
NoLostWakeup ==
  saves = 0 =>
    /\ queue # <<>> /\ ~draining => retry \/ Live # {}
    /\ Active = {} /\ ~draining => lock # "panel"

(* The rows tell the truth about the memory: a waiting job is queued, an   *)
(* active one running (or already written cancelled by its cancel), no job *)
(* is in both places or twice in the queue, and no row says running that   *)
(* the manager does not own, so that only a restart needs the recovery of  *)
(* main.py:129-138.                                                        *)
RowsMatchMemory ==
  /\ \A i, k \in 1..Len(queue) : queue[i] = queue[k] => i = k
  /\ \A j \in Waiting : row[j] = "queued" /\ task[j] = "none"
  /\ \A j \in Live : row[j] = "running" \/ (row[j] = "cancelled" /\ j \in cancelled)
  /\ panel = "up" => \A j \in Jobs : row[j] = "running" => j \in Active

(* A job whose cancellation was accepted never ends as a success or a      *)
(* plain failure written by its own coroutine (jobs.py:279-281).  A slot   *)
(* that has lost its coroutine may be cancelled after its row was written. *)
CancelSticks ==
  [][\A j \in Jobs : j \in cancelled /\ task[j] # "lost" /\ panel' = "up"
                       => row'[j] \in {"running", "cancelled"}]_vars

(* The pool: whenever live jobs are added, the configured limit is         *)
(* respected, however often it was lowered while jobs were running.        *)
StartsRespectLimit ==
  [][~(Live' \subseteq Live) => Cardinality(Live') <= limit]_vars

(* First in, first out: a job is never started while an earlier submitted  *)
(* one keeps waiting.                                                      *)
NoOvertaking ==
  [][\A i, j \in Jobs : i \in Waiting /\ j \in Active' \ Active /\ i < j
                          => i \notin Waiting']_vars

(* Whatever occupies a slot is a job that runs: with no exception in a     *)
(* coroutine, promoting a job always starts it (settings.py:113-120: the   *)
(* raised limit "may let queued jobs start immediately").                  *)
EverySlotHasCoroutine == faults = 0 => Active = Live

(* Every job that waits or runs reaches a terminal status, by its own end, *)
(* by a cancel, or by the recovery after a restart; only a slot whose      *)
(* coroutine died, or a save of the settings that lost the timer, can hold *)
(* it and the jobs behind it up.                                           *)
JobsSettle ==
  \A j \in Jobs :
    (j \in Waiting \/ j \in Active)
      ~> row[j] \in Terminal \/ Active # Live \/ saves > 0

(* A drain ends in a restart: the frozen queue does not hold it up, and    *)
(* only a slot that nothing will free does, and only without a deadline    *)
(* (jobs.py:465-479).                                                      *)
DrainRestarts == draining ~> panel = "down" \/ (~deadline /\ Active # Live)

(* The manager implements the interlock as far as it looks after its       *)
(* processes: a party holds it while one of its processes is attended.     *)
Interlock ==
  INSTANCE RunInterlock WITH
    Parties <- {"panel", "external"},
    NoParty <- "nobody",
    holder <- IF lock = "external" THEN "external"
              ELSE IF Attended # {} THEN "panel" ELSE "nobody"

ImplementsInterlock == Interlock!Spec
=============================================================================
