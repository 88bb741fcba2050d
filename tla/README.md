# Formal models of the homelab admin center

TLA+ models of the panel in `src/webpanel/app`, checked with TLC on small
instances and, for the central safety properties, proved with TLAPS for every
instance. Line references below are to that directory unless they begin with
`src/`. `PROJECT.json` maps every definition to the lines it models.

## 1. The system

One FastAPI process (the panel) with one event loop and a thread pool for the
handlers that are plain functions; one child process (the scheduler); one SQLite
database in WAL mode; one lock file, `/run/hack.lock`; and the ansible, pct, ssh
and docker processes that the panel and the scheduler start.

| Part | Code | State it keeps | What makes it correct |
|------|------|----------------|-----------------------|
| Job manager | `jobs.py`, `system.py`, `main.py` | queue, active set, runtimes, retry timer, drain flag; `jobs.status` | no other process runs ansible beside a job in a slot; the pool limit; FIFO; no waiting job forgotten; rows tell the truth; a drain ends |
| Results of runs | `jobs.py:295-399`, `ansible_layer/results.py`, `ansible_layer/headless.py` | `host_states`, `host_events` | the state is that of the right run, whatever finishes first |
| Groups and overlays | `groups.py`, `routers/groups.py`, `plugins.py:214-254` | edges, memberships, overlays | a DAG; the specific group wins; targets and configuration agree |
| Scheduler child | `scheduler.py`, `routers/schedules.py` | `schedules.next_run_at`, pidfile, Popen handle | one scheduler; due schedules run, once; no run under the database lock |
| Job creation | `ansible_layer/service.py`, `routers/jobs.py` | `jobs` rows, run directories | what is committed is submitted |
| Headless runs, facts probe | `ansible_layer/headless.py` | a shared probe directory | skips without a trace when the lock is held |
| Housekeeping | `housekeeping.py` | run directories, `log_text` | the kept logs are those of the newest jobs; nothing still needed is removed |
| Web console | `console.py`, `routers/console.py` | one-time sessions, PTYs, key files | one claim; every session gives its keys back; the cap |
| Discovery, network scan | `discovery.py`, `netscan.py`, `routers/hosts.py` | `discoveries` | decisions survive rescans; no duplicates |
| Job stream | `jobs.py:33-56`, `routers/jobs.py:118-185`, `templates/job_detail.html` | lines and subscriber queues of a runtime; what a tab shows | every reader gets every line once and the end marker; no page waits for ever |
| SSE extension | `static/js/sse.js` | EventSources and listeners in the data of DOM elements, retry timers | no source lost from sight, no element deaf, a failed source comes back |
| Inventory and docker | `inventory.py`, `docker.py` | facts, stacks | the latest run's facts stay |
| Accounts | `auth.py`, `routers/auth.py`, `routers/settings.py` | users, lockout counters | an administrator always remains |
| Host management, tree, power | `routers/hosts.py`, `tree.py`, `power.py` | `servers` | no cycle in the tree; ids not confused |
| Plugins and configuration | `plugins.py`, `ansible_layer/vars_builder.py` | registry, `plugin_configs` | layer precedence |
| Database, crypto, rendering, CLI, roles | `db.py`, `crypto.py`, `templating.py`, `ansi.py`, `src/run.sh`, `src/roles` | schema, keys | outside the models, or modelled where it is used |

How they interact: routes call `start_job`, which commits a row and calls
`JobManager.submit`. The manager runs ansible as a child and applies its log to
the host states in `_finalize`. The scheduler child writes the same tables from
another process and takes the same lock file for each of its runs; it never
talks to the panel otherwise. The panel knows the scheduler by a pidfile and by
the handle of the process it spawned. `POST /settings/runtime` calls into the
manager from a worker thread. The page of a job is rendered in a thread, which
reads the row and then asks the loop's memory for the runtime; the page streams
from `/jobs/{id}/stream` with an EventSource of its own. The SSE extension of htmx
is loaded by `templates/base.html` on every page; no template has an `sse-connect`
today, so `Sse` is about what the file does for any page that has one.

What is hard here: the lock is held by the *panel* for all its jobs and by the
*scheduler* for one run; results are applied after the lock is given back; job
ids are taken at different moments by the two executors; a restart may or may
not kill the children (systemd or `execv`); a tick of the scheduler is one
database transaction over many schedules; SIGTERM is only noticed between ticks;
a worker thread uses a manager that was written for the loop; a log is streamed,
stored and purged by different actors; elements of a page come and go while their
connections fail and their retries wait. Each of these is a
hazard of `PROJECT.json`, at its line.

## 2. The modules

| Module | Models | Checked by | Proved in |
|--------|--------|-----------|-----------|
| `RunInterlock` | the promise of the run lock: one party at a time | `ImplementsInterlock` | `JobManagerProofs` |
| `JobManager` | `jobs.py` step by step, the restarts, the recovery, the settings thread | `MCJobs_*` | `JobManagerProofs` |
| `HostRuns` | how the runs of panel and scheduler reach a host's state and timeline | `MCHostRuns_*` | `HostRunsProofs` |
| `Groups` | group graph, its routes, overlay order | `MCGroups` | `GroupsProofs` |
| `GroupSave` | the save of a group's form in its loops: children, stack walk, commit | `ImplementsRoutes` | `GroupsProofs` |
| `Scheduler` | the child's loop and tick, its session, and its manager | `MCScheduler_*` | `SchedulerProofs` |
| `OneTimeConsole` | the promise of a console: used once by its user, hung up before its place is free | `ImplementsOneTime` | `ConsoleProofs` |
| `Console` | console sessions from the token to the reaped PTY | `MCConsole` | `ConsoleProofs` |
| `LogStream` | the promise of a live log: every line once, in order, the end last | `ImplementsLogStream` | `JobLogProofs` |
| `JobLog` | a job's log: stream, pages, stored copy, run directory, housekeeping | `MCJobLog_*` | `JobLogProofs` |
| `Sse` | the SSE extension on any page: sources, listeners, retries, swaps | `MCSse` | `SseProofs` |
| `Discovery` | scans, sweeps and probes against the decisions of administrators | `MCDiscovery_*` | `DiscoveryProofs` |

**JobManager.** A handler's code between two awaits is one action: `Submit` is
`start_job`'s commit and the `submit` that follows, including `_dispatch` and
every `_start`; `FinallyBlock` is the whole finally block of `_run` (row, slot, next
jobs, lock). Three ways lead into it: `Finish` once the child is gone, `SpawnFails`
before there is one, and `RunnerRaises` with the child alive: the except clause of
`jobs.py:275` also catches what is raised after the spawn (the commit of the pid on a
locked database, a line longer than the reader's limit), and then slot and lock are
given back while ansible goes on. `SubmitLeavesRow` is a row that was committed and
not submitted. A member of `_active` has a stage in `task`: created, running, exited
(child gone, finally block to come), lost (a slot without a coroutine); `children` are
the live processes, whatever became of their jobs. Success and failure are one status,
"done": what a run reports is `HostRuns`' matter. `CoroutineDies` is the exception
that ends `_run` with the slot taken, from any stage, its child perhaps alive.
`CancelRunning` and `CancelSettles` are the two halves of `cancel` around its
`wait_for`. `SettingsSave` and `WorkerPops` are the worker thread. `PanelStops`
is any end of the process; under systemd it takes the children along.

**HostRuns.** The same jobs seen from the hosts. `Dispatch` keeps only what
decides the order of the runs. `PanelFinishes` applies a log in one transaction,
with any combination of recaps the log can hold; the scheduler's run has the
steps begin, lock or skip, unlock, apply or fail, so that anything may happen
between the unlock and the apply. `Guard`, `DeriveHostState` and `Event` are the
code's three decisions.

**Groups.** Routes are one step each: the first statement of the transaction
that reads the edges is a write, so SQLite serialises them. `Reachable` is the
least closed set. `GroupSave` takes `update_group` apart: `Begin` deletes the old rows
and holds the write lock, `SkipItself` and `Check` are a turn of the loop over the
wanted children, `Pop` a turn of the stack walk of `reachable_group_ids` (in any order
in which a set may be iterated), `Decide` adds the edge or drops it, `Commit` and
`RollBack` end it (`RowsExist`: foreign keys are checked when the session flushes).
The other routes wait for the lock. It refines `Groups`: the loops do what the one
step of `UpdateGroup` does with the same form, or nothing (`RouteStep`; that some step
of `Groups` explains the rows would let a save keep old edges, as another form would).

**Scheduler.** `todo`, `fresh` and `pend` are the session of a tick: rows loaded
once, rows loaded without a time, and new times not yet committed. A query
flushes (`NothingToRun` takes SQLite's write lock with it), `run_now` commits
(`RunBegins`), an exception rolls back (`Abort`), a deleted row makes the flush
fail (`WriteFails`). `TickRaises` is an exception at a schedule, before or after its
run's first commit or when its time is computed; it may come as often as it likes,
because most of its causes (a credential that cannot be decrypted, a `daily_time` that
is no time, a left-over key file) are there again at the next tick. Only crashes are
bounded. `StopChild` only sets a flag in a child whose handlers are
installed. `PanelRestarts` has both deployments.

**Console.** The registry is kept by token; a WebSocket that claimed one has a stage
of its own (`at`), so that something else may happen while it is accepting, pumping,
reaping, after the SIGHUP and before the session is closed.
`Issue` and `IssueFails` are the POST with its key directory, `Expire` the timer,
`Claim` the look-up of the token, `Spawn`/`SpawnFails`/`GivesUp` the start of
`_bridge`, `Ended` and `Wake` its end, `ReapHangsUp` and `ReapEnds` the two signals
of `reap`, `BeginDrain` the restart's request to all of them, `Boot` the sweep of
left-over key directories. `Over` is what should end a console. `AcceptFails` is the exception between the claim and
`_bridge`. Bytes, window sizes and the argv of a target are left out.
`Stage` and `Access` map this to `OneTimeConsole`: what has become of a token
(offered, used, open, hung up, lost to a failed handshake, gone) and who reaches its
console. Timers, readers, key files and the shell are not part of the promise.

**Discovery.** `List`, `Sweep` and `Probe` are what takes seconds or minutes outside
the rows; `Scans`, `Sweeps` and `Reports` are the sessions that use what was found,
by then perhaps out of date. `ReconcileName` is `_reconcile_name`, `ReconcileMachines`
the loop over new guests (or addresses) and the one over resolved ones. Confirm,
ignore, the picker, the Add-host form and the deletion of a host are one step each.
The form confirms the pending row whose id it carries, of whatever kind and machine
(`hosts.py:381-393`), and only without such an id the one of its vmid.
A machine is a guest (known by its vmid) or anything else (known by its address).

**JobLog.** Three kinds of actor. The *loop* runs from await to await (`LoopFree`
says it is between two callbacks), but the steps of a callback that other threads
can see between are actions: `Submit`; `Promote` and `WriteRunning`, the two halves
of `_start`; `OpenLog`, the coroutine up to its first await, which dies when the run
directory is gone; `Output`; and the finally block as `Finalize`, `Sweep`, `Purge`,
`Over`, or `HousekeepingRaises` (a directory gone between `iterdir` and `stat`, a locked
database), after which the job is "stuck" with its slot and its runtime.
`SubmitLeavesRow` is the row of a job that was never submitted ("orphan"). `Cancel` is `cancel()` of a waiting or a running job, `Crash` and `Restart`
the end of the process and the recovery. The *threads* render pages in two steps,
`ReadRow` (row) and `Render` (runtime or not). The *scheduler child* does
`ChildSweeps` and `ChildPurges` at any time, and runs jobs of its own, of which the
panel sees row and directory and has no runtime (`AbroadBegins`, `AbroadEnds`). A tab's EventSource is `Connect` (the
route looks the runtime up), `Subscribe` (the generator starts and takes the
backlog), `Feed` and `Drop`; `Reload` is the page's own script.
`Stage` maps this to `LogStream`, which has no queues and no connections: a page whose
queue is registered is "following", one whose stream closed with the marker is "told",
any other is "away"; its lines are those of the present connection.

**Sse.** One action per call of the browser: `ProcessNode`
(`htmx:afterProcessNode`), `Removed` (`htmx:beforeCleanupElement`) and `Detached` (a
removal htmx does not see), `Message` and the listeners it calls (`Call`, with
`Swap`), `Settle` (the task that initialises new content), `Opens`, `Drops` and
`Fails` of an EventSource and `Timer`, its retry. A source is named by its element
and its number, so that two sources of one element can be told apart: that is where
this code can lose one.

## 3. The runs

Passing runs (2 workers, each under five minutes):

| Run | Instance | Distinct states | Shows |
|-----|----------|-----------------|-------|
| `jobs_pool` | 3 jobs, pool of 2, runners that raise, one upset (a dying coroutine or a save), fair | 90,351 | refines the interlock; limit, FIFO; a cancelled row stays cancelled; no lost wake-up, an idle manager frees the lock; rows match memory; a drain restarts; jobs settle |
| `hosts_shared` | 3 runs, pool of 2, 1 host, a fault | 517,161 | id guard, log fidelity, order; the timeline explains the state and runs that never started leave no trace |
| `groups` | 3 groups, 1 host | 854,424 | DAG, overlay order, up and down agree; the loops of a save refine the one step |
| `scheduler` | 2 children, a scan and a run schedule, 2 edits, a crash, exceptions without bound | 66,064 | one scheduler, lock free, no refiring, due schedules run |
| `console` | 3 tokens, 2 WebSockets, cap of 2, a fault | 100,206 | one carrier a session, keys with sessions, refines the one-time console, drains empty the registry, a closed master is not watched |
| `discovery` | a guest and another machine, 2 hosts, 2 names, 3 rows | 600,952 | one open question a machine; decisions stay; ignored stays quiet |
| `joblog_stream` | 2 jobs of panel or scheduler, 1 tab, 1 log kept, pool of 2, a crash, a lost connection | 354,666 | refines the log stream, the kept logs are the right ones, no page is stuck, every watcher sees the end |
| `sse` | feed, pane in it, card and line brought by messages; 2 faults, 4 sources | 81,981 | live sources recorded, no element deaf, dead sources replaced, orphans closed |

Runs that show a disagreement between code and documentation:

| Run | Property | What happens |
|-----|----------|--------------|
| `jobs_overlap` | `RunsNeverOverlap` | a runner raises with its child alive, the finally block gives the lock back, and another process runs ansible beside the child |
| `jobs_savepromotes` | `EverySlotHasCoroutine` | the settings thread puts a job into a slot and cannot start it |
| `discovery_stale` | `PendingReflectsLive` | a guest renamed to an ignored name leaves the question about its previous name open |
| `joblog_dirs` | `ActiveDirsPreserved` | the run directory of an active job is purged when later jobs wait with newer ones; its coroutine then dies |

Why the bounds suffice. *Jobs*: two jobs in the pool and one waiting is the least
in which one ends while another runs and a third is promoted, and while the lock
is held elsewhere all three wait, so that cancels hit the middle of the queue. One
upset, a save or a dying coroutine (`MaxUpsets`), meets every state of the rest;
runners may raise at any time and as often as there are jobs. *Hosts*: three runs are an old
one, a new one and a straggler; hosts do not interact (each step of `_finalize`
concerns one host), so one host suffices for TLC and the proofs take any set.
*Groups*: three ids give chains, diamond halves, reuse of a deleted id, and a form
whose second child is refused or not after the first was added; the proofs take any
number. *Scheduler*: two children are a stopped one and its
successor; two schedules are one that has fired or raises and one that has not.
*Console*: two sessions fill the cap and the third token is refused or follows one
that ended; two WebSockets race for a token. With one administrator the ownership
part of `OneSocketPerSession` says nothing in the run; the proof has any number.
*Discovery*: two hosts collide in a name and get the suffix; three rows are a
decision, an open question and one of another kind. One scanner is enough because
a machine may be renamed before and after it is listed.
*Job logs*: two jobs with room for one log and one directory are the least in which
an older job finishes after a newer one, in which a waiting job's directory outlives
that of a running one, and in which the scheduler child purges between a job's own
store and purge, or as a row of the scheduler shifts which log is kept; tabs do not interact, so one is enough; one line of output falls
before, between or after a subscription. *Sse*: the feed and its pane are an element
with a source and one that hears it; the card is a source inside a source and the
line an element that hears the nearer one, and both come by a message, leave and
cannot come back. A retry count capped at 1 reaches its cap at the second fault. Four
sources of one element are more than two faults open.

`CHECK_DEADLOCK FALSE` stands where the bounded system may stop: in `Scheduler` (with
all children of the bound spawned, a restart that is half done cannot finish), in
`JobLog` (all jobs over and no tab open) and in `Sse` (everything has left the page).

**Fairness.** `JobManager` (`FairSpec`): the loop runs every ready coroutine and
every armed timer, children and foreign runs end. The retry is *strongly* fair
with respect to a free lock: it comes every 5 s (`jobs.py:63`) and the scheduler
sleeps 30 s between ticks (`scheduler.py`, `POLL_SECONDS`), so it meets a free
lock although it may miss many. Nothing is promised of users. `Scheduler`: weak
fairness of each child's loop, which polls every 30 s; a scan and a run of ansible
end by themselves. No click, crash, edit or exception is ever promised, and
`DueRuns` says what is left when a schedule raises for ever (`RaisesForever`). `Console`: as long as
the loop, its timers, the executor or the start of the panel have something ready,
some of it is done (one weak condition, and no order among them); that a shell reacts
to SIGHUP or a browser ever leaves is not promised. `JobLog`: the loop
runs what is ready, a process ends, a tab does what its page says (reload, connect,
read), and systemd restarts the panel; no user opens, cancels or submits anything, and no run
of the scheduler has to begin or end.
`Sse`: a pass of htmx and the dispatch of an event run to their end (weak, they are
synchronous); timers and settle tasks are strongly fair, because a busy stream
disables them again and again and yet the browser's event loop takes tasks of both
kinds. That a connection opens or fails is never promised.

## 4. The proofs

All for any number of jobs, runs, hosts, groups, children and schedules, from
the named assumptions on the constants only.

* `JobManagerProofs`. That the lock covers the pool (`LiveJobsHoldLock`) and that no
  other party runs ansible beside a process of a job in its slot
  (`AttendedRunsNeverOverlap`, theorem `NoOverlap`) are not inductive: a promotion must
  not overwrite the stage of a running job. `IInv` adds that the waiting jobs are
  distinct, outside the active set and have a row (`QueueApart`), that a job with work
  left is covered by the lock (`LiveCovered`), that so is any slot whose child is alive
  (`AttendedCovered`), and that only a job with a row that waits in no queue has
  a child (`ChildrenApart`), or a promotion could make an abandoned child
  attended again while another process holds the lock. They are stated over explicit
  arguments because `Dispatch` is called on intermediate values; `MovesCore` shows
  once that it keeps them. `Refinement` maps every step to a step or a stutter of
  `RunInterlock`, the panel being a party while it attends to a process. Nothing in
  this module assumes systemd. What the documentation says, without "attended", is
  false (`jobs_overlap`).
  `RowsMatchMemory` from `RInv`: what
  rows and marks say by stage (`Truth`: a marked job has a process), that every row
  that says running is owned while the panel is up (`Owned`), that the queue ascends by
  id (`Ascending`) because ids are given in order (`Numbered`), and that a panel that
  is down has no memory (`Forgotten`), or the recovery would miss rows. `MovesShape` says what the promotions of
  `Dispatch` do to any queue, rows and stages; everything about them follows from it.
  The three action properties need little more: `CancelSticks` that the
  mark goes only with a row that says cancelled or with the panel (`MarkLeaves`), `NoOvertaking` that a
  promoted prefix of an ascending queue holds the smallest ids (`MovesInOrder`),
  `StartsRespectLimit` that a prefix of distinct jobs adds its length
  (`PrefixCardinality`, `MovesCount`). `NoLostWakeup` is a matter of the pool: `WInv`
  says that until the first save of the settings at most one slot per dead coroutine is lost,
  and that a job waits without a timer only while the slots are full (`DispatchFills`).
  The property has the first hypothesis, the theorem the second too, and both are needed: section 6 has the save that
  loses the timer, and when every slot is held by a dead coroutine nobody calls
  `_dispatch` again.
* `HostRunsProofs`. `HighestIdWins` and `StateMatchesLog` need each other (a state
  names a run that was applied) and `Unreported`: a row that does not exist yet
  has no report, so the kind and targets it gets cannot change what a state says.
  `AppliedClaims` treats both executors' application at once. `PanelRunsInOrder` needs
  the history of starts (`OrderInv`): starts are numbered as they happen (`Counted`),
  whoever waits has a higher id than every panel run that started (`Waits`), so among
  the panel's runs the order of starts is the order of ids (`InOrder`).
  `TimelineExplainsState` from `Explains` (the last configuration event of a host
  implies its state) and `Traces` (a report and an event are of runs that started);
  `AppendedConfig` and `AppendedPower` say what one more event does to the last one.
* `GroupsProofs`. Acyclic means that every non-empty set of groups has one with no
  child in it. `NewEdgesKeepAcyclic`: new edges out of one parent to groups that
  do not reach it keep this. `DepthGrows`: in a DAG a group has strictly more
  ancestors than each of its ancestors, so the order by depth puts the specific
  one last. `DownIsUp`: reachability down and up are dual.
  `Refinement` (the loops of `GroupSave` implement the routes of `Groups`) follows from
  `SaveInvariance`, for any iteration order. `WayBack` is why the order of the children
  does not matter: an edge out of the parent opens no way back to the parent, so each
  child is judged as by the edges of the other groups alone. With it `DraftInv` says
  what the transaction has after some of the children (`Judged`), `WalkInv` that the
  stack walk has lost nothing (what it can still reach, from the stack past what it
  has seen, completes what it has seen), and `CommitIsUpdate` that the rest is the step
  `UpdateGroup`. `WalksAreRight` states the walk alone, `LoopsKeepTheGraph` carries the
  invariants of `Groups` over.
* `SchedulerProofs`. `SchedulerIsNamed` (under systemd) from `Known`: a living
  child is the handle's or has been told to stop, and neither the handle nor the
  pidfile names one that has. `LockIsFree` from `Holder`. `RunsOncePerDueTime`
  (an action property) from `Past`: what a child has run since it became due is
  behind it in this tick, and due in the table only while the new time is pending.
* `ConsoleProofs`. The four invariants of the run, the refinement and `PtysAreCapped`
  (an open PTY is a counted session's; the run checks it as a part of the refinement)
  follow from one invariant with seven parts: types; a WebSocket in a carrying stage has
  a claimed session and no two have the same (`Carried`); masters, readers and processes
  by stage (`Wired`); at most `MaxSessions` (`Capped`); nothing of a panel that is down
  (`NothingWhenDown`); key directories are the sessions' (`Keys`); every session has a
  timer, a carrier, or was stranded (`Keeper`). One lemma per action, one step per part
  in it.
  `Refinement` maps every step to a step or a stutter of `OneTimeConsole`. A token's
  stage depends on six sets of tokens only (`StageFrame`), so an action that changes
  one of them moves one token; by `Carried` a carried session is "used", "open" or
  "hungup" as its WebSocket's stage says (`CarriedStage`) and its access is its owner
  alone (`AccessIsOwner`), and by `Wired` no place is given back over an open PTY.
* `DiscoveryProofs`. `One` (no two rows ask the same) and `Quiet` need each other and
  distinct host ids: a row that is refreshed could otherwise become one that was
  ignored. `ManyHosts` and `ManyMachines` show that the two reconciliations keep both
  and every decided row, `DecidedRows` that a decision does; `Stuck` is what one step
  must leave of the history, and with it `DecisionsStick` follows.
* `JobLogProofs`. One invariant with nine parts. `Streams` (what a subscriber got and
  what its queue holds is the job's log) needs `Marked` (the marker is the last line, and
  only of jobs that are over): nothing is published to a page that was told the end.
  `Told` says what a row holds by where its job is. `RecentLogsStored` needs `Kept`: the purges see the rows of
  the moment, and by `NewestWere` a job among the newest now was so before, when the
  purge spared it. `StoredLogsBounded` is the lemma `Newest`: of a finite set of ids, at
  most n have fewer than n above them. `StaticPagesAreOfEndedJobs` needs `Shown`: what
  a page that is being rendered has already read of a row that moves on meanwhile.
  `Refinement` maps every step to a step or a stutter of `LogStream`: `PublishWrites`
  (a job that publishes is not over, so by `Marked` its log has not ended),
  `SubscribeFollows`, `FeedSends` (by `Streams` the head of the queue is the next line
  of the log), `PageEnds` (everything else a page does is a departure, or nothing that
  a log stream shows) and `CrashLoses`. `StreamIsWhole`, which says the same of the
  queues themselves, is proved as `StreamsAreWhole` and in no run.
* `SseProofs`. `LiveSourceIsRecorded` from `Counted` (sources of an element are opened in
  order), `Outside` (what no message has brought has none), `Visits` (a pass of htmx comes
  to an element that stands alone but once) and `Timers` (a source with a timer is
  closed, and while the timer waits its element has no live source and no other timer). An element that stands alone (`Alone`) is opened by nobody else, so a new source never covers a live one;
  without `Alone` the statement is false (section 6). `BrokenStreamIsRetried` and the
  action property `OrphansEnd` follow from the same invariant. `SwapsHearTheirSource` is
  not inductive: an element that waits for a pass (`Awaited`) must not be deaf when the
  pass skips it. `Heard` excuses only elements for which a pass is to come that the
  extension sees (`Coming`), and needs `Extended`: sources are opened below an `hx-ext`
  only, so a pass the extension does not see finds no source to hear. `StillHears` says
  what a step may change, `EnsureHears` that registering at r reaches everything below
  r in the page. For any page and any number of sources.
* `TypeCorrect` in each. It is proved and not listed in the runs.

Every safety property of the passing runs is a theorem. Only model-checked:
everything under fairness (liveness, ENABLED and WF/SF are outside TLAPS here):
`JobsSettle`, `DrainRestarts`, `DueRuns`, `DrainEmptiesRegistry`,
`EndedConsoleIsCleared`, `WatchersSeeTheEnd`, `StreamsComeBack`. Loops of the code that
a theorem is about are state machines (`GroupSave`), not recursive operators: what
those compute cannot be proved here.

## 5. Assumptions of the models

* systemd kills the control group of the service; the kill is one step with the
  end of the panel.
* `_dispatch` on the loop is atomic with respect to the settings thread's check
  and its pop (the thread interleaves between the two, not inside the loop's code).
* Database faults inside `_start` are left out; those of the try block are
  `RunnerRaises`, those of the finally block `CoroutineDies`. `jobs.cancel` writes the row before `_finalize`: JobManager has
  that step, HostRuns folds it into the end of the run.
* A violated foreign key in `update_group` rolls back: `RollBack` in `GroupSave`, no step in `Groups`.
* The scheduler's sessions: SELECT opens no transaction in pysqlite, the first
  flushed write takes the lock, rows stay as loaded (`expire_on_commit=False`).
  Hosts of one schedule are one run; `TickRaises` covers a later host that fails.
  One administrator at a time. Process ids are not reused.
* A session of `Discovery` is one step. Two scans whose sessions overlap read the
  same rows and can both add a question; nothing in the code keeps them apart. A
  disabled host is one the probe did not reach. Only machines with an address of
  their own answer a sweep (guests and the panel's own machine are registered
  without one, so a sweep that reaches them raises them as new hosts).
* `JobLog`: the pool may always run (the run lock, the drain and faults of the database
  before and in `_finalize` are in `JobManager`). A run of the scheduler is its row and
  its directory; the log it writes there is not followed, because no page streams it and
  it is never stored. Its end is not promised: a crash of the child may leave the row
  as it is until the panel restarts. A user does not leave a live page by hand. The keep-alive of the stream and
  the ANSI conversion are left out.
* `Sse`: no element has the legacy `hx-sse`. The page is a fixed forest, of which parts
  are linked. What htmx 1.9.12 does around the calls (clean-up, initialisation,
  settling) is modelled as `sse.js` relies on it. The listeners of one event may run in
  any order. Delays are left out: timers run in any order. The instance has htmx's
  default settle delay; the branch for a delay of 0 is in `Swap` and in the proofs only.
* A failing WebSocket handshake is an exception of `accept` (`routers/console.py:102`).

## 6. Observed without a run of its own

* Scheduled runs write no `HostEvent`, although `models.py:270-273` presents the
  timeline as the record of check and apply outcomes; `TimelineExplainsState` is
  therefore about the panel's runs.
* A straggling apply is not in the timeline: the `continue` of `jobs.py:344` comes
  before the event, while `jobs.py:382` says that applies are always recorded.
* Off systemd the recovery of `main.py:129-138` fails the row of a scheduler's
  live run, and a re-executed panel that finds no pidfile (an old child removed
  its successor's) starts a second scheduler.
* A restart of the scheduler during a tick lets the old and the new child fire the
  same due schedules. A crashed child is not started again by itself.
* `NoLostWakeup` holds until the first save (`jobs_pool`) and not with a save of the runtime
  settings: `_dispatch` in the worker thread (`routers/settings.py:121`) cancels the
  retry timer, finds the lock held by the scheduler, and `_arm_retry` has no loop to
  arm another on; the waiting job then waits for the next submission.
* `spawn_pty` leaves the master open when `Popen` raises. `reap` runs on the event
  loop and blocks it for up to three seconds when a shell ignores SIGHUP.
* A guest whose host was deleted is not discovered again: its confirmed row stays. A
  rename confirmed while the name is taken gives `name-vmid`, and the next scan asks
  the same question again. The Add-host form does not look whether its vmid is
  registered.
* `jobs_overlap` shows an overlap with the runner's exception. Off systemd the `execv`
  of `system.py:81` gives another: it drops the lock but not the ansible child. In both
  nobody looks after that child any more, and its row is already settled.
* An exception ends the tick of the scheduler, and its cause is usually there at the
  next tick. The schedules after the one that raises are then never reached, and those
  before it whose new time was rolled back run again every 30 s: their runs commit, the
  time goes with the exception (`scheduler.py:189-193`). `DueRuns` and `NoRefire` except
  exactly this.
* The page of a scheduled run that is running neither streams nor reloads: the panel has
  no runtime for its row (`headless.py:136-139`, `routers/jobs.py:131`).
  `StaticPagesAreOfEndedJobs` is about the panel's jobs.
* A job whose preparation raises `ValueError` after the flush (`service.py:107-133`)
  leaves a committed row that says queued and that nobody owns; its page reloads every
  4 s (`job_detail.html:90-95`) until a restart of the panel fails the row.
* When panel and scheduler sweep at once, `d.stat()` (`housekeeping.py:38`) can raise in
  the finally block of a job: slot, runtime and lock stay taken until the panel restarts.
* The guard of `jobs.py:340-343` compares ids, not starts: a job of the panel that
  waited and started last loses to a scheduled run that took its id later.
* A tick keeps SQLite's write lock through a network scan when a schedule before it
  had no targets; the scan then cannot report through its own session.
* A job page that is open while its job runs shows the lines of the stored text and
  the backlog twice until it reloads. A page that read the row before the end and
  looked for the runtime after it stays as it is, with what log there was.
* A job that takes so long that it is no longer among the newest has its log cleared
  by the purge in its own finally block. The line of a runner error is published and
  never in `stdout.log`.
* A coroutine that died before its try, or in the housekeeping before the end marker,
  leaves its runtime registered: pages of that
  job stream for ever (`WatchersSeeTheEnd` excepts it). A reply that is not 200 while
  the panel restarts closes a page's EventSource for good (`job_detail.html:118`).
* `sse.js`: the comment at 203-205 promises a look at an existing source that the code
  does not take, so an element with a source inside another is opened twice and the
  first is lost. The second loop of `registerSSE` (164-199) adds its listeners to no
  source. `2 ^ retryCount` (255) is an exclusive or. The listeners of one element share
  their loop variables, so removing one removes the last. `onerror` closes the recorded
  source, which need not be the one that failed.
* `plugins.py:217` says group overlays apply in id order; the code applies
  ancestors first.

## 7. Plan

Done: the job manager, the hosts' results, the groups, the scheduler, the console,
the discoveries, the logs and run directories of jobs with their streams, and the SSE
extension. Next, in this order:

1. *Accounts*: lockout, first-run setup, last administrator.
2. *Inventory*: order of the unguarded refreshes at the end of `_finalize`; id reuse
   after the deletion of a host; the docker containers of hosts that stop answering.
3. *Facts probe*: its shared run directory and the key file that outlives a failed start.

Runs are few on purpose: a new module gets one passing run, and a violation run
only for a disagreement with a document; older runs are merged to make room.

Not modelled and not planned: templates, ANSI rendering, cryptography, the parsers of pct and
scan output, and the Ansible content: they keep no state of their own.
