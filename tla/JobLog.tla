------------------------------ MODULE JobLog ------------------------------
(***************************************************************************)
(* The log of a job: its live stream to the job pages that are open        *)
(* (JobRuntime of jobs.py, routers/jobs.py, templates/job_detail.html), its*)
(* copy in the database, its run directory, and the housekeeping of both.  *)
(*                                                                         *)
(* Three kinds of actor: the event loop of the panel, whose coroutines run *)
(* from await to await; the threads that render job pages, which see the   *)
(* loop at work between any two of its writes; and the scheduler child,    *)
(* which does housekeeping too and runs jobs of its own.  The pool is      *)
(* always allowed to run: the run lock, the drain and failures of the      *)
(* database before and in _finalize are in JobManager.                     *)
(***************************************************************************)
EXTENDS Naturals, Sequences, FiniteSets

CONSTANTS
  Pages,       \* browser tabs
  Limit,       \* max_concurrent()
  Keep,        \* JOB_LOG_RETENTION, at least 1
  MaxJobs,     \* bound: jobs submitted
  MaxOut,      \* bound: lines of output of a job
  MaxCrashes,  \* bound: crashes of the panel
  MaxDrops,    \* bound: connections lost by the network
  NoJob        \* what a tab shows that shows no job

Jobs == 1..MaxJobs

ASSUME LogAssumption ==
  /\ Limit \in Nat \ {0} /\ Keep \in Nat \ {0}
  /\ MaxJobs \in Nat /\ MaxOut \in Nat /\ MaxCrashes \in Nat /\ MaxDrops \in Nat
  /\ NoJob \notin Jobs

Line == {"cmd", "out", "error", "finished", "DONE"}
Text == Seq(Line)

VARIABLES
  phase,    \* where a job is in its life (below)
  queue,    \* JobManager._queue
  lines,    \* JobRuntime.lines
  status,   \* the row's status; "ended" is success, failed or cancelled
  text,     \* the row's log_text, <<>> when NULL
  dirs,     \* the run directories, the oldest mtime first
  view,     \* what a tab is showing
  job,      \* the job whose page that is
  seen,     \* the status that page was rendered with
  conn,     \* its EventSource as the panel knows it
  fifo,     \* the queue that subscribe() made for it
  got,      \* the lines it was sent on this connection
  up,       \* the panel is serving
  crashes, drops

jobvars == <<phase, queue, lines, status>>
store == <<text, dirs>>
tabs == <<view, job, seen>>
wires == <<conn, fifo, got>>
faults == <<crashes, drops>>
vars == <<jobvars, store, tabs, wires, up, faults>>

(* "promoted": in _active, row not yet written; "created": the coroutine   *)
(* has not run yet; "saved", "swept", "purged": in the finally block, after*)
(* _finalize, purge_run_dirs and purge_job_logs; "over": _run has returned;*)
(* "dead", "stuck": it raised before its try, or in the housekeeping;      *)
(* "orphan": a queued row that was never submitted; "abroad": a run of the *)
(* scheduler; "lost": the panel died first.                                *)
Phases == {"none", "queued", "promoted", "created", "running", "saved", "swept", "purged",
           "over", "dead", "stuck", "orphan", "abroad", "cancelled", "lost"}

(* Mutant: the runtime is registered when its coroutine first runs. *)
RuntimeOnceRunning == {"running", "saved", "swept", "purged", "dead", "stuck"}

RuntimePhases == {"promoted", "created", "running", "saved", "swept", "purged", "dead", "stuck"}

(* get_runtime(j) is not None *)
Active(j) == phase[j] \in RuntimePhases

Promotable == queue # <<>> /\ Cardinality({j \in Jobs : Active(j)}) < Limit

(* The event loop is between two callbacks. *)
LoopFree ==
  /\ up
  /\ \A j \in Jobs : phase[j] \notin {"promoted", "saved", "swept", "purged"}
  /\ ~Promotable

Init ==
  /\ phase = [j \in Jobs |-> "none"] /\ queue = <<>>
  /\ lines = [j \in Jobs |-> <<>>] /\ status = [j \in Jobs |-> "none"]
  /\ text = [j \in Jobs |-> <<>>] /\ dirs = <<>>
  /\ view = [p \in Pages |-> "away"] /\ job = [p \in Pages |-> NoJob]
  /\ seen = [p \in Pages |-> "none"]
  /\ conn = [p \in Pages |-> "none"] /\ fifo = [p \in Pages |-> <<>>]
  /\ got = [p \in Pages |-> <<>>]
  /\ up = TRUE /\ crashes = 0 /\ drops = 0

-----------------------------------------------------------------------------
(* Housekeeping *)

Elems(s) == {s[i] : i \in DOMAIN s}
RemoveAt(s, i) == SubSeq(s, 1, i - 1) \o SubSeq(s, i + 1, Len(s))

(* A file is made or removed in the i-th oldest directory. *)
Touched(i) == Append(RemoveAt(dirs, i), dirs[i])

(* purge_run_dirs: the newest directories by mtime. *)
NewestDirs(ds) == IF Len(ds) <= Keep THEN ds ELSE SubSeq(ds, Len(ds) - Keep + 1, Len(ds))

Rows == {j \in Jobs : status[j] # "none"}

(* Mutants: the oldest rows; one row too many. *)
OldestRows(j) == Cardinality({i \in Rows : i < j}) < Keep
OneTooMany(j) == Cardinality({i \in Rows : i > j}) <= Keep

(* The newest Keep rows by id. *)
Recent(j) == Cardinality({i \in Rows : i > j}) < Keep

(* purge_job_logs *)
PurgedTexts == [j \in Jobs |-> IF Recent(j) THEN text[j] ELSE <<>>]

(* The scheduler child does the same, at any time. *)
ChildSweeps ==
  /\ dirs' = NewestDirs(dirs) /\ dirs' # dirs
  /\ UNCHANGED <<jobvars, text, tabs, wires, up, faults>>

ChildPurges ==
  /\ text' = PurgedTexts /\ text' # text
  /\ UNCHANGED <<jobvars, dirs, tabs, wires, up, faults>>

-----------------------------------------------------------------------------
(* JobRuntime *)

(* Mutant: the end marker is passed on and not kept. *)
KeptButTheMarker(j, ls) == lines[j] \o SelectSeq(ls, LAMBDA l : l # "DONE")

KeptLines(j, ls) == lines[j] \o ls

(* publish() of some lines, to every subscriber. *)
Publish(j, ls) ==
  /\ lines' = [lines EXCEPT ![j] = KeptLines(j, ls)]
  /\ fifo' = [p \in Pages |-> IF conn[p] = "fed" /\ job[p] = j THEN fifo[p] \o ls ELSE fifo[p]]
  /\ UNCHANGED <<conn, got>>

(* Mutant: no backlog. *)
NoBacklog(j) == <<>>

Backlog(j) == lines[j]

-----------------------------------------------------------------------------
(* Jobs *)

(* Ids are given in the order of the commits. *)
NextRow(j) == status[j] = "none" /\ \A i \in Jobs : i < j => i \in Rows

(* start_job, up to the dispatch. *)
Submit(j) ==
  /\ LoopFree /\ NextRow(j)
  /\ phase' = [phase EXCEPT ![j] = "queued"]
  /\ status' = [status EXCEPT ![j] = "queued"]
  /\ queue' = Append(queue, j)
  /\ dirs' = Append(dirs, j)
  /\ UNCHANGED <<lines, text, tabs, wires, up, faults>>

(* start_job raises ValueError after the flush and the route commits, or   *)
(* submit raises PanelRestarting.                                          *)
SubmitLeavesRow(j) ==
  /\ LoopFree /\ NextRow(j)
  /\ phase' = [phase EXCEPT ![j] = "orphan"]
  /\ status' = [status EXCEPT ![j] = "queued"]
  /\ dirs' = Append(dirs, j)
  /\ UNCHANGED <<queue, lines, text, tabs, wires, up, faults>>

(* run_now of the scheduler child, at any time, up to its first commit.    *)
AbroadBegins(j) ==
  /\ up /\ NextRow(j)
  /\ phase' = [phase EXCEPT ![j] = "abroad"]
  /\ status' = [status EXCEPT ![j] = "running"]
  /\ dirs' = Append(dirs, j)
  /\ UNCHANGED <<queue, lines, text, tabs, wires, up, faults>>

(* The rest of it: what secrets there are go, and the row gets its end (the*)
(* log is left in the directory).                                          *)
AbroadEnds(j) ==
  /\ phase[j] = "abroad" /\ status[j] = "running"
  /\ status' = [status EXCEPT ![j] = "ended"]
  /\ \/ dirs' = dirs
     \/ \E i \in DOMAIN dirs : dirs[i] = j /\ dirs' = Touched(i)
  /\ UNCHANGED <<phase, queue, lines, text, tabs, wires, up, faults>>

(* _dispatch: pop, and the first line of _start. *)
Promote ==
  /\ up /\ Promotable /\ \A j \in Jobs : phase[j] \notin {"promoted", "saved", "swept", "purged"}
  /\ phase' = [phase EXCEPT ![Head(queue)] = "promoted"]
  /\ queue' = Tail(queue)
  /\ UNCHANGED <<lines, status, store, tabs, wires, up, faults>>

(* The rest of _start. *)
WriteRunning(j) ==
  /\ phase[j] = "promoted"
  /\ phase' = [phase EXCEPT ![j] = "created"]
  /\ status' = [status EXCEPT ![j] = "running"]
  /\ UNCHANGED <<queue, lines, store, tabs, wires, up, faults>>

(* _run up to its first await; it dies when the run directory is gone. *)
OpenLog(j) ==
  /\ LoopFree /\ phase[j] = "created"
  /\ \/ /\ \E i \in DOMAIN dirs : dirs[i] = j /\ dirs' = Touched(i)
        /\ phase' = [phase EXCEPT ![j] = "running"]
        /\ Publish(j, <<"cmd">>)
     \/ /\ j \notin Elems(dirs)
        /\ phase' = [phase EXCEPT ![j] = "dead"]
        /\ UNCHANGED <<lines, dirs, wires>>
  /\ UNCHANGED <<queue, status, text, tabs, up, faults>>

Outputs(j) == Cardinality({i \in DOMAIN lines[j] : lines[j][i] = "out"})

Output(j) ==
  /\ LoopFree /\ phase[j] = "running" /\ Outputs(j) < MaxOut
  /\ Publish(j, <<"out">>)
  /\ UNCHANGED <<phase, queue, status, store, tabs, up, faults>>

(* The process has ended, or the runner raised; then _finalize.  A cancel  *)
(* sends a signal and so comes down to the first.                          *)
Finalize(j, failure) ==
  /\ LoopFree /\ phase[j] = "running"
  /\ Publish(j, failure)
  /\ phase' = [phase EXCEPT ![j] = "saved"]
  /\ status' = [status EXCEPT ![j] = "ended"]
  /\ text' = [text EXCEPT ![j] = lines'[j]]
  /\ UNCHANGED <<queue, dirs, tabs, up, faults>>

(* _cleanup_secrets unlinks what secrets there are, then purge_run_dirs. *)
Sweep(j) ==
  /\ up /\ phase[j] = "saved"
  /\ phase' = [phase EXCEPT ![j] = "swept"]
  /\ \/ dirs' = NewestDirs(dirs)
     \/ \E i \in DOMAIN dirs : dirs[i] = j /\ dirs' = NewestDirs(Touched(i))
  /\ UNCHANGED <<queue, lines, status, text, tabs, wires, up, faults>>

(* A directory is gone between iterdir and stat, the scheduler child having*)
(* swept too; or purge_job_logs finds the database locked.  What follows in*)
(* the finally block is not done.                                          *)
HousekeepingRaises(j) ==
  /\ up
  /\ \/ phase[j] = "saved" /\ Len(dirs) > Keep /\ dirs' = NewestDirs(dirs)
     \/ phase[j] = "swept" /\ UNCHANGED dirs
  /\ phase' = [phase EXCEPT ![j] = "stuck"]
  /\ UNCHANGED <<queue, lines, status, text, tabs, wires, up, faults>>

Purge(j) ==
  /\ up /\ phase[j] = "swept"
  /\ phase' = [phase EXCEPT ![j] = "purged"]
  /\ text' = PurgedTexts
  /\ UNCHANGED <<queue, lines, status, dirs, tabs, wires, up, faults>>

(* The last lines, and the runtime leaves _active. *)
Over(j) ==
  /\ up /\ phase[j] = "purged"
  /\ Publish(j, <<"finished", "DONE">>)
  /\ phase' = [phase EXCEPT ![j] = "over"]
  /\ UNCHANGED <<queue, status, store, tabs, up, faults>>

(* cancel() of a queued job; of a running one, before its process ends. *)
Cancel(j) ==
  /\ LoopFree
  /\ \/ /\ \E i \in DOMAIN queue : queue[i] = j /\ queue' = RemoveAt(queue, i)
        /\ phase' = [phase EXCEPT ![j] = "cancelled"]
     \/ phase[j] = "running" /\ status[j] = "running" /\ UNCHANGED <<phase, queue>>
  /\ status' = [status EXCEPT ![j] = "ended"]
  /\ UNCHANGED <<lines, store, tabs, wires, up, faults>>

(* The panel dies: its memory and its connections go, a page that was being*)
(* loaded is an error of the browser.                                      *)
Crash ==
  /\ up /\ crashes < MaxCrashes
  /\ up' = FALSE /\ crashes' = crashes + 1
  /\ phase' = [j \in Jobs |->
                IF Active(j) \/ phase[j] \in {"queued", "orphan"} THEN "lost" ELSE phase[j]]
  /\ queue' = <<>>
  /\ lines' = [j \in Jobs |-> <<>>]
  /\ conn' = [p \in Pages |-> "none"]
  /\ fifo' = [p \in Pages |-> <<>>]
  /\ got' = [p \in Pages |-> <<>>]
  /\ view' = [p \in Pages |-> IF view[p] = "row" THEN "away" ELSE view[p]]
  /\ UNCHANGED <<status, store, job, seen, drops>>

(* lifespan: what was left running or queued has failed. *)
Restart ==
  /\ ~up /\ up' = TRUE
  /\ status' = [j \in Jobs |-> IF status[j] \in {"queued", "running"} THEN "ended" ELSE status[j]]
  /\ UNCHANGED <<phase, queue, lines, store, tabs, wires, faults>>

-----------------------------------------------------------------------------
(* Job pages.  job_detail runs in a thread: it reads the row, then whether *)
(* the job has a runtime.                                                  *)

ReadRow(p, j) ==
  /\ view' = [view EXCEPT ![p] = "row"]
  /\ job' = [job EXCEPT ![p] = j]
  /\ seen' = [seen EXCEPT ![p] = status[j]]
  /\ UNCHANGED <<jobvars, store, wires, up, faults>>

Open(p, j) ==
  /\ up /\ view[p] \in {"away", "static"} /\ j \in Rows
  /\ ReadRow(p, j)

Render(p) ==
  /\ up /\ view[p] = "row"
  /\ view' = [view EXCEPT ![p] = IF Active(job[p]) THEN "live"
                                 ELSE IF seen[p] = "queued" THEN "queued" ELSE "static"]
  /\ UNCHANGED <<jobvars, store, job, seen, wires, up, faults>>

(* location.reload(): of a queued job's page every 4 s, of a live one's    *)
(* 1.2 s after the event `done'.                                           *)
Reload(p) ==
  /\ view[p] \in {"queued", "finishing"}
  /\ \/ up /\ ReadRow(p, job[p])
     \/ /\ ~up /\ view' = [view EXCEPT ![p] = "away"]
        /\ UNCHANGED <<jobvars, store, job, seen, wires, up, faults>>

(* The EventSource of a live page, at first or again: job_stream. *)
Connect(p) ==
  /\ LoopFree /\ view[p] = "live" /\ conn[p] = "none"
  /\ \/ Active(job[p]) /\ conn' = [conn EXCEPT ![p] = "asked"] /\ UNCHANGED view
     \/ ~Active(job[p]) /\ view' = [view EXCEPT ![p] = "finishing"] /\ UNCHANGED conn
  /\ got' = [got EXCEPT ![p] = <<>>]
  /\ UNCHANGED <<jobvars, store, job, seen, fifo, up, faults>>

(* event_gen begins, on the runtime that was looked up. *)
Subscribe(p) ==
  /\ LoopFree /\ conn[p] = "asked"
  /\ conn' = [conn EXCEPT ![p] = "fed"]
  /\ fifo' = [fifo EXCEPT ![p] = Backlog(job[p])]
  /\ UNCHANGED <<jobvars, store, tabs, got, up, faults>>

(* One line of the queue goes out; the marker ends the stream. *)
Feed(p) ==
  /\ LoopFree /\ conn[p] = "fed" /\ fifo[p] # <<>>
  /\ got' = [got EXCEPT ![p] = Append(@, Head(fifo[p]))]
  /\ \/ /\ Head(fifo[p]) = "DONE"
        /\ conn' = [conn EXCEPT ![p] = "none"]
        /\ fifo' = [fifo EXCEPT ![p] = <<>>]
        /\ view' = [view EXCEPT ![p] = "finishing"]
     \/ /\ Head(fifo[p]) # "DONE"
        /\ fifo' = [fifo EXCEPT ![p] = Tail(@)]
        /\ UNCHANGED <<conn, view>>
  /\ UNCHANGED <<jobvars, store, job, seen, up, faults>>

(* The network loses a connection; the browser makes another. *)
Drop(p) ==
  /\ up /\ conn[p] # "none" /\ drops < MaxDrops
  /\ drops' = drops + 1
  /\ conn' = [conn EXCEPT ![p] = "none"]
  /\ fifo' = [fifo EXCEPT ![p] = <<>>]
  /\ got' = [got EXCEPT ![p] = <<>>]
  /\ UNCHANGED <<jobvars, store, tabs, up, crashes>>

-----------------------------------------------------------------------------
JobStep(j) ==
  \/ WriteRunning(j) \/ OpenLog(j) \/ Sweep(j) \/ Purge(j) \/ Over(j)
  \/ \E failure \in {<<>>, <<"error">>} : Finalize(j, failure)

TabStep(p) == Render(p) \/ Reload(p) \/ Connect(p) \/ Subscribe(p) \/ Feed(p)

Next ==
  \/ \E j \in Jobs : \/ Submit(j) \/ Output(j) \/ Cancel(j) \/ JobStep(j)
                     \/ SubmitLeavesRow(j) \/ AbroadBegins(j) \/ AbroadEnds(j)
                     \/ HousekeepingRaises(j)
  \/ Promote \/ Crash \/ Restart \/ ChildSweeps \/ ChildPurges
  \/ \E p \in Pages : TabStep(p) \/ Drop(p) \/ \E j \in Jobs : Open(p, j)

Spec == Init /\ [][Next]_vars

(* The event loop runs what is ready, a process ends in the end, a tab does*)
(* what its page says, and systemd restarts the panel.                     *)
Fairness ==
  /\ WF_vars(Promote) /\ WF_vars(Restart)
  /\ \A j \in Jobs : WF_vars(JobStep(j))
  /\ \A p \in Pages : WF_vars(TabStep(p))

FairSpec == Spec /\ Fairness

-----------------------------------------------------------------------------
(* Properties *)

(* Every variable keeps its type. *)
TypeOK ==
  /\ phase \in [Jobs -> Phases]
  /\ queue \in Seq(Jobs) /\ dirs \in Seq(Jobs)
  /\ lines \in [Jobs -> Text] /\ text \in [Jobs -> Text]
  /\ status \in [Jobs -> {"none", "queued", "running", "ended"}]
  /\ view \in [Pages -> {"away", "row", "live", "queued", "finishing", "static"}]
  /\ job \in [Pages -> Jobs \cup {NoJob}]
  /\ seen \in [Pages -> {"none", "queued", "running", "ended"}]
  /\ conn \in [Pages -> {"none", "asked", "fed"}]
  /\ fifo \in [Pages -> Text] /\ got \in [Pages -> Text]
  /\ up \in BOOLEAN /\ crashes \in 0..MaxCrashes /\ drops \in 0..MaxDrops

(* Whenever a page subscribed (before the first line, in the middle, or    *)
(* after the end, jobs.py:46), what it was sent and what is still queued   *)
(* for it are together the job's whole log, each line once and in order;   *)
(* and the end marker comes last, so a page that is told the end has it    *)
(* all (routers/jobs.py:175).                                              *)
StreamIsWhole ==
  \A p \in Pages :
    /\ conn[p] = "fed" => got[p] \o fifo[p] = lines[job[p]]
    /\ view[p] = "finishing" /\ got[p] # <<>> => got[p] = lines[job[p]]

(* A page is told the end when its stream closed with the marker; a page   *)
(* whose job had no runtime any more reloads without having been told.     *)
Stage(p) ==
  IF conn[p] = "fed" THEN "following"
  ELSE IF view[p] = "finishing" /\ got[p] # <<>> THEN "told" ELSE "away"

stageBar == [p \in Pages |-> Stage(p)]
ofBar == [p \in Pages |-> IF Stage(p) = "away" THEN NoJob ELSE job[p]]
sentBar == [p \in Pages |-> IF Stage(p) = "away" THEN <<>> ELSE got[p]]

Batches == {<<"cmd">>, <<"out">>, <<"error">>, <<"finished", "DONE">>}

LogStream == INSTANCE LogStream WITH
  log <- lines, stage <- stageBar, of <- ofBar, sent <- sentBar, End <- "DONE"

(* The queue of each subscriber, its backlog and the lines published while *)
(* it waits (jobs.py:43-57), through lost connections and reloads, come to *)
(* the promise of LogStream: every line of the job once, in order, nothing *)
(* after the end, and no end before the last line.                         *)
ImplementsLogStream == LogStream!Spec

(* A job that ran to its end keeps its output in its row as long as it is  *)
(* among the Keep newest, whatever is purged by the panel and by the       *)
(* scheduler child meanwhile (housekeeping.py:52).                         *)
RecentLogsStored ==
  \A j \in Jobs :
    phase[j] \in {"saved", "swept", "stuck", "purged", "over"} /\ Cardinality({i \in Rows : i > j}) < Keep =>
      /\ text[j] # <<>>
      /\ lines[j] \in {<<>>, text[j], text[j] \o <<"finished", "DONE">>}

(* The rows hold no more logs than are kept, but for the jobs that are     *)
(* being finalised and those a crash, or an exception of the housekeeping, *)
(* left so, although jobs finish out of the order of their ids             *)
(* (jobs.py:288).                                                          *)
StoredLogsBounded ==
  Cardinality({j \in Jobs : text[j] # <<>> /\ phase[j] \notin {"saved", "swept", "stuck", "lost"}})
    <= Keep

(* A page that neither streams nor reloads is not that of a job of the     *)
(* panel that is to come or running: between its look at the row and its   *)
(* look for the runtime the loop may start or end the job                  *)
(* (routers/jobs.py:131).  A run of the scheduler has no runtime here, and *)
(* its page is static while it runs.                                       *)
StaticPagesAreOfEndedJobs ==
  \A p \in Pages :
    view[p] = "static" => status[job[p]] = "ended" \/ phase[job[p]] = "abroad"

(* A page that watches a job is told in the end: it stops streaming and    *)
(* reloading, through lost connections and restarts (job_detail.html:118), *)
(* unless its job is a row that was never submitted, whose page reloads    *)
(* until the panel restarts, or the coroutine of its job died, or those of *)
(* other jobs died with every slot.                                        *)
WatchersSeeTheEnd ==
  \A p \in Pages :
    view[p] \in {"live", "queued", "finishing"}
      ~> \/ view[p] \in {"static", "away"}
         \/ phase[job[p]] \in {"orphan", "dead", "stuck"}
         \/ Cardinality({j \in Jobs : phase[j] \in {"dead", "stuck"}}) >= Limit

(* "the newest run dir (the active job, if any) is always preserved",      *)
(* housekeeping.py:11-12.                                                  *)
ActiveDirsPreserved == \A j \in Jobs : Active(j) => j \in Elems(dirs)
=============================================================================
