-------------------------- MODULE SchedulerProofs --------------------------
(***************************************************************************)
(* Safety of Scheduler for any number of children, schedules, edits and    *)
(* crashes: its types, that the status names the one scheduler there is    *)
(* (under systemd), that the write lock is free while ansible runs, and    *)
(* that only a rollback makes a child run a schedule twice.                *)
(***************************************************************************)
EXTENDS Scheduler, TLAPS

USE SchedulerAssumption

PcStates == {"none", "booting", "loop", "tick", "scan", "run", "gone"}

LEMMA EnsureRunningType ==
  ASSUME NEW procs \in [Pids -> PcStates], NEW known \in {0} \cup Pids,
         NEW file \in {0} \cup Pids, EnsureRunning(procs, known, file)
  PROVE  /\ pc' \in [Pids -> PcStates]
         /\ handle' \in {0} \cup Pids
         /\ \A p \in Pids : pc'[p] \in {procs[p], "booting"}
BY DEF EnsureRunning, PcStates, Pids

LEMMA StopChildType ==
  ASSUME TypeOK, StopChild
  PROVE  /\ pc' \in [Pids -> PcStates] /\ stopping' \subseteq Pids
         /\ handle' \in {0} \cup Pids /\ pidfile' \in {0} \cup Pids
         /\ \A p \in Pids : pc'[p] \in {pc[p], "gone"}
BY DEF StopChild, TypeOK, PcStates, Status, StatusOf, Pids

LEMMA AbortType ==
  ASSUME TypeOK, NEW p \in Pids, Abort(p), budget' \in [Bounds -> Nat]
  PROVE  TypeOK'
BY DEF Abort, Release, TypeOK, manager

LEMMA GoneType ==
  ASSUME TypeOK, NEW S \in SUBSET Pids, Gone(S)
  PROVE  /\ stopping' \subseteq Pids /\ db' \in {0} \cup Pids
         /\ todo' \in [Pids -> SUBSET Schedules]
         /\ fresh' \in [Pids -> SUBSET Schedules]
         /\ pend' \in [Pids -> SUBSET Schedules]
         /\ ran' \in [Pids -> SUBSET Schedules]
         /\ \A p \in Pids \ S : todo'[p] = todo[p]
BY DEF Gone, TypeOK

LEMMA SavedType ==
  ASSUME TypeOK, NEW S
  PROVE  Saved(S) \in [Schedules -> RowStates]
BY DEF Saved, TypeOK, RowStates

LEMMA SpendType ==
  ASSUME TypeOK, NEW b \in Bounds, Spend(b)
  PROVE  budget' \in [Bounds -> Nat]
BY DEF Spend, TypeOK

LEMMA InitType == Init => TypeOK
BY DEF Init, TypeOK, RowStates, Pids, Bounds

LEMMA ProceedsType ==
  ASSUME TypeOK, NEW p \in Pids, Proceeds(p)
  PROVE  TypeOK'
<1> USE DEF table, session, manager
<1>1. CASE Boots(p)
  BY <1>1 DEF Boots, TypeOK
<1>2. CASE TickBegins(p)
  BY <1>2 DEF TickBegins, Loaded, TypeOK
<1>3. CASE FirstSeen(p)
  BY <1>3 DEF FirstSeen, Reschedule, TypeOK
<1>4. CASE ScanBegins(p)
  BY <1>4 DEF ScanBegins, Firing, At, TypeOK, Schedules
<1>5. CASE ScanEnds(p)
  BY <1>5 DEF ScanEnds, Reschedule, TypeOK, Schedules
<1>6. CASE NothingToRun(p)
  BY <1>6 DEF NothingToRun, Firing, Reschedule, TypeOK
<1>7. CASE RunBegins(p)
  BY <1>7, SavedType DEF RunBegins, Firing, At, Release, TypeOK
<1>8. CASE RunEnds(p)
  BY <1>8 DEF RunEnds, Reschedule, TypeOK
<1>9. CASE TickEnds(p)
  BY <1>9, SavedType DEF TickEnds, Release, TypeOK
<1>10. CASE WriteFails(p)
  BY <1>10, AbortType DEF WriteFails, TypeOK
<1>11. CASE Leaves(p)
  BY <1>11, GoneType DEF Leaves, TypeOK
<1> QED
  BY <1>1, <1>2, <1>3, <1>4, <1>5, <1>6, <1>7, <1>8, <1>9, <1>10, <1>11 DEF Proceeds

LEMMA TypeStep == TypeOK /\ [Next]_vars => TypeOK'
<1> SUFFICES ASSUME TypeOK, [Next]_vars PROVE TypeOK'
  OBVIOUS
<1> USE DEF table, session, manager
<1>1. ASSUME NEW p \in Pids, Proceeds(p) PROVE TypeOK'
  BY <1>1, ProceedsType
<1>2. ASSUME NEW p \in Pids, NEW s \in Schedules, TickRaises(p, s) PROVE TypeOK'
  BY <1>2, AbortType DEF TickRaises, TypeOK
<1>3. ASSUME NEW p \in Pids, Crashes(p) PROVE TypeOK'
  BY <1>3, GoneType, SpendType DEF Crashes, TypeOK, Bounds
<1>4. CASE Start
  BY <1>4, EnsureRunningType DEF Start, TypeOK, PcStates
<1>5. CASE Stop
  BY <1>5, StopChildType DEF Stop, TypeOK, PcStates
<1>6. CASE RestartStops
  BY <1>6, StopChildType DEF RestartStops, TypeOK, PcStates
<1>7. CASE RestartStarts
  BY <1>7, EnsureRunningType DEF RestartStarts, TypeOK, PcStates
<1>8. CASE PanelRestarts
  <2> DEFINE killed == [p \in Pids |-> IF Alive(pc, p) THEN "gone" ELSE pc[p]]
  <2>1. killed \in [Pids -> PcStates] /\ pc \in [Pids -> PcStates]
    BY DEF TypeOK, PcStates
  <2>2. CASE UnderSystemd
    <3>1. EnsureRunning(killed, 0, pidfile) /\ Gone(Pids)
      BY <1>8, <2>2 DEF PanelRestarts
    <3>2. \A p \in Pids : killed[p] \notin {"scan", "run"}
      BY DEF Alive, TypeOK, Pids
    <3> HIDE DEF killed
    <3>3. /\ pc' \in [Pids -> PcStates] /\ handle' \in {0} \cup Pids
          /\ \A p \in Pids : pc'[p] \notin {"scan", "run"}
      BY <2>1, <3>1, <3>2, EnsureRunningType DEF TypeOK
    <3> QED
      BY <1>8, <2>2, <3>1, <3>3, GoneType DEF PanelRestarts, TypeOK, PcStates
  <2>3. CASE ~UnderSystemd
    BY <1>8, <2>1, <2>3, EnsureRunningType DEF PanelRestarts, TypeOK, PcStates
  <2> QED
    BY <2>2, <2>3
<1>9. ASSUME NEW s \in Schedules, Toggle(s) \/ Delete(s) \/ Add(s) PROVE TypeOK'
  BY <1>9, SpendType DEF Toggle, Delete, Add, Edit, TypeOK, RowStates, Bounds
<1>10. ASSUME NEW s \in Schedules, TimePasses(s) PROVE TypeOK'
  BY <1>10, SpendType DEF TimePasses, TypeOK, RowStates, Bounds
<1>11. CASE UNCHANGED vars
  BY <1>11 DEF vars, TypeOK
<1> QED
  BY <1>1, <1>2, <1>3, <1>4, <1>5, <1>6, <1>7, <1>8, <1>9, <1>10, <1>11 DEF Next

(* Every variable of the scheduler and of its manager keeps its type.      *)
THEOREM TypeCorrect == Spec => []TypeOK
BY InitType, TypeStep, PTL DEF Spec
-----------------------------------------------------------------------------
(* Every living child is known by the handle or has been told to stop; and *)
(* neither the handle nor the pidfile names one that has been told, so     *)
(* that the status cannot lead to it.                                      *)
Known ==
  /\ \A p \in Pids : Alive(pc, p) => p \in stopping \/ p = handle
  /\ handle \notin stopping
  /\ Alive(pc, pidfile) => pidfile \notin stopping
  /\ \A p \in stopping : pc[p] \notin {"none", "booting"}

LEMMA KnownNames == TypeOK /\ Known => StatusNamesTheScheduler
BY DEF TypeOK, Known, StatusNamesTheScheduler, Status, StatusOf, Alive, Pids

LEMMA KnownInit == Init => Known
BY DEF Init, Known, Alive, Pids

(* A step inside a tick changes nothing the manager can see.               *)
LEMMA KnownInside ==
  ASSUME TypeOK, Known, NEW p \in Pids, NEW new,
         pc[p] \in {"loop", "tick", "scan", "run"},
         new \in {"loop", "tick", "scan", "run"},
         pc' = [pc EXCEPT ![p] = new], UNCHANGED <<manager, stopping>>
  PROVE  Known'
BY DEF TypeOK, Known, Alive, Pids, manager

LEMMA KnownUnchanged ==
  ASSUME Known, UNCHANGED <<manager, stopping, pc>>
  PROVE  Known'
BY DEF Known, Alive, manager

LEMMA AbortKnown ==
  ASSUME TypeOK, Known, NEW p \in Pids, pc[p] \in {"tick", "scan", "run"}, Abort(p)
  PROVE  Known'
BY KnownInside DEF Abort

LEMMA ProceedsKnown ==
  ASSUME TypeOK, Known, NEW p \in Pids, Proceeds(p)
  PROVE  Known'
<1>1. CASE Boots(p)
  BY <1>1 DEF Boots, TypeOK, Known, Alive, Pids
<1>2. CASE TickBegins(p)
  BY <1>2, KnownInside DEF TickBegins
<1>3. CASE FirstSeen(p) \/ NothingToRun(p)
  BY <1>3, KnownUnchanged DEF FirstSeen, NothingToRun
<1>4. CASE ScanBegins(p)
  BY <1>4, KnownInside DEF ScanBegins, Firing
<1>5. CASE ScanEnds(p)
  BY <1>5, KnownInside DEF ScanEnds
<1>6. CASE RunBegins(p)
  BY <1>6, KnownInside DEF RunBegins, Firing
<1>7. CASE RunEnds(p)
  BY <1>7, KnownInside DEF RunEnds
<1>8. CASE TickEnds(p)
  BY <1>8, KnownInside DEF TickEnds
<1>9. CASE WriteFails(p)
  BY <1>9, AbortKnown DEF WriteFails, Writing, Firing
<1>10. CASE Leaves(p)
  BY <1>10 DEF Leaves, Gone, TypeOK, Known, Alive, Pids
<1> QED
  BY <1>1, <1>2, <1>3, <1>4, <1>5, <1>6, <1>7, <1>8, <1>9, <1>10 DEF Proceeds

LEMMA EnsureRunningKnown ==
  ASSUME TypeOK, Known, EnsureRunning(pc, handle, pidfile), UNCHANGED <<pidfile, stopping>>
  PROVE  Known'
BY DEF EnsureRunning, StatusOf, NextPid, TypeOK, Known, Alive, Pids

LEMMA StopChildKnown ==
  ASSUME TypeOK, Known, StopChild
  PROVE  Known'
<1>1. CASE Status = 0
  BY <1>1, KnownUnchanged DEF StopChild, Known, Alive
<1>2. CASE Status # 0
  <2>1. /\ Status \in Pids /\ Alive(pc, Status)
        /\ Alive(pc, handle) => Status = handle
    BY <1>2 DEF Status, StatusOf, TypeOK, Alive
  <2>2. /\ handle' = 0 /\ pidfile' = 0
        /\ IF pc[Status] = "booting"
           THEN pc' = [pc EXCEPT ![Status] = "gone"] /\ stopping' = stopping
           ELSE stopping' = stopping \cup {Status} /\ pc' = pc
    BY <1>2 DEF StopChild
  <2> DEFINE told == Status
  <2> HIDE DEF told
  <2>3. /\ told \in Pids /\ Alive(pc, told) /\ (Alive(pc, handle) => told = handle)
        /\ IF pc[told] = "booting"
           THEN pc' = [pc EXCEPT ![told] = "gone"] /\ stopping' = stopping
           ELSE stopping' = stopping \cup {told} /\ pc' = pc
    BY <2>1, <2>2 DEF told
  <2>4. CASE pc[told] = "booting"
    <3>1. \A p \in Pids : pc'[p] = IF p = told THEN "gone" ELSE pc[p]
      BY <2>3, <2>4 DEF TypeOK
    <3>2. \A p \in Pids : Alive(pc', p) => p \in stopping
      BY <2>3, <3>1 DEF Known, Alive
    <3>3. \A p \in stopping : pc'[p] \notin {"none", "booting"}
      BY <3>1 DEF TypeOK, Known
    <3>4. stopping' = stopping /\ 0 \notin stopping
      BY <2>3, <2>4 DEF TypeOK, Pids
    <3> QED
      BY <2>2, <3>2, <3>3, <3>4 DEF Known, Alive
  <2>5. CASE pc[told] # "booting"
    <3>1. \A p \in Pids : Alive(pc', p) => p \in stopping'
      BY <2>2, <2>3, <2>5 DEF Known, Alive
    <3>2. \A p \in stopping' : pc'[p] \notin {"none", "booting"}
      BY <2>3, <2>5 DEF Known, Alive
    <3> QED
      BY <2>2, <2>3, <2>5, <3>1, <3>2 DEF TypeOK, Known, Alive, Pids
  <2> QED
    BY <2>4, <2>5
<1> QED
  BY <1>1, <1>2

LEMMA KnownStep == UnderSystemd /\ TypeOK /\ Known /\ [Next]_vars => Known'
<1> SUFFICES ASSUME UnderSystemd, TypeOK, Known, [Next]_vars PROVE Known'
  OBVIOUS
<1>1. ASSUME NEW p \in Pids, Proceeds(p) PROVE Known'
  BY <1>1, ProceedsKnown
<1>2. ASSUME NEW p \in Pids, NEW s \in Schedules, TickRaises(p, s) PROVE Known'
  BY <1>2, AbortKnown DEF TickRaises
<1>3. ASSUME NEW p \in Pids, Crashes(p) PROVE Known'
  BY <1>3 DEF Crashes, Gone, TypeOK, Known, Alive, Pids, manager
<1>4. CASE Start \/ RestartStarts
  BY <1>4, EnsureRunningKnown DEF Start, RestartStarts
<1>5. CASE Stop \/ RestartStops
  BY <1>5, StopChildKnown DEF Stop, RestartStops
<1>6. CASE PanelRestarts
  <2> DEFINE killed == [p \in Pids |-> IF Alive(pc, p) THEN "gone" ELSE pc[p]]
  <2>1. EnsureRunning(killed, 0, pidfile) /\ Gone(Pids) /\ pidfile' \in {0, pidfile}
    BY <1>6 DEF PanelRestarts
  <2>2. \A p \in Pids : killed[p] \in {"none", "gone"}
    BY DEF Alive, Pids
  <2>3. StatusOf(killed, 0, pidfile) = 0
    BY <2>2 DEF StatusOf, Alive, TypeOK
  <2>4. killed \in [Pids -> PcStates]
    BY DEF TypeOK, PcStates
  <2> HIDE DEF killed
  <2>5. PICK p \in Pids : pc' = [killed EXCEPT ![p] = "booting"] /\ handle' = p
    BY <2>1, <2>3 DEF EnsureRunning
  <2>6. stopping' = {}
    BY <2>1 DEF Gone, TypeOK
  <2> QED
    BY <2>2, <2>4, <2>5, <2>6 DEF Known, Alive
<1>7. ASSUME NEW s \in Schedules, Toggle(s) \/ Delete(s) \/ Add(s) \/ TimePasses(s)
      PROVE  Known'
  BY <1>7, KnownUnchanged DEF Toggle, Delete, Add, Edit, TimePasses
<1>8. CASE UNCHANGED vars
  BY <1>8, KnownUnchanged DEF vars
<1> QED
  BY <1>1, <1>2, <1>3, <1>4, <1>5, <1>6, <1>7, <1>8 DEF Next

(* Under systemd the schedules page tells the truth: the children nobody   *)
(* asked to stop are exactly the one that status() finds, whatever is      *)
(* clicked and whatever crashes.                                           *)
THEOREM SchedulerIsNamed ==
  ASSUME UnderSystemd PROVE Spec => []StatusNamesTheScheduler
<1>1. Init => TypeOK /\ Known
  BY InitType, KnownInit
<1>2. TypeOK /\ Known /\ [Next]_vars => (TypeOK /\ Known)'
  BY TypeStep, KnownStep
<1>3. TypeOK /\ Known => StatusNamesTheScheduler
  BY KnownNames
<1> QED
  BY <1>1, <1>2, <1>3, PTL DEF Spec
-----------------------------------------------------------------------------
(* The holder of the write lock is inside a tick, and not in a run of      *)
(* ansible: whatever begins a run, or ends a tick, has committed.          *)
Holder == db # 0 => pc[db] \in {"tick", "scan"}

LEMMA ProceedsHolder ==
  ASSUME TypeOK, Holder, NEW p \in Pids, Proceeds(p)
  PROVE  Holder'
<1> USE DEF table
<1>1. CASE Boots(p) \/ TickBegins(p)
  BY <1>1 DEF Boots, TickBegins, TypeOK, Holder
<1>2. CASE FirstSeen(p)
  BY <1>2 DEF FirstSeen, Holder
<1>3. CASE ScanBegins(p) \/ ScanEnds(p)
  BY <1>3 DEF ScanBegins, ScanEnds, Firing, TypeOK, Holder
<1>4. CASE NothingToRun(p)
  BY <1>4 DEF NothingToRun, Firing, Holder
<1>5. CASE RunBegins(p)
  BY <1>5 DEF RunBegins, CanWrite, Release, Holder
<1>6. CASE RunEnds(p)
  BY <1>6 DEF RunEnds, TypeOK, Holder
<1>7. CASE TickEnds(p) \/ WriteFails(p)
  BY <1>7 DEF TickEnds, WriteFails, Abort, Release, TypeOK, Holder
<1>8. CASE Leaves(p)
  BY <1>8 DEF Leaves, Gone, TypeOK, Holder
<1> QED
  BY <1>1, <1>2, <1>3, <1>4, <1>5, <1>6, <1>7, <1>8 DEF Proceeds

(* Starting a child touches none that holds the lock. *)
LEMMA EnsureRunningHolder ==
  ASSUME TypeOK, Holder, EnsureRunning(pc, 0, pidfile) \/ EnsureRunning(pc, handle, pidfile),
         UNCHANGED db
  PROVE  Holder'
BY DEF EnsureRunning, NextPid, TypeOK, Holder

LEMMA StopChildHolder ==
  ASSUME TypeOK, Holder, StopChild, UNCHANGED db
  PROVE  Holder'
BY DEF StopChild, TypeOK, Holder

LEMMA HolderStep == TypeOK /\ Holder /\ [Next]_vars => Holder'
<1> SUFFICES ASSUME TypeOK, Holder, [Next]_vars PROVE Holder'
  OBVIOUS
<1> USE DEF table
<1>1. ASSUME NEW p \in Pids, Proceeds(p) PROVE Holder'
  BY <1>1, ProceedsHolder
<1>2. ASSUME NEW p \in Pids, NEW s \in Schedules, TickRaises(p, s) PROVE Holder'
  BY <1>2 DEF TickRaises, Abort, Release, TypeOK, Holder
<1>3. ASSUME NEW p \in Pids, Crashes(p) PROVE Holder'
  BY <1>3 DEF Crashes, Gone, TypeOK, Holder
<1>4. CASE Start \/ RestartStarts
  BY <1>4, EnsureRunningHolder DEF Start, RestartStarts
<1>5. CASE Stop \/ RestartStops
  BY <1>5, StopChildHolder DEF Stop, RestartStops
<1>6. CASE PanelRestarts
  <2>1. CASE UnderSystemd
    BY <1>6, <2>1 DEF PanelRestarts, Gone, TypeOK, Holder
  <2>2. CASE ~UnderSystemd
    BY <1>6, <2>2, EnsureRunningHolder DEF PanelRestarts
  <2> QED
    BY <2>1, <2>2
<1>7. ASSUME NEW s \in Schedules, Toggle(s) \/ Delete(s) \/ Add(s) \/ TimePasses(s)
      PROVE  Holder'
  BY <1>7 DEF Toggle, Delete, Add, Edit, TimePasses, Holder
<1>8. CASE UNCHANGED vars
  BY <1>8 DEF vars, Holder
<1> QED
  BY <1>1, <1>2, <1>3, <1>4, <1>5, <1>6, <1>7, <1>8 DEF Next

(* No ansible run of the scheduler, and no sleep of it, keeps the panel    *)
(* from writing to the database.                                           *)
THEOREM LockIsFree == Spec => []LockFreeWhileRunning
<1>1. Init => TypeOK /\ Holder
  BY InitType DEF Init, Holder
<1>2. TypeOK /\ Holder /\ [Next]_vars => (TypeOK /\ Holder)'
  BY TypeStep, HolderStep
<1>3. TypeOK /\ Holder => LockFreeWhileRunning
  BY DEF Holder, LockFreeWhileRunning
<1> QED
  BY <1>1, <1>2, <1>3, PTL DEF Spec
-----------------------------------------------------------------------------
(* A schedule that a child has run since it became due is past in the      *)
(* tick that ran it, and due in the table only while that tick, or the run *)
(* itself, still holds its new next_run_at back.                           *)
Current(p, s) == pc[p] \in {"scan", "run"} /\ At(p, s)

Past ==
  /\ \A p \in Pids, s \in Schedules :
       s \in todo[p] /\ s \notin fresh[p] /\ ~Current(p, s) => s \notin ran[p]
  /\ \A p \in Pids, s \in Schedules :
       s \in ran[p] /\ row[s] = "due" => s \in pend[p] \/ Current(p, s)
  /\ \A p \in Pids : pc[p] \notin {"tick", "scan", "run"} => pend[p] = {}

LEMMA OneAt ==
  ASSUME TypeOK, NEW p \in Pids, NEW s, NEW t, At(p, s), At(p, t)
  PROVE  s = t
<1>1. s \in Int /\ t \in Int
  BY DEF At, TypeOK, Schedules
<1> QED
  BY <1>1 DEF At

LEMMA AbortPast ==
  ASSUME TypeOK, Past, NEW p \in Pids, pc[p] \in {"tick", "scan", "run"}, Abort(p)
  PROVE  Past'
BY DEF Abort, Unsaved, TypeOK, Past, Current, At

LEMMA GonePast ==
  ASSUME TypeOK, Past, NEW S \in SUBSET Pids, Gone(S), UNCHANGED row,
         \A p \in Pids \ S : pc'[p] = pc[p]
  PROVE  Past'
BY DEF Gone, TypeOK, Past, Current, At

LEMMA PastOutside ==
  ASSUME TypeOK, Past, UNCHANGED <<row, session>>,
         \A p \in Pids : pc'[p] # pc[p] =>
           {pc[p], pc'[p]} \cap {"tick", "scan", "run"} = {}
  PROVE  Past'
BY DEF session, TypeOK, Past, Current, At

LEMMA ProceedsPast ==
  ASSUME TypeOK, Past, NEW p \in Pids, Proceeds(p)
  PROVE  Past'
<1> USE DEF table, session
<1>1. CASE Boots(p)
  BY <1>1, PastOutside DEF Boots, TypeOK
<1>2. CASE TickBegins(p)
  BY <1>2 DEF TickBegins, Loaded, TypeOK, Past, Current, At
<1>3. CASE FirstSeen(p) \/ NothingToRun(p)
  BY <1>3 DEF FirstSeen, NothingToRun, Firing, Reschedule, TypeOK, Past, Current, At
<1>4. CASE ScanBegins(p)
  BY <1>4, OneAt DEF ScanBegins, Firing, TypeOK, Past, Current, At
<1>5. CASE ScanEnds(p)
  BY <1>5, OneAt DEF ScanEnds, Reschedule, TypeOK, Past, Current, At
<1>6. CASE RunBegins(p)
  BY <1>6, OneAt DEF RunBegins, Firing, Saved, TypeOK, Past, Current, At
<1>7. CASE RunEnds(p)
  BY <1>7, OneAt DEF RunEnds, Reschedule, TypeOK, Past, Current, At
<1>8. CASE TickEnds(p)
  BY <1>8 DEF TickEnds, Saved, TypeOK, Past, Current, At
<1>9. CASE WriteFails(p)
  BY <1>9, AbortPast DEF WriteFails, Writing, Firing
<1>10. CASE Leaves(p)
  BY <1>10, GonePast DEF Leaves, TypeOK
<1> QED
  BY <1>1, <1>2, <1>3, <1>4, <1>5, <1>6, <1>7, <1>8, <1>9, <1>10 DEF Proceeds

LEMMA PastStep == TypeOK /\ Past /\ [Next]_vars => Past'
<1> SUFFICES ASSUME TypeOK, Past, [Next]_vars PROVE Past'
  OBVIOUS
<1> USE DEF table
<1>1. ASSUME NEW p \in Pids, Proceeds(p) PROVE Past'
  BY <1>1, ProceedsPast
<1>2. ASSUME NEW p \in Pids, NEW s \in Schedules, TickRaises(p, s) PROVE Past'
  BY <1>2, AbortPast DEF TickRaises
<1>3. ASSUME NEW p \in Pids, Crashes(p) PROVE Past'
  BY <1>3, GonePast DEF Crashes, TypeOK
<1>4. CASE Start \/ RestartStarts
  BY <1>4, PastOutside DEF Start, RestartStarts, EnsureRunning, NextPid, TypeOK
<1>5. CASE Stop \/ RestartStops
  BY <1>5, PastOutside DEF Stop, RestartStops, StopChild, TypeOK
<1>6. CASE PanelRestarts
  <2>1. CASE UnderSystemd
    BY <1>6, <2>1, GonePast DEF PanelRestarts
  <2>2. CASE ~UnderSystemd
    BY <1>6, <2>2, PastOutside DEF PanelRestarts, EnsureRunning, NextPid, TypeOK
  <2> QED
    BY <2>1, <2>2
<1>7. ASSUME NEW s \in Schedules, Toggle(s) \/ Delete(s) \/ Add(s) PROVE Past'
  BY <1>7 DEF Toggle, Delete, Add, Edit, session, TypeOK, Past, Current, At
<1>8. ASSUME NEW s \in Schedules, TimePasses(s) PROVE Past'
  BY <1>8 DEF TimePasses, TypeOK, Past, Current, At
<1>9. CASE UNCHANGED vars
  BY <1>9, PastOutside DEF vars
<1> QED
  BY <1>1, <1>2, <1>3, <1>4, <1>5, <1>6, <1>7, <1>8, <1>9 DEF Next

LEMMA OnlyTheDueFire ==
  ASSUME TypeOK, Next, NEW p \in Pids, pc[p] = "tick", pc'[p] \in {"scan", "run"}
  PROVE  \E s \in Schedules : At(p, s) /\ s \notin fresh[p]
<1>1. ASSUME NEW q \in Pids, Proceeds(q)
      PROVE  \E s \in Schedules : At(p, s) /\ s \notin fresh[p]
  <2>1. CASE ScanBegins(q) \/ RunBegins(q)
    BY <2>1, SchedulerAssumption DEF ScanBegins, RunBegins, Firing, TypeOK, Schedules
  <2>2. CASE ~(ScanBegins(q) \/ RunBegins(q))
    BY <1>1, <2>2 DEF Proceeds, Boots, TickBegins, FirstSeen, ScanEnds, NothingToRun,
      RunEnds, TickEnds, WriteFails, Abort, Leaves, TypeOK
  <2> QED
    BY <2>1, <2>2
<1>2. ASSUME NEW q \in Pids, (\E s \in Schedules : TickRaises(q, s)) \/ Crashes(q)
      PROVE  FALSE
  BY <1>2 DEF TickRaises, Abort, Crashes, TypeOK
<1>3. CASE Start \/ RestartStarts
  BY <1>3 DEF Start, RestartStarts, EnsureRunning, TypeOK
<1>4. CASE Stop \/ RestartStops
  BY <1>4 DEF Stop, RestartStops, StopChild, TypeOK
<1>5. CASE PanelRestarts
  BY <1>5 DEF PanelRestarts, EnsureRunning, TypeOK
<1>6. ASSUME NEW s \in Schedules, Toggle(s) \/ Delete(s) \/ Add(s) \/ TimePasses(s)
      PROVE  FALSE
  BY <1>6 DEF Toggle, Delete, Add, Edit, TimePasses
<1> QED
  BY <1>1, <1>2, <1>3, <1>4, <1>5, <1>6 DEF Next

(* What no rollback has made it forget a child runs once per due time,     *)
(* however ticks, edits of the table and the panel's clicks interleave.    *)
THEOREM RunsOncePerDueTime == Spec => NoRefire
<1> DEFINE Once == \A p \in Pids : pc'[p] \in {"scan", "run"} /\ pc[p] = "tick"
                     => \A s \in ran[p] : ~At(p, s)
<1>1. Init => TypeOK /\ Past
  BY InitType DEF Init, Past, Pids
<1>2. TypeOK /\ Past /\ [Next]_vars => (TypeOK /\ Past)'
  BY TypeStep, PastStep
<1>3. ASSUME TypeOK, Past, Next PROVE Once
  <2> SUFFICES ASSUME NEW p \in Pids, pc'[p] \in {"scan", "run"}, pc[p] = "tick",
                      NEW s \in ran[p], At(p, s)
               PROVE  FALSE
    BY DEF Once
  <2>1. PICK t \in Schedules : At(p, t) /\ t \notin fresh[p]
    BY <1>3, OnlyTheDueFire
  <2>2. s = t
    BY <1>3, <2>1, OneAt
  <2> QED
    BY <1>3, <2>1, <2>2 DEF Past, Current, At
<1>4. TypeOK /\ Past /\ [Next]_vars => [Once]_vars
  BY <1>3
<1> HIDE DEF Once
<1>5. Spec => [][Once]_vars
  BY <1>1, <1>2, <1>4, PTL DEF Spec
<1> QED
  BY <1>5 DEF Once, NoRefire
=============================================================================
