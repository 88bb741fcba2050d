--------------------------- MODULE HostRunsProofs ---------------------------
(***************************************************************************)
(* What HostRuns promises of a host's state, for any number of runs and    *)
(* hosts and any order in which the two executors finish: the state        *)
(* belongs to the highest job id applied, and says what that run's log     *)
(* says.                                                                   *)
(***************************************************************************)
EXTENDS HostRuns, FiniteSetTheorems, SequenceTheorems, TLAPS

StatusSet == Terminal \cup {"none", "queued", "running"}
StateSet == [job : Runs \cup {0},
             last : {"none", "ok", "changed", "failed"},
             config : {"none", "ok", "pending", "failed"}]
ReportSet == [Hosts -> Recaps \cup {"none"}]

-----------------------------------------------------------------------------
(* Dispatch moves rows from waiting to running and touches nothing else    *)
(* that a host's state depends on.                                         *)

LEMMA StartedType == Started \in Nat
<1> DEFINE S == {r \in Runs : start[r] # 0}
<1>1. IsFiniteSet(Runs)
  BY FS_Interval, HostRunsAssumption DEF Runs
<1>2. IsFiniteSet(S)
  BY <1>1, FS_Subset
<1> QED
  BY <1>2, FS_CardinalityType DEF Started

LEMMA DispatchType ==
  ASSUME NEW q \in Seq(Runs), NEW act \in SUBSET Runs, NEW st \in [Runs -> StatusSet],
         NEW lk \in {"free", "panel", "sched"}, start \in [Runs -> Nat],
         Dispatch(q, act, st, lk)
  PROVE  /\ queue' \in Seq(Runs) /\ active' \subseteq Runs
         /\ status' \in [Runs -> StatusSet]
         /\ start' \in [Runs -> Nat]
         /\ lock' \in {"free", "panel", "sched"}
<1> DEFINE room == Pool - Cardinality(act)
           n == IF lk = "sched" \/ room <= 0 THEN 0
                ELSE IF Len(q) < room THEN Len(q) ELSE room
           starts == {q[i] : i \in 1..n}
<1>1. /\ queue' = SubSeq(q, n + 1, Len(q))
      /\ active' = act \cup starts
      /\ status' = [r \in Runs |-> IF r \in starts THEN "running" ELSE st[r]]
      /\ start' = [r \in Runs |-> IF r \in starts
                                  THEN Started + (CHOOSE i \in 1..n : q[i] = r)
                                  ELSE start[r]]
      /\ lock' \in {"free", "panel", "sched"}
  BY DEF Dispatch
<1>2. n \in 0..Len(q)
  <2>1. IsFiniteSet(act)
    <3>1. IsFiniteSet(Runs)
      BY FS_Interval, HostRunsAssumption DEF Runs
    <3> QED
      BY <3>1, FS_Subset
  <2>2. room \in Int
    BY <2>1, FS_CardinalityType, HostRunsAssumption
  <2> HIDE DEF room
  <2> QED
    BY <2>2
<1> HIDE DEF n
<1>3. \A i \in 1..n : q[i] \in Runs
  BY <1>2
<1> DEFINE at(r) == CHOOSE i \in 1..n : q[i] = r
<1>4. \A r \in starts : at(r) \in 1..n
  <2> SUFFICES ASSUME NEW r \in starts PROVE at(r) \in 1..n
    OBVIOUS
  <2>1. \E i \in 1..n : q[i] = r
    OBVIOUS
  <2> QED
    BY <2>1, Zenon
<1>5. queue' \in Seq(Runs)
  <2>1. \A i \in 1..Len(q) : q[i] \in Runs
    OBVIOUS
  <2> QED
    BY <1>1, <1>2, <2>1
<1>6. start' \in [Runs -> Nat]
  <2>1. start' = [r \in Runs |-> IF r \in starts THEN Started + at(r) ELSE start[r]]
    BY <1>1
  <2> HIDE DEF at, starts
  <2>2. \A r \in starts : at(r) \in Nat
    BY <1>2, <1>4
  <2> QED
    BY <2>1, <2>2, StartedType
<1> QED
  BY <1>1, <1>3, <1>5, <1>6 DEF StatusSet

LEMMA DispatchForgetsNone ==
  ASSUME NEW q, NEW act, NEW st, NEW lk, Dispatch(q, act, st, lk)
  PROVE  \A r \in Runs : status'[r] = "none" => st[r] = "none"
BY DEF Dispatch

-----------------------------------------------------------------------------
(* The application of a run's results, in either executor. *)

Applied(r, recaps) ==
  /\ report' = [report EXCEPT ![r] = recaps]
  /\ state' = UpdateState(r, recaps)

LEMMA AppliedType ==
  ASSUME TypeOK, NEW r \in Runs, NEW recaps \in Reports(r), Applied(r, recaps)
  PROVE  report' \in [Runs -> ReportSet] /\ state' \in [Hosts -> StateSet]
BY DEF Applied, TypeOK, Reports, ReportSet, StateSet, UpdateState, StatusFromStats,
       DeriveHostState, Recaps

LEMMA EventsType ==
  ASSUME TypeOK, NEW r \in Runs, NEW recaps \in Reports(r)
  PROVE  RecordEvents(r, recaps) \in [Hosts -> Seq(Event0)]
<1> SUFFICES ASSUME NEW h \in Hosts, h \in targets[r]
             PROVE  timeline[h] \o Event(r, h, recaps[h]) \in Seq(Event0)
  BY DEF RecordEvents, TypeOK
<1>1. recaps[h] \in Recaps
  BY DEF Reports
<1>2. Event(r, h, recaps[h]) \in Seq(Event0)
  <2> DEFINE row0(k, w) == [run |-> r, kind |-> k, status |-> w]
  <2>1. \A k \in {"apply", "check"}, w \in Recaps \cup {"unreachable", "pending"} :
          <<row0(k, w)>> \in Seq(Event0)
    BY DEF Event0, Kinds
  <2>2. /\ (IF recaps[h] = "absent" THEN "failed" ELSE recaps[h]) \in Recaps
        /\ DeriveHostState(kind[r], recaps[h]) \in Recaps \cup {"pending"}
    BY <1>1 DEF DeriveHostState, Recaps
  <2>3. <<>> \in Seq(Event0)
    OBVIOUS
  <2> HIDE DEF Event0
  <2> QED
    BY <2>1, <2>2, <2>3 DEF Event
<1> QED
  BY <1>2, ConcatProperties DEF TypeOK

LEMMA PowerEventsType ==
  ASSUME TypeOK, NEW r \in Runs, NEW result \in Terminal
  PROVE  RecordPowerEvents(r, result) \in [Hosts -> Seq(Event0)]
<1> DEFINE e == [run |-> r, kind |-> "power", status |-> result]
<1>1. e \in Event0
  BY DEF Event0, Kinds
<1>2. \A h \in Hosts : Append(timeline[h], e) \in Seq(Event0)
  BY <1>1, AppendProperties DEF TypeOK
<1> QED
  BY <1>2 DEF RecordPowerEvents, TypeOK
-----------------------------------------------------------------------------
(* Type correctness; run_now is inside a run whenever it is not idle.      *)

Busy == phase # "idle" => fired \in Runs

LEMMA TypeInit == Init => TypeOK /\ Busy
<1>1. <<>> \in Seq(Event0) /\ <<>> \in Seq(Runs)
  OBVIOUS
<1> QED
  BY <1>1, HostRunsAssumption DEF Init, TypeOK, Busy, NoReport

LEMMA FinishType ==
  ASSUME TypeOK, NEW r \in Runs, NEW result \in Terminal, PanelFinishes(r, result)
  PROVE  TypeOK'
<1> DEFINE st == [status EXCEPT ![r] = result]
           act == active \ {r}
<1>1. st \in [Runs -> StatusSet] /\ act \in SUBSET Runs
  BY DEF TypeOK, StatusSet
<1>2. Dispatch(queue, act, st, lock)
  BY DEF PanelFinishes
<1> HIDE DEF st, act
<1>3. /\ queue' \in Seq(Runs) /\ active' \subseteq Runs /\ status' \in [Runs -> StatusSet]
      /\ start' \in [Runs -> Nat] /\ lock' \in {"free", "panel", "sched"}
  <2>1. queue \in Seq(Runs) /\ start \in [Runs -> Nat] /\ lock \in {"free", "panel", "sched"}
    BY DEF TypeOK
  <2> QED
    BY <1>1, <1>2, <2>1, DispatchType
<1>4. /\ report' \in [Runs -> ReportSet] /\ state' \in [Hosts -> StateSet]
      /\ timeline' \in [Hosts -> Seq(Event0)]
  <2>1. CASE kind[r] = "power"
    BY <2>1, PowerEventsType DEF PanelFinishes, TypeOK, ReportSet, StateSet
  <2>2. CASE kind[r] # "power"
    <3>1. PICK recaps \in Reports(r) : Applied(r, recaps) /\ timeline' = RecordEvents(r, recaps)
      BY <2>2 DEF PanelFinishes, Applied
    <3> QED
      BY <3>1, AppliedType, EventsType
  <2> QED
    BY <2>1, <2>2
<1> QED
  BY <1>3, <1>4 DEF PanelFinishes, rows, TypeOK, StatusSet, StateSet, ReportSet

LEMMA TypeStep == TypeOK /\ Busy /\ [Next]_vars => (TypeOK /\ Busy)'
<1> SUFFICES ASSUME TypeOK, Busy, [Next]_vars PROVE (TypeOK /\ Busy)'
  OBVIOUS
<1> USE DEF rows, effects
<1>1. ASSUME NEW r \in Runs, NEW hosts \in (SUBSET Hosts) \ {{}}, NEW k \in Kinds,
             PanelSubmits(r, hosts, k)
      PROVE  (TypeOK /\ Busy)'
  <2> DEFINE q == Append(queue, r)
             st == [status EXCEPT ![r] = "queued"]
  <2>1. q \in Seq(Runs) /\ st \in [Runs -> StatusSet]
    BY DEF TypeOK, StatusSet
  <2>2. Dispatch(q, active, st, lock)
    BY <1>1 DEF PanelSubmits
  <2> HIDE DEF q, st
  <2>3. /\ queue' \in Seq(Runs) /\ active' \subseteq Runs /\ status' \in [Runs -> StatusSet]
        /\ start' \in [Runs -> Nat] /\ lock' \in {"free", "panel", "sched"}
    <3>1. active \in SUBSET Runs /\ start \in [Runs -> Nat] /\ lock \in {"free", "panel", "sched"}
      BY DEF TypeOK
    <3> QED
      BY <2>1, <2>2, <3>1, DispatchType, ZenonT(30)
  <2>4. kind' \in [Runs -> Kinds \cup {"none"}] /\ targets' \in [Runs -> SUBSET Hosts]
    BY <1>1 DEF PanelSubmits, TypeOK
  <2> QED
    BY <1>1, <2>3, <2>4 DEF PanelSubmits, TypeOK, Busy, StatusSet
<1>2. CASE PanelRetries
  <2>1. /\ queue' \in Seq(Runs) /\ active' \subseteq Runs /\ status' \in [Runs -> StatusSet]
        /\ start' \in [Runs -> Nat] /\ lock' \in {"free", "panel", "sched"}
    <3>1. Dispatch(queue, active, status, lock)
      BY <1>2 DEF PanelRetries
    <3>2. queue \in Seq(Runs) /\ active \in SUBSET Runs /\ status \in [Runs -> StatusSet]
      BY DEF TypeOK, StatusSet
    <3>3. lock \in {"free", "panel", "sched"} /\ start \in [Runs -> Nat]
      BY DEF TypeOK
    <3> QED
      BY <3>1, <3>2, <3>3, DispatchType
  <2> QED
    BY <1>2, <2>1 DEF PanelRetries, TypeOK, Busy, StatusSet
<1>3. ASSUME NEW r \in Runs, NEW result \in Terminal, PanelFinishes(r, result)
      PROVE  (TypeOK /\ Busy)'
  BY <1>3, FinishType DEF PanelFinishes, Busy
<1>4. ASSUME NEW r \in Runs, PanelCancelsQueued(r) PROVE (TypeOK /\ Busy)'
  <2>1. PICK i \in 1..Len(queue) :
          queue' = SubSeq(queue, 1, i - 1) \o SubSeq(queue, i + 1, Len(queue))
    BY <1>4 DEF PanelCancelsQueued
  <2>2. \A k \in 1..Len(queue) : queue[k] \in Runs
    BY DEF TypeOK
  <2>3. SubSeq(queue, 1, i - 1) \in Seq(Runs) /\ SubSeq(queue, i + 1, Len(queue)) \in Seq(Runs)
    BY <2>2 DEF TypeOK
  <2>4. queue' \in Seq(Runs)
    BY <2>1, <2>3, ConcatProperties
  <2> QED
    BY <1>4, <2>4 DEF PanelCancelsQueued, TypeOK, Busy, Terminal
<1>5. CASE PanelRestarts
  <2>1. <<>> \in Seq(Runs)
    OBVIOUS
  <2> QED
    BY <1>5, <2>1 DEF PanelRestarts, Recovered, TypeOK, Busy, Terminal
<1>6. ASSUME NEW r \in Runs, NEW h \in Hosts, NEW k \in {"check", "apply"},
             SchedBegins(r, h, k)
      PROVE  (TypeOK /\ Busy)'
  BY <1>6 DEF SchedBegins, TypeOK, Busy, Kinds
<1>7. CASE SchedLocks
  <2>1. start' \in [Runs -> Nat]
    <3>1. start' = [start EXCEPT ![fired] = Started + 1]
      BY <1>7 DEF SchedLocks
    <3>2. start \in [Runs -> Nat]
      BY DEF TypeOK
    <3>3. Started + 1 \in Nat
      BY StartedType
    <3> QED
      BY <3>1, <3>2, <3>3
  <2> QED
    BY <1>7, <2>1 DEF SchedLocks, TypeOK, Busy
<1>8. CASE SchedSkips
  BY <1>8 DEF SchedSkips, TypeOK, Busy, Terminal
<1>9. CASE SchedUnlocks
  BY <1>9 DEF SchedUnlocks, TypeOK, Busy
<1>10. ASSUME NEW result \in {"success", "failed"}, SchedApplies(result)
       PROVE  (TypeOK /\ Busy)'
  <2>1. PICK recaps \in Reports(fired) : Applied(fired, recaps)
    BY <1>10 DEF SchedApplies, Applied
  <2>2. report' \in [Runs -> ReportSet] /\ state' \in [Hosts -> StateSet]
    BY <1>10, <2>1, AppliedType DEF SchedApplies, Busy
  <2> QED
    BY <1>10, <2>2 DEF SchedApplies, TypeOK, Busy, Terminal, StateSet, ReportSet
<1>11. CASE SchedFails
  BY <1>11, HostRunsAssumption DEF SchedFails, TypeOK, Busy
<1>12. CASE UNCHANGED vars
  BY <1>12 DEF vars, TypeOK, Busy
<1> QED
  BY <1>1, <1>2, <1>3, <1>4, <1>5, <1>6, <1>7, <1>8, <1>9, <1>10, <1>11, <1>12 DEF Next

(* Rows, recaps, host states, timelines and queue keep their types.        *)
THEOREM TypeCorrect == Spec => []TypeOK
<1>1. TypeOK /\ Busy => TypeOK
  OBVIOUS
<1> QED
  BY <1>1, TypeInit, TypeStep, PTL DEF Spec
-----------------------------------------------------------------------------
(* What the states claim.  Neither statement survives a step by itself: a  *)
(* new row must not change the kind or the targets of a run that a state   *)
(* already names, so the rows without a status must be without a report.   *)
Unreported == \A r \in Runs : status[r] = "none" => report[r] = NoReport

Claims == HighestIdWins /\ StateMatchesLog /\ Unreported

LEMMA ClaimsInit == Init => Claims
BY DEF Init, Claims, HighestIdWins, StateMatchesLog, Unreported, Settled

LEMMA AppliedClaims ==
  ASSUME TypeOK, HighestIdWins, StateMatchesLog, NEW r \in Runs, NEW recaps \in Reports(r),
         Applied(r, recaps), UNCHANGED rows
  PROVE  (HighestIdWins /\ StateMatchesLog)'
<1>1. \A i \in Runs : report'[i] = IF i = r THEN recaps ELSE report[i]
  BY DEF Applied, TypeOK
<1>2. \A h \in Hosts : h \in targets[r] => recaps[h] # "none" /\ recaps # NoReport
  BY DEF Reports, NoReport
<1>3. \A h \in Hosts : Settled(h)' = IF h \in targets[r] THEN Settled(h) \cup {r} ELSE Settled(h)
  <2> SUFFICES ASSUME NEW h \in Hosts, NEW i \in Runs
               PROVE  i \in Settled(h)' <=> i \in Settled(h) \/ (h \in targets[r] /\ i = r)
    BY DEF Settled
  <2> QED
    BY <1>1, <1>2 DEF Settled, rows
<1>4. ASSUME NEW h \in Hosts, h \in targets[r] /\ Guard(r, h)
      PROVE  /\ \A i \in Settled(h)' : i <= state'[h].job
             /\ state'[h].job \in Settled(h)'
             /\ state'[h].config = DeriveHostState(kind[r], recaps[h])
             /\ recaps[h] # "absent" => state'[h].last = recaps[h]
             /\ state'[h].job = r
  <2>1. /\ state'[h].job = r
        /\ state'[h].config = DeriveHostState(kind[r], recaps[h])
        /\ state'[h].last = StatusFromStats(recaps[h], state[h].last)
    BY <1>4 DEF Applied, UpdateState
  <2>2. \A i \in Settled(h) : i <= r
    <3> SUFFICES ASSUME NEW i \in Settled(h) PROVE i <= r
      OBVIOUS
    <3>1. i <= state[h].job /\ state[h].job <= r
      BY <1>4 DEF HighestIdWins, Guard
    <3>2. i \in Nat /\ r \in Nat /\ state[h].job \in Nat
      BY HostRunsAssumption DEF Settled, Runs, TypeOK
    <3> QED
      BY <3>1, <3>2
  <2>3. r <= r
    BY HostRunsAssumption DEF Runs
  <2> QED
    BY <1>3, <1>4, <2>1, <2>2, <2>3 DEF StatusFromStats
<1>5. ASSUME NEW h \in Hosts, ~(h \in targets[r] /\ Guard(r, h))
      PROVE  /\ state'[h] = state[h]
             /\ \A i \in Settled(h)' : i <= state'[h].job
             /\ state[h].job # 0 => state[h].job \in Settled(h)'
             /\ state[h].job # r \/ h \notin targets[r]
  <2>1. state'[h] = state[h]
    BY <1>5 DEF Applied, UpdateState
  <2>2. r \in Int /\ state[h].job \in Int
    <3>1. state[h].job \in Runs \cup {0}
      BY DEF TypeOK
    <3> QED
      BY <3>1 DEF Runs
  <2>3. h \in targets[r] => r <= state[h].job /\ r # state[h].job
    BY <1>5, <2>2 DEF Guard
  <2> QED
    BY <1>3, <2>1, <2>3 DEF HighestIdWins
<1>6. HighestIdWins'
  BY <1>4, <1>5 DEF HighestIdWins
<1>7. StateMatchesLog'
  <2> SUFFICES ASSUME NEW h \in Hosts, state'[h].job # 0
               PROVE  /\ state'[h].config = DeriveHostState(kind[state'[h].job],
                                                            report'[state'[h].job][h])
                      /\ report'[state'[h].job][h] # "absent" =>
                           state'[h].last = report'[state'[h].job][h]
    BY DEF StateMatchesLog, DeriveHostState, rows
  <2>1. CASE h \in targets[r] /\ Guard(r, h)
    BY <1>1, <1>4, <2>1
  <2>2. CASE ~(h \in targets[r] /\ Guard(r, h))
    <3>1. state'[h] = state[h] /\ state[h].job \in Settled(h)
      BY <1>5, <2>2 DEF HighestIdWins
    <3>2. state[h].job # r
      BY <1>5, <2>2, <3>1 DEF Settled
    <3>3. report'[state[h].job] = report[state[h].job]
      BY <1>1, <3>1, <3>2 DEF Settled
    <3> QED
      BY <3>1, <3>3 DEF StateMatchesLog
  <2> QED
    BY <2>1, <2>2
<1> QED
  BY <1>6, <1>7

(* A new row is of a run that no state names yet. *)
LEMMA NewRowClaims ==
  ASSUME TypeOK, Claims, NEW r \in Runs, NEW k, NEW hosts, status[r] = "none",
         kind' = [kind EXCEPT ![r] = k], targets' = [targets EXCEPT ![r] = hosts],
         UNCHANGED effects
  PROVE  (HighestIdWins /\ StateMatchesLog)'
<1>1. \A h \in Hosts : Settled(h)' = Settled(h) /\ r \notin Settled(h)
  BY DEF Settled, Claims, Unreported, TypeOK, effects
<1>2. HighestIdWins'
  BY <1>1 DEF Claims, HighestIdWins, effects
<1>3. \A h \in Hosts : state[h].job # 0 => kind'[state[h].job] = kind[state[h].job]
  BY <1>1 DEF Claims, HighestIdWins, TypeOK
<1> QED
  BY <1>2, <1>3 DEF Claims, StateMatchesLog, DeriveHostState, effects

LEMMA QuietClaims ==
  ASSUME Claims, UNCHANGED <<rows, effects>>,
         \A r \in Runs : status'[r] = "none" => status[r] = "none"
  PROVE  Claims'
BY DEF Claims, HighestIdWins, StateMatchesLog, Unreported, Settled, DeriveHostState,
       rows, effects

LEMMA ClaimsStep == TypeOK /\ Busy /\ Claims /\ [Next]_vars => Claims'
<1> SUFFICES ASSUME TypeOK, Busy, Claims, [Next]_vars PROVE Claims'
  OBVIOUS
<1>1. ASSUME NEW r \in Runs, NEW hosts \in (SUBSET Hosts) \ {{}}, NEW k \in Kinds,
             PanelSubmits(r, hosts, k)
      PROVE  Claims'
  <2>1. (HighestIdWins /\ StateMatchesLog)'
    BY <1>1, NewRowClaims DEF PanelSubmits, NextRow
  <2>2. \A i \in Runs : status'[i] = "none" => [status EXCEPT ![r] = "queued"][i] = "none"
    BY <1>1, DispatchForgetsNone DEF PanelSubmits
  <2> QED
    BY <1>1, <2>1, <2>2 DEF PanelSubmits, Claims, Unreported, TypeOK, effects
<1>2. CASE PanelRetries
  BY <1>2, DispatchForgetsNone, QuietClaims DEF PanelRetries
<1>3. ASSUME NEW r \in Runs, NEW result \in Terminal, PanelFinishes(r, result)
      PROVE  Claims'
  <2>1. \A i \in Runs : status'[i] = "none" => i # r /\ status[i] = "none"
    <3>1. \A i \in Runs : status'[i] = "none" => [status EXCEPT ![r] = result][i] = "none"
      <4>1. Dispatch(queue, active \ {r}, [status EXCEPT ![r] = result], lock)
        BY <1>3 DEF PanelFinishes
      <4> DEFINE st == [status EXCEPT ![r] = result]
      <4> HIDE DEF st
      <4>2. Dispatch(queue, active \ {r}, st, lock)
        BY <4>1 DEF st
      <4>3. \A i \in Runs : status'[i] = "none" => st[i] = "none"
        BY <4>2, DispatchForgetsNone
      <4> QED BY <4>3 DEF st
    <3>2. status \in [Runs -> StatusSet]
      BY DEF TypeOK, StatusSet
    <3>3. "none" # result
      BY DEF Terminal
    <3> QED
      BY <3>1, <3>2, <3>3
  <2>2. CASE kind[r] = "power"
    BY <1>3, <2>1, <2>2 DEF PanelFinishes, rows, Claims, HighestIdWins, StateMatchesLog,
      Unreported, Settled, DeriveHostState
  <2>3. CASE kind[r] # "power"
    <3>1. PICK recaps \in Reports(r) : Applied(r, recaps)
      BY <1>3, <2>3 DEF PanelFinishes, Applied
    <3>2. (HighestIdWins /\ StateMatchesLog)'
      BY <1>3, <3>1, AppliedClaims DEF PanelFinishes, Claims
    <3> QED
      BY <2>1, <3>1, <3>2 DEF Applied, Claims, Unreported, TypeOK
  <2> QED
    BY <2>2, <2>3
<1>4. ASSUME NEW r \in Runs, PanelCancelsQueued(r) PROVE Claims'
  BY <1>4, QuietClaims DEF PanelCancelsQueued, TypeOK
<1>5. CASE PanelRestarts
  BY <1>5, QuietClaims DEF PanelRestarts, Recovered
<1>6. ASSUME NEW r \in Runs, NEW h \in Hosts, NEW k \in {"check", "apply"},
             SchedBegins(r, h, k)
      PROVE  Claims'
  <2>1. (HighestIdWins /\ StateMatchesLog)'
    BY <1>6, NewRowClaims DEF SchedBegins, NextRow
  <2> QED
    BY <1>6, <2>1 DEF SchedBegins, Claims, Unreported, TypeOK, effects
<1>7. CASE SchedLocks \/ SchedUnlocks \/ SchedFails
  BY <1>7, QuietClaims DEF SchedLocks, SchedUnlocks, SchedFails
<1>8. CASE SchedSkips
  BY <1>8, QuietClaims DEF SchedSkips, TypeOK
<1>9. ASSUME NEW result \in {"success", "failed"}, SchedApplies(result)
      PROVE  Claims'
  <2>1. PICK recaps \in Reports(fired) : Applied(fired, recaps)
    BY <1>9 DEF SchedApplies, Applied
  <2>2. (HighestIdWins /\ StateMatchesLog)'
    BY <1>9, <2>1, AppliedClaims DEF SchedApplies, Busy, Claims
  <2> QED
    BY <1>9, <2>1, <2>2 DEF SchedApplies, Applied, Claims, Unreported, TypeOK
<1>10. CASE UNCHANGED vars
  BY <1>10, QuietClaims DEF vars
<1> QED
  BY <1>1, <1>2, <1>3, <1>4, <1>5, <1>6, <1>7, <1>8, <1>9, <1>10 DEF Next

LEMMA ClaimsHold == Spec => []Claims
<1>1. Init => TypeOK /\ Busy /\ Claims
  BY TypeInit, ClaimsInit
<1>2. TypeOK /\ Busy /\ Claims /\ [Next]_vars => (TypeOK /\ Busy /\ Claims)'
  BY TypeStep, ClaimsStep
<1> QED
  BY <1>1, <1>2, PTL DEF Spec

(* However the results of the two executors arrive, a host's state belongs *)
(* to the highest job id among the runs applied to it.                     *)
THEOREM HighestIdPrevails == Spec => []HighestIdWins
<1>1. Claims => HighestIdWins
  BY DEF Claims
<1> QED
  BY <1>1, ClaimsHold, PTL

(* ... and it says what the log of that run says, an unreachable host      *)
(* included.                                                               *)
THEOREM StateIsOfItsLog == Spec => []StateMatchesLog
<1>1. Claims => StateMatchesLog
  BY DEF Claims
<1> QED
  BY <1>1, ClaimsHold, PTL

-----------------------------------------------------------------------------
(***************************************************************************)
(* The order in which the panel's runs start.  PanelRunsInOrder alone says *)
(* nothing of the runs that still wait: the queue must ascend, everything  *)
(* the panel started must be older than whatever waits, and no start       *)
(* number may exceed the number of runs started, so that the next numbers  *)
(* are larger than all that were given.                                    *)
(***************************************************************************)
Waits(q, st) ==
  /\ \A i, k \in 1..Len(q) : i < k => q[i] < q[k]
  /\ \A i \in 1..Len(q) : /\ st[q[i]] # "none" /\ start[q[i]] = 0 /\ q[i] \notin scheduled
                          /\ \A r \in Runs \ scheduled : start[r] # 0 => r < q[i]

Fresh(st) == \A r \in Runs : st[r] = "none" => start[r] = 0 /\ r \notin scheduled

Numbered(st) == \A i, k \in Runs : i < k /\ st[k] # "none" => st[i] # "none"

Counted == \A r \in Runs : start[r] <= Started

InOrder ==
  \A a, b \in Runs \ scheduled :
    a < b /\ start[a] # 0 /\ start[b] # 0 => start[a] <= start[b]

Child == phase # "idle" => fired \in scheduled /\ (phase = "begun" <=> start[fired] = 0)

OrderInv ==
  /\ Waits(queue, status) /\ Fresh(status) /\ Numbered(status)
  /\ Counted /\ InOrder /\ Child
  /\ \A r \in active : start[r] # 0

(* Dispatch, run by run: a prefix of the queue gets the next numbers. *)
Promotes(n, q, act, st) ==
  /\ Len(queue') = Len(q) - n
  /\ \A i \in 1..Len(queue') : i + n \in 1..Len(q) /\ queue'[i] = q[i + n]
  /\ active' = act \cup {q[i] : i \in 1..n}
  /\ \A i \in 1..n : start'[q[i]] = Started + i /\ status'[q[i]] = "running"
  /\ \A r \in Runs : \/ \E i \in 1..n : q[i] = r
                     \/ start'[r] = start[r] /\ status'[r] = st[r]

LEMMA SetFinite ==
  ASSUME NEW S \in SUBSET Runs
  PROVE  IsFiniteSet(S) /\ Cardinality(S) \in Nat
<1>1. IsFiniteSet(Runs)
  BY FS_Interval, HostRunsAssumption DEF Runs
<1> QED
  BY <1>1, FS_Subset, FS_CardinalityType

LEMMA DispatchPromotes ==
  ASSUME NEW q \in Seq(Runs), NEW act \in SUBSET Runs, NEW st, NEW lk,
         \A i, k \in 1..Len(q) : i < k => q[i] < q[k],
         Dispatch(q, act, st, lk)
  PROVE  \E n \in 0..Len(q) : Promotes(n, q, act, st)
<1> DEFINE room == Pool - Cardinality(act)
           n == IF lk = "sched" \/ room <= 0 THEN 0
                ELSE IF Len(q) < room THEN Len(q) ELSE room
           at(r) == CHOOSE i \in 1..n : q[i] = r
<1>1. n \in 0..Len(q)
  <2>1. room \in Int
    BY SetFinite, HostRunsAssumption
  <2> HIDE DEF room
  <2> QED
    BY <2>1
<1>2. /\ queue' = SubSeq(q, n + 1, Len(q))
      /\ active' = act \cup {q[i] : i \in 1..n}
      /\ status' = [r \in Runs |-> IF r \in {q[i] : i \in 1..n} THEN "running" ELSE st[r]]
      /\ start' = [r \in Runs |-> IF r \in {q[i] : i \in 1..n} THEN Started + at(r)
                                  ELSE start[r]]
  BY DEF Dispatch
<1> HIDE DEF n
<1>3. \A i \in 1..n : i \in 1..Len(q) /\ q[i] \in Runs
  BY <1>1
<1>4. \A i, k \in 1..n : q[i] = q[k] => i = k
  <2> SUFFICES ASSUME NEW i \in 1..n, NEW k \in 1..n, q[i] = q[k], i # k
               PROVE  FALSE
    OBVIOUS
  <2>1. i < k \/ k < i
    BY <1>1
  <2>2. q[i] < q[k] \/ q[k] < q[i]
    BY <1>3, <2>1
  <2> QED
    BY <1>3, <2>2 DEF Runs
<1>5. \A i \in 1..n : at(q[i]) = i
  <2> SUFFICES ASSUME NEW i \in 1..n PROVE at(q[i]) = i
    OBVIOUS
  <2>1. \E k \in 1..n : q[k] = q[i]
    OBVIOUS
  <2>2. at(q[i]) \in 1..n /\ q[at(q[i])] = q[i]
    BY <2>1, Zenon
  <2> QED
    BY <1>4, <2>2
<1> HIDE DEF at
<1>6. Len(queue') = Len(q) - n /\ \A i \in 1..Len(queue') : i + n \in 1..Len(q) /\ queue'[i] = q[i + n]
  BY <1>1, <1>2
<1>7. \A i \in 1..n : start'[q[i]] = Started + i /\ status'[q[i]] = "running"
  BY <1>2, <1>3, <1>5
<1>8. \A r \in Runs : \/ \E i \in 1..n : q[i] = r
                      \/ start'[r] = start[r] /\ status'[r] = st[r]
  BY <1>2
<1> QED
  BY <1>1, <1>2, <1>6, <1>7, <1>8 DEF Promotes

LEMMA PrefixCardinality ==
  ASSUME NEW q \in Seq(Runs), NEW n \in 0..Len(q),
         \A i, k \in 1..n : q[i] = q[k] => i = k
  PROVE  Cardinality({q[i] : i \in 1..n}) = n
<1> DEFINE S == {q[i] : i \in 1..n}
           f == [i \in 1..n |-> q[i]]
<1>0. n \in Nat
  OBVIOUS
<1>1. f \in [1..n -> S] /\ \A s \in S : \E i \in 1..n : f[i] = s
  OBVIOUS
<1>2. \A i, k \in 1..n : f[i] = f[k] => i = k
  OBVIOUS
<1>3. ExistsBijection(1..n, S)
  BY <1>1, <1>2 DEF ExistsBijection, Bijection, Injection, Surjection, IsInjective
<1> HIDE DEF S
<1> QED
  BY <1>0, <1>3, FS_CountingElements DEF S

(* The promoted runs had no number, so the count grows by as many. *)
LEMMA PromotesCount ==
  ASSUME NEW q \in Seq(Runs), NEW n \in 0..Len(q), NEW act, NEW st,
         start \in [Runs -> Nat], Waits(q, st), Promotes(n, q, act, st)
  PROVE  Started' = Started + n
<1> DEFINE S == {q[i] : i \in 1..n}
           T == {r \in Runs : start[r] # 0}
<1>0. Started \in Nat
  BY StartedType
<1>1. /\ n \in Nat
      /\ \A i \in 1..n : i \in 1..Len(q) /\ q[i] \in Runs /\ q[i] \in Nat /\ i \in Nat
  <2>1. \A i \in 1..n : i \in 1..Len(q) /\ q[i] \in Runs /\ i \in Nat
    OBVIOUS
  <2> QED
    BY <2>1 DEF Runs
<1>2. \A i, k \in 1..n : q[i] = q[k] => i = k
  <2> SUFFICES ASSUME NEW i \in 1..n, NEW k \in 1..n, q[i] = q[k], i < k
               PROVE  FALSE
    BY <1>1
  <2> QED
    BY <1>1 DEF Waits
<1>3. S \in SUBSET Runs /\ T \in SUBSET Runs /\ T \cap S = {}
  BY <1>1 DEF Waits
<1>4. {r \in Runs : start'[r] # 0} = T \cup S
  <2>1. \A i \in 1..n : start'[q[i]] # 0
    BY <1>0, <1>1 DEF Promotes
  <2>2. \A r \in Runs : r \in S \/ start'[r] = start[r]
    BY DEF Promotes
  <2> HIDE DEF S
  <2>3. \A r \in Runs : start'[r] # 0 <=> r \in T \/ r \in S
    <3>1. \A r \in S : start'[r] # 0
      BY <2>1 DEF S
    <3>2. \A r \in S : r \notin T
      BY <1>3
    <3> QED
      BY <2>2, <3>1, <3>2
  <2> QED
    BY <1>3, <2>3
<1>5. Cardinality(S) = n
  BY <1>2, PrefixCardinality
<1>6. IsFiniteSet(S) /\ IsFiniteSet(T) /\ Cardinality(T) \in Nat
  BY <1>3, SetFinite
<1> HIDE DEF S, T
<1>7. Cardinality(T \cup S) = Cardinality(T) + Cardinality(S) - Cardinality(T \cap S)
  BY <1>6, FS_Union
<1>8. Cardinality(T \cap S) = 0
  BY <1>3, FS_EmptySet
<1>9. Cardinality(T \cup S) = Cardinality(T) + n
  BY <1>1, <1>5, <1>6, <1>7, <1>8
<1> QED
  BY <1>4, <1>9 DEF Started, T

LEMMA PromotesOrder ==
  ASSUME NEW q \in Seq(Runs), NEW n \in 0..Len(q), NEW act \in SUBSET Runs, NEW st,
         start \in [Runs -> Nat], scheduled' = scheduled, Promotes(n, q, act, st),
         Waits(q, st), Fresh(st), Numbered(st), Counted, InOrder,
         \A r \in act : start[r] # 0
  PROVE  /\ Waits(queue, status)' /\ Fresh(status)' /\ Numbered(status)'
         /\ Counted' /\ InOrder' /\ \A r \in active' : start'[r] # 0
         /\ \A r \in Runs : start[r] # 0 \/ r \in scheduled => start'[r] = start[r]
<1>0. /\ n \in Nat /\ Started \in Nat /\ Started' = Started + n
      /\ \A i \in 1..Len(q) : q[i] \in Runs
  BY StartedType, PromotesCount
<1>1. /\ Len(q) \in Nat /\ \A r \in Runs : r \in Nat /\ start[r] \in Nat
      /\ \A i \in 1..n : i \in 1..Len(q) /\ i \in Nat
  BY <1>0 DEF Runs
<1>2. /\ \A i \in 1..Len(queue') : i + n \in 1..Len(q) /\ queue'[i] = q[i + n]
      /\ active' = act \cup {q[i] : i \in 1..n}
      /\ \A i \in 1..n : start'[q[i]] = Started + i /\ status'[q[i]] = "running"
      /\ \A r \in Runs : \/ \E i \in 1..n : q[i] = r
                         \/ start'[r] = start[r] /\ status'[r] = st[r]
  BY DEF Promotes
<1>3. /\ \A i, k \in 1..Len(q) : i < k => q[i] < q[k]
      /\ \A i \in 1..Len(q) : /\ st[q[i]] # "none" /\ start[q[i]] = 0 /\ q[i] \notin scheduled
                              /\ \A r \in Runs \ scheduled : start[r] # 0 => r < q[i]
  BY DEF Waits
<1>4. \A i \in 1..n, x \in 1..Len(queue') : q[i] < queue'[x]
  <2> SUFFICES ASSUME NEW i \in 1..n, NEW x \in 1..Len(queue')
               PROVE  q[i] < q[x + n]
    BY <1>2
  <2>1. i < x + n
    BY <1>1
  <2> QED
    BY <1>1, <1>2, <1>3, <2>1
<1>5. \A x \in 1..Len(queue') : /\ queue'[x] \in Runs
                                /\ start'[queue'[x]] = start[queue'[x]]
                                /\ status'[queue'[x]] = st[queue'[x]]
  <2> SUFFICES ASSUME NEW x \in 1..Len(queue')
               PROVE  /\ queue'[x] \in Runs
                      /\ \A i \in 1..n : q[i] # queue'[x]
    BY <1>2
  <2>1. queue'[x] \in Runs
    BY <1>0, <1>2
  <2> QED
    BY <1>0, <1>1, <1>4, <2>1
<1>6. Waits(queue, status)'
  <2>1. ASSUME NEW x \in 1..Len(queue'), NEW y \in 1..Len(queue'), x < y
        PROVE  queue'[x] < queue'[y]
    <3>1. x + n < y + n
      BY <1>1, <2>1
    <3> QED
      BY <1>2, <1>3, <3>1
  <2>2. ASSUME NEW x \in 1..Len(queue')
        PROVE  /\ status'[queue'[x]] # "none" /\ start'[queue'[x]] = 0
               /\ queue'[x] \notin scheduled'
               /\ \A r \in Runs \ scheduled' : start'[r] # 0 => r < queue'[x]
    <3>1. x + n \in 1..Len(q) /\ queue'[x] = q[x + n]
      BY <1>2
    <3>2. status'[queue'[x]] # "none" /\ start'[queue'[x]] = 0 /\ queue'[x] \notin scheduled'
      BY <1>3, <1>5, <3>1
    <3>3. \A r \in Runs \ scheduled' : start'[r] # 0 => r < queue'[x]
      <4> SUFFICES ASSUME NEW r \in Runs \ scheduled, start'[r] # 0
                   PROVE  r < queue'[x]
        OBVIOUS
      <4>1. CASE \E i \in 1..n : q[i] = r
        BY <1>4, <4>1
      <4>2. CASE start'[r] = start[r]
        BY <1>3, <3>1, <4>2
      <4> QED
        BY <1>2, <4>1, <4>2
    <3> QED
      BY <3>2, <3>3
  <2> QED
    BY <2>1, <2>2 DEF Waits
<1>7. \A r \in Runs : status'[r] = "none" <=> st[r] = "none"
  <2> SUFFICES ASSUME NEW r \in Runs PROVE status'[r] = "none" <=> st[r] = "none"
    OBVIOUS
  <2>1. CASE \E i \in 1..n : q[i] = r
    BY <1>1, <1>2, <1>3, <2>1
  <2> QED
    BY <1>2, <2>1
<1>8. \A r \in Runs : start[r] # 0 \/ r \in scheduled => start'[r] = start[r]
  BY <1>1, <1>2, <1>3
<1>9. Fresh(status)'
  <2>1. \A r \in Runs : st[r] = "none" => start'[r] = start[r]
    <3> SUFFICES ASSUME NEW r \in Runs, st[r] = "none" PROVE start'[r] = start[r]
      OBVIOUS
    <3>1. ~(\E i \in 1..n : q[i] = r)
      BY <1>1, <1>3
    <3> QED
      BY <1>2, <3>1
  <2> QED
    BY <1>7, <2>1 DEF Fresh
<1>10. Numbered(status)'
  BY <1>7 DEF Numbered
<1>11. Counted'
  <2> SUFFICES ASSUME NEW r \in Runs PROVE start'[r] <= Started'
    BY DEF Counted
  <2>1. CASE \E i \in 1..n : q[i] = r
    <3>1. PICK i \in 1..n : q[i] = r
      BY <2>1
    <3>2. start'[r] = Started + i
      BY <1>2, <3>1
    <3> QED
      BY <1>0, <1>1, <3>1, <3>2
  <2>2. CASE start'[r] = start[r]
    BY <1>0, <1>1, <2>2 DEF Counted
  <2> QED
    BY <1>2, <2>1, <2>2
<1>12. InOrder'
  <2> SUFFICES ASSUME NEW a \in Runs \ scheduled, NEW b \in Runs \ scheduled,
                      a < b, start'[a] # 0, start'[b] # 0
               PROVE  start'[a] <= start'[b]
    BY DEF InOrder
  <2>1. CASE start'[a] = start[a] /\ start'[b] = start[b]
    BY <2>1 DEF InOrder
  <2>2. ASSUME NEW k \in 1..n, q[k] = b, start'[a] = start[a]
        PROVE  start'[a] <= start'[b]
    <3>1. start[a] <= Started /\ start'[b] = Started + k
      BY <1>2, <2>2 DEF Counted
    <3> QED
      BY <1>0, <1>1, <2>2, <3>1
  <2>3. ASSUME NEW i \in 1..n, q[i] = a, start'[b] = start[b]
        PROVE  FALSE
    <3>1. b < a
      BY <1>1, <1>3, <2>3
    <3> QED
      BY <1>1, <3>1
  <2>4. ASSUME NEW i \in 1..n, NEW k \in 1..n, q[i] = a, q[k] = b
        PROVE  start'[a] <= start'[b]
    <3>1. start'[a] = Started + i /\ start'[b] = Started + k
      BY <1>2, <2>4
    <3>2. ~(k < i)
      <4> SUFFICES ASSUME k < i PROVE FALSE
        OBVIOUS
      <4>1. b < a
        BY <1>1, <1>3, <2>4
      <4> QED
        BY <1>1, <4>1
    <3> QED
      BY <1>0, <1>1, <3>1, <3>2
  <2> QED
    BY <1>2, <2>1, <2>2, <2>3, <2>4
<1>13. \A r \in active' : start'[r] # 0
  <2>1. ASSUME NEW i \in 1..n PROVE start'[q[i]] # 0
    <3>1. start'[q[i]] = Started + i
      BY <1>2
    <3> QED
      BY <1>0, <1>1, <3>1
  <2>2. \A r \in act : start'[r] # 0
    BY <1>8
  <2> QED
    BY <1>2, <2>1, <2>2
<1> QED
  BY <1>6, <1>8, <1>9, <1>10, <1>11, <1>12, <1>13

(* What the handlers that end in _dispatch need to know about it. *)
LEMMA DispatchOrder ==
  ASSUME NEW q \in Seq(Runs), NEW act \in SUBSET Runs, NEW st, NEW lk,
         start \in [Runs -> Nat], scheduled' = scheduled, Dispatch(q, act, st, lk),
         Waits(q, st), Fresh(st), Numbered(st), Counted, InOrder,
         \A r \in act : start[r] # 0
  PROVE  /\ Waits(queue, status)' /\ Fresh(status)' /\ Numbered(status)'
         /\ Counted' /\ InOrder' /\ \A r \in active' : start'[r] # 0
         /\ \A r \in Runs : start[r] # 0 \/ r \in scheduled => start'[r] = start[r]
<1>1. PICK n \in 0..Len(q) : Promotes(n, q, act, st)
  BY DispatchPromotes DEF Waits
<1> QED
  BY <1>1, PromotesOrder

LEMMA OrderInit == Init => OrderInv
<1> SUFFICES ASSUME Init PROVE OrderInv
  OBVIOUS
<1>1. Started \in Nat /\ \A r \in Runs : start[r] = 0 /\ status[r] = "none"
  BY StartedType DEF Init
<1>2. queue = <<>> /\ active = {} /\ scheduled = {} /\ phase = "idle"
  BY DEF Init
<1> QED
  BY <1>1, <1>2 DEF OrderInv, Waits, Fresh, Numbered, Counted, InOrder, Child

(* The handlers that end in _dispatch: the new row is the youngest of all. *)
LEMMA PanelOrder ==
  ASSUME TypeOK, Busy, OrderInv,
         \/ \E r \in Runs, hosts \in (SUBSET Hosts) \ {{}}, k \in Kinds :
              PanelSubmits(r, hosts, k)
         \/ PanelRetries
         \/ \E r \in Runs, result \in Terminal : PanelFinishes(r, result)
  PROVE  OrderInv' /\ \A r \in Runs : start[r] # 0 => start'[r] # 0
<1>0. /\ queue \in Seq(Runs) /\ active \in SUBSET Runs /\ status \in [Runs -> StatusSet]
      /\ start \in [Runs -> Nat] /\ \A r \in Runs : r \in Nat
      /\ \A i \in 1..Len(queue) : queue[i] \in Runs
      /\ Len(queue) \in Nat
  <2>1. queue \in Seq(Runs)
    BY DEF TypeOK
  <2>2. \A i \in 1..Len(queue) : queue[i] \in Runs
    BY <2>1
  <2>3. \A r \in Runs : r \in Nat
    BY DEF Runs
  <2> QED
    BY <2>1, <2>2, <2>3 DEF TypeOK, StatusSet
<1>1. /\ Waits(queue, status) /\ Fresh(status) /\ Numbered(status)
      /\ Counted /\ InOrder /\ Child /\ \A r \in active : start[r] # 0
  BY DEF OrderInv
<1> DEFINE Calls(q, act, st, lk) ==
             /\ Dispatch(q, act, st, lk)
             /\ Waits(q, st) /\ Fresh(st) /\ Numbered(st)
             /\ \A r \in act : start[r] # 0
<1>2. \E q \in Seq(Runs), act \in SUBSET Runs : \E st, lk : Calls(q, act, st, lk)
  <2>1. ASSUME NEW r \in Runs, NEW hosts \in (SUBSET Hosts) \ {{}}, NEW k \in Kinds,
               PanelSubmits(r, hosts, k)
        PROVE  \E q \in Seq(Runs), act \in SUBSET Runs : \E st, lk : Calls(q, act, st, lk)
    <3> DEFINE q == Append(queue, r)
               st == [status EXCEPT ![r] = "queued"]
    <3>1. Dispatch(q, active, st, lock) /\ NextRow(r)
      BY <2>1 DEF PanelSubmits
    <3>2. /\ q \in Seq(Runs) /\ Len(q) = Len(queue) + 1 /\ q[Len(q)] = r
          /\ \A i \in 1..Len(queue) : q[i] = queue[i]
          /\ \A i \in 1..Len(q) : i \in 1..Len(queue) \/ i = Len(q)
      BY <1>0
    <3>3. st[r] = "queued" /\ \A i \in Runs : i # r => st[i] = status[i]
      BY <1>0
    <3>4. /\ status[r] = "none" /\ start[r] = 0 /\ r \notin scheduled
          /\ \A i \in Runs : status[i] # "none" => i < r
          /\ \A i \in Runs : i < r => status[i] # "none"
      <4>1. /\ status[r] = "none" /\ start[r] = 0 /\ r \notin scheduled
            /\ \A i \in Runs : i < r => status[i] # "none"
        BY <1>1, <3>1 DEF NextRow, Fresh, Runs
      <4>2. \A i \in Runs : status[i] # "none" => i # r /\ ~(r < i)
        BY <1>1, <4>1 DEF Numbered
      <4> QED
        BY <1>0, <4>1, <4>2
    <3> HIDE DEF q, st
    <3>5. Waits(q, st)
      <4>1. \A i \in 1..Len(queue) : queue[i] < r /\ queue[i] # r
        BY <1>0, <1>1, <3>4 DEF Waits
      <4>2. ASSUME NEW i \in 1..Len(q), NEW x \in 1..Len(q), i < x
            PROVE  q[i] < q[x]
        <5>1. i \in 1..Len(queue)
          BY <1>0, <3>2, <4>2
        <5>2. CASE x \in 1..Len(queue)
          BY <1>1, <3>2, <4>2, <5>1, <5>2 DEF Waits
        <5>3. CASE x = Len(q)
          BY <3>2, <4>1, <5>1, <5>3
        <5> QED
          BY <3>2, <5>2, <5>3
      <4>3. \A i \in Runs \ scheduled : start[i] # 0 => i < r
        BY <1>1, <3>4 DEF Fresh
      <4>4. ASSUME NEW i \in 1..Len(q)
            PROVE  /\ st[q[i]] # "none" /\ start[q[i]] = 0 /\ q[i] \notin scheduled
                   /\ \A x \in Runs \ scheduled : start[x] # 0 => x < q[i]
        <5>1. CASE i \in 1..Len(queue)
          <6>1. q[i] = queue[i] /\ queue[i] \in Runs /\ queue[i] # r
            BY <1>0, <3>2, <4>1, <5>1
          <6>2. /\ status[queue[i]] # "none" /\ start[queue[i]] = 0
                /\ queue[i] \notin scheduled
                /\ \A x \in Runs \ scheduled : start[x] # 0 => x < queue[i]
            BY <1>1, <5>1 DEF Waits
          <6>3. st[queue[i]] = status[queue[i]]
            BY <3>3, <6>1
          <6> QED
            BY <6>1, <6>2, <6>3
        <5>2. CASE i = Len(q)
          BY <3>2, <3>3, <3>4, <4>3, <5>2
        <5> QED
          BY <3>2, <5>1, <5>2
      <4> QED
        BY <4>2, <4>4 DEF Waits
    <3>6. Fresh(st) /\ Numbered(st)
      <4>1. \A i \in Runs : st[i] = "none" => status[i] = "none"
        BY <3>3
      <4>2. Fresh(st)
        BY <1>1, <4>1 DEF Fresh
      <4>3. ASSUME NEW i \in Runs, NEW x \in Runs, i < x, st[x] # "none"
            PROVE  st[i] # "none"
        <5>1. CASE i = r
          BY <3>3, <5>1
        <5>2. CASE i # r /\ x = r
          BY <3>3, <3>4, <4>3, <5>2
        <5>3. CASE i # r /\ x # r
          BY <1>1, <3>3, <4>3, <5>3 DEF Numbered
        <5> QED
          BY <5>1, <5>2, <5>3
      <4> QED
        BY <4>2, <4>3 DEF Numbered
    <3>7. Calls(q, active, st, lock)
      BY <1>1, <3>1, <3>5, <3>6
    <3> HIDE DEF Calls
    <3> QED
      BY <1>0, <3>2, <3>7
  <2>2. CASE PanelRetries
    <3>1. Dispatch(queue, active, status, lock)
      BY <2>2 DEF PanelRetries
    <3>2. Calls(queue, active, status, lock)
      BY <1>1, <3>1
    <3> HIDE DEF Calls
    <3> QED
      BY <1>0, <3>2
  <2>3. ASSUME NEW r \in Runs, NEW result \in Terminal, PanelFinishes(r, result)
        PROVE  \E q \in Seq(Runs), act \in SUBSET Runs : \E st, lk : Calls(q, act, st, lk)
    <3> DEFINE st == [status EXCEPT ![r] = result]
               act == active \ {r}
    <3>1. Dispatch(queue, act, st, lock) /\ r \in active
      BY <2>3 DEF PanelFinishes
    <3>2. result # "none" /\ \A i \in Runs : st[i] = IF i = r THEN result ELSE status[i]
      BY <1>0 DEF Terminal
    <3>3. status[r] # "none"
      BY <1>1, <3>1 DEF Fresh
    <3>4. act \in SUBSET Runs /\ \A i \in act : start[i] # 0
      BY <1>0, <1>1
    <3> HIDE DEF st, act
    <3>5. \A i \in Runs : st[i] = "none" <=> status[i] = "none"
      BY <3>2, <3>3
    <3>6. Waits(queue, st) /\ Fresh(st) /\ Numbered(st)
      BY <1>0, <1>1, <3>5 DEF Waits, Fresh, Numbered
    <3>7. Calls(queue, act, st, lock)
      BY <3>1, <3>4, <3>6
    <3> HIDE DEF Calls
    <3> QED
      BY <1>0, <3>4, <3>7
  <2> QED
    BY <2>1, <2>2, <2>3
<1>3. UNCHANGED <<scheduled, phase, fired>>
  BY DEF PanelSubmits, PanelRetries, PanelFinishes, rows
<1>4. /\ Waits(queue, status)' /\ Fresh(status)' /\ Numbered(status)'
      /\ Counted' /\ InOrder' /\ \A r \in active' : start'[r] # 0
      /\ \A r \in Runs : start[r] # 0 \/ r \in scheduled => start'[r] = start[r]
  <2>1. PICK q \in Seq(Runs), act \in SUBSET Runs : \E st, lk : Calls(q, act, st, lk)
    BY <1>2
  <2> QED
    BY <1>0, <1>1, <1>3, <2>1, DispatchOrder
<1>5. Child'
  BY <1>1, <1>3, <1>4 DEF Child, Busy
<1> QED
  BY <1>4, <1>5 DEF OrderInv

LEMMA OrderStep ==
  ASSUME TypeOK, Busy, OrderInv, [Next]_vars
  PROVE  OrderInv' /\ \A r \in Runs : start[r] # 0 => start'[r] # 0
<1>0. /\ queue \in Seq(Runs) /\ status \in [Runs -> StatusSet]
      /\ start \in [Runs -> Nat] /\ \A r \in Runs : r \in Nat
      /\ \A i \in 1..Len(queue) : queue[i] \in Runs
      /\ Len(queue) \in Nat /\ Started \in Nat
  <2>1. queue \in Seq(Runs)
    BY DEF TypeOK
  <2>2. \A i \in 1..Len(queue) : queue[i] \in Runs
    BY <2>1
  <2>3. \A r \in Runs : r \in Nat
    BY DEF Runs
  <2> QED
    BY <2>1, <2>2, <2>3, StartedType DEF TypeOK, StatusSet
<1>1. /\ Waits(queue, status) /\ Fresh(status) /\ Numbered(status)
      /\ Counted /\ InOrder /\ Child /\ \A r \in active : start[r] # 0
  BY DEF OrderInv
<1>2. CASE \/ \E r \in Runs, hosts \in (SUBSET Hosts) \ {{}}, k \in Kinds :
                PanelSubmits(r, hosts, k)
           \/ PanelRetries
           \/ \E r \in Runs, result \in Terminal : PanelFinishes(r, result)
  BY <1>2, PanelOrder
<1>3. ASSUME NEW r \in Runs, PanelCancelsQueued(r)
      PROVE  OrderInv' /\ \A x \in Runs : start[x] # 0 => start'[x] # 0
  <2>1. PICK p \in 1..Len(queue) :
          /\ queue[p] = r
          /\ queue' = SubSeq(queue, 1, p - 1) \o SubSeq(queue, p + 1, Len(queue))
    BY <1>3 DEF PanelCancelsQueued
  <2>2. /\ status' = [status EXCEPT ![r] = "cancelled"]
        /\ UNCHANGED <<scheduled, start, active, phase, fired>>
    BY <1>3 DEF PanelCancelsQueued, rows
  <2>3. \A k \in 1..Len(queue') : /\ queue'[k] = IF k < p THEN queue[k] ELSE queue[k + 1]
                                  /\ k \in 1..(Len(queue) - 1)
    <3> DEFINE a == SubSeq(queue, 1, p - 1)
               b == SubSeq(queue, p + 1, Len(queue))
    <3>1. a \in Seq(Runs) /\ Len(a) = p - 1 /\ \A k \in 1..Len(a) : a[k] = queue[k]
      BY <1>0
    <3>2. b \in Seq(Runs) /\ Len(b) = Len(queue) - p /\ \A k \in 1..Len(b) : b[k] = queue[k + p]
      BY <1>0
    <3>3. queue' = a \o b
      BY <2>1
    <3> HIDE DEF a, b
    <3>4. /\ Len(queue') = Len(a) + Len(b)
          /\ \A k \in 1..Len(a) + Len(b) :
               queue'[k] = IF k <= Len(a) THEN a[k] ELSE b[k - Len(a)]
      BY <3>1, <3>2, <3>3, ConcatProperties
    <3> SUFFICES ASSUME NEW k \in 1..Len(queue')
                 PROVE  /\ queue'[k] = IF k < p THEN queue[k] ELSE queue[k + 1]
                        /\ k \in 1..(Len(queue) - 1)
      OBVIOUS
    <3>5. k \in Nat /\ p \in Nat /\ 1 <= k /\ k <= Len(queue) - 1
      BY <1>0, <3>1, <3>2, <3>4
    <3>6. CASE k < p
      <4>1. k \in 1..Len(a)
        BY <3>1, <3>5, <3>6
      <4> QED
        BY <3>1, <3>2, <3>4, <3>5, <3>6, <4>1
    <3>7. CASE ~(k < p)
      <4>1. ~(k <= Len(a)) /\ k - Len(a) \in 1..Len(b) /\ k - Len(a) + p = k + 1
        BY <1>0, <3>1, <3>2, <3>5, <3>7
      <4>2. queue'[k] = b[k - Len(a)]
        BY <3>4, <4>1
      <4> QED
        BY <3>2, <3>7, <4>1, <4>2
    <3> QED
      BY <3>6, <3>7
  <2>4. \A k \in 1..Len(queue') : \E i \in 1..Len(queue) :
          queue'[k] = queue[i] /\ i = (IF k < p THEN k ELSE k + 1)
    <3> SUFFICES ASSUME NEW k \in 1..Len(queue')
                 PROVE  \E i \in 1..Len(queue) :
                          queue'[k] = queue[i] /\ i = (IF k < p THEN k ELSE k + 1)
      OBVIOUS
    <3>1. k \in 1..(Len(queue) - 1) /\ queue'[k] = IF k < p THEN queue[k] ELSE queue[k + 1]
      BY <2>3
    <3>2. k \in 1..Len(queue) /\ k + 1 \in 1..Len(queue)
      BY <1>0, <3>1
    <3> QED
      BY <3>1, <3>2
  <2>5. \A x \in Runs : status'[x] # "none" <=> status[x] # "none"
    <3>1. status[r] # "none"
      BY <1>1, <2>1 DEF Waits
    <3> QED
      BY <1>0, <2>2, <3>1
  <2>6. Waits(queue, status)'
    <3>1. ASSUME NEW x \in 1..Len(queue'), NEW y \in 1..Len(queue'), x < y
          PROVE  queue'[x] < queue'[y]
      <4>1. PICK i \in 1..Len(queue) : queue'[x] = queue[i] /\ i = (IF x < p THEN x ELSE x + 1)
        BY <2>4
      <4>2. PICK k \in 1..Len(queue) : queue'[y] = queue[k] /\ k = (IF y < p THEN y ELSE y + 1)
        BY <2>4
      <4>3. i < k
        BY <3>1, <4>1, <4>2
      <4> QED
        BY <1>1, <4>1, <4>2, <4>3 DEF Waits
    <3>2. ASSUME NEW x \in 1..Len(queue')
          PROVE  /\ status'[queue'[x]] # "none" /\ start'[queue'[x]] = 0
                 /\ queue'[x] \notin scheduled'
                 /\ \A i \in Runs \ scheduled' : start'[i] # 0 => i < queue'[x]
      <4>1. PICK i \in 1..Len(queue) : queue'[x] = queue[i]
        BY <2>4
      <4>2. /\ status[queue[i]] # "none" /\ start[queue[i]] = 0 /\ queue[i] \notin scheduled
            /\ \A y \in Runs \ scheduled : start[y] # 0 => y < queue[i]
        BY <1>1 DEF Waits
      <4> QED
        BY <1>0, <2>2, <2>5, <4>1, <4>2
    <3> QED
      BY <3>1, <3>2 DEF Waits
  <2>7. Fresh(status)' /\ Numbered(status)'
    BY <1>1, <2>2, <2>5 DEF Fresh, Numbered
  <2> QED
    BY <1>1, <2>2, <2>6, <2>7 DEF OrderInv, Counted, Started, InOrder, Child
<1>4. CASE PanelRestarts
  <2>1. /\ queue' = <<>> /\ active' = {} /\ UNCHANGED <<scheduled, start>>
        /\ phase' = "idle" \/ UNCHANGED <<phase, fired>>
        /\ \A r \in Runs : status'[r] = Recovered(status[r])
    BY <1>4 DEF PanelRestarts, rows
  <2>2. \A r \in Runs : status'[r] # "none" <=> status[r] # "none"
    BY <2>1 DEF Recovered
  <2>3. Waits(queue, status)' /\ Fresh(status)' /\ Numbered(status)'
    BY <1>1, <2>1, <2>2 DEF Waits, Fresh, Numbered
  <2> QED
    BY <1>1, <2>1, <2>3 DEF OrderInv, Counted, Started, InOrder, Child
<1>5. ASSUME NEW r \in Runs, NEW h \in Hosts, NEW k \in {"check", "apply"},
             SchedBegins(r, h, k)
      PROVE  OrderInv' /\ \A x \in Runs : start[x] # 0 => start'[x] # 0
  <2>1. /\ scheduled' = scheduled \cup {r} /\ fired' = r /\ phase' = "begun"
        /\ UNCHANGED <<start, queue, active>>
        /\ status' = [status EXCEPT ![r] = "running"]
        /\ status[r] = "none" /\ \A i \in Runs : i < r => status[i] # "none"
    BY <1>5 DEF SchedBegins, NextRow, Runs
  <2>2. status'[r] = "running" /\ \A i \in Runs : i # r => status'[i] = status[i]
    BY <1>0, <2>1
  <2>3. start[r] = 0
    BY <1>1, <2>1 DEF Fresh
  <2>4. Waits(queue, status)'
    <3>1. \A i \in 1..Len(queue) : queue[i] # r /\ status'[queue[i]] = status[queue[i]]
      BY <1>0, <1>1, <2>1, <2>2 DEF Waits
    <3> QED
      BY <1>0, <1>1, <2>1, <3>1 DEF Waits
  <2>5. Fresh(status)'
    BY <1>1, <2>1, <2>2 DEF Fresh
  <2>6. Numbered(status)'
    <3> SUFFICES ASSUME NEW i \in Runs, NEW x \in Runs, i < x, status'[x] # "none"
                 PROVE  status'[i] # "none"
      BY DEF Numbered
    <3>1. CASE i = r
      BY <2>2, <3>1
    <3>2. CASE i # r /\ x = r
      BY <2>1, <2>2, <3>2
    <3>3. CASE i # r /\ x # r
      BY <1>1, <2>2, <3>3 DEF Numbered
    <3> QED
      BY <3>1, <3>2, <3>3
  <2>7. Counted' /\ InOrder' /\ Child'
    BY <1>1, <2>1, <2>3 DEF Counted, Started, InOrder, Child
  <2> QED
    BY <1>1, <2>1, <2>4, <2>5, <2>6, <2>7 DEF OrderInv
<1>6. CASE SchedLocks
  <2>1. /\ phase = "begun" /\ phase' = "running" /\ fired' = fired /\ fired \in Runs
        /\ UNCHANGED <<status, queue, active, scheduled>>
        /\ start' = [start EXCEPT ![fired] = Started + 1]
    BY <1>6 DEF SchedLocks, rows, Busy
  <2>2. /\ start'[fired] = Started + 1 /\ start[fired] = 0 /\ fired \in scheduled
        /\ \A i \in Runs : i # fired => start'[i] = start[i]
    BY <1>0, <1>1, <2>1 DEF Child
  <2>3. Started' = Started + 1
    <3> DEFINE T == {i \in Runs : start[i] # 0}
    <3>1. {i \in Runs : start'[i] # 0} = T \cup {fired} /\ fired \notin T
      BY <1>0, <2>1, <2>2
    <3>2. IsFiniteSet(T)
      BY SetFinite
    <3>3. Cardinality(T \cup {fired}) = Cardinality(T) + 1
      BY <3>1, <3>2, FS_AddElement
    <3> QED
      BY <3>1, <3>3 DEF Started
  <2>4. Waits(queue, status)'
    <3>1. \A i \in 1..Len(queue) : start'[queue[i]] = start[queue[i]]
      BY <1>0, <1>1, <2>2 DEF Waits
    <3> QED
      BY <1>0, <1>1, <2>1, <2>2, <3>1 DEF Waits
  <2>5. Fresh(status)'
    <3>1. status[fired] # "none"
      BY <1>1, <2>1, <2>2 DEF Fresh
    <3> QED
      BY <1>1, <2>1, <2>2, <3>1 DEF Fresh
  <2>6. Counted'
    <3> SUFFICES ASSUME NEW r \in Runs PROVE start'[r] <= Started + 1
      BY <2>3 DEF Counted
    <3>1. start[r] <= Started /\ start[r] \in Nat
      BY <1>0, <1>1 DEF Counted
    <3>2. start'[r] = start[r] \/ start'[r] = Started + 1
      BY <2>2
    <3> QED
      BY <1>0, <3>1, <3>2
  <2>7. InOrder'
    BY <1>1, <2>1, <2>2 DEF InOrder
  <2>8. Child' /\ \A r \in Runs : start[r] # 0 => start'[r] # 0
    BY <1>0, <2>1, <2>2 DEF Child
  <2> QED
    BY <1>0, <1>1, <2>1, <2>4, <2>5, <2>6, <2>7, <2>8 DEF OrderInv, Numbered, TypeOK
<1>7. ASSUME SchedSkips \/ \E result \in {"success", "failed"} : SchedApplies(result)
      PROVE  OrderInv' /\ \A x \in Runs : start[x] # 0 => start'[x] # 0
  <2>1. /\ phase' = "idle" /\ UNCHANGED <<scheduled, start, queue, active>>
        /\ \E s \in Terminal : status' = [status EXCEPT ![fired] = s]
        /\ fired \in Runs /\ fired \in scheduled
    BY <1>1, <1>7 DEF SchedSkips, SchedApplies, rows, Busy, Child, Terminal
  <2>2. status[fired] # "none"
    BY <1>1, <2>1 DEF Fresh
  <2>3. \A x \in Runs : status'[x] # "none" <=> status[x] # "none"
    BY <1>0, <2>1, <2>2 DEF Terminal
  <2>4. Waits(queue, status)' /\ Fresh(status)' /\ Numbered(status)'
    BY <1>0, <1>1, <2>1, <2>3 DEF Waits, Fresh, Numbered
  <2> QED
    BY <1>1, <2>1, <2>4 DEF OrderInv, Counted, Started, InOrder, Child
<1>8. ASSUME SchedUnlocks \/ SchedFails \/ UNCHANGED vars
      PROVE  OrderInv' /\ \A x \in Runs : start[x] # 0 => start'[x] # 0
  <2>1. /\ UNCHANGED <<scheduled, start, status, queue, active>>
        /\ phase' = "idle" \/ (fired' = fired /\ phase # "idle"
                                 /\ (phase' = "begun" <=> phase = "begun"))
           \/ UNCHANGED <<fired, phase>>
    BY <1>8 DEF SchedUnlocks, SchedFails, rows, vars
  <2> QED
    BY <1>1, <2>1 DEF OrderInv, Waits, Fresh, Numbered, Counted, Started, InOrder, Child
<1> QED
  BY <1>2, <1>3, <1>4, <1>5, <1>6, <1>7, <1>8 DEF Next

-----------------------------------------------------------------------------
(***************************************************************************)
(* What a timeline remembers.  The replay holds through a step because a   *)
(* check that changes nothing leaves the last recorded configuration as it *)
(* is, and a host without a state has no configuration a check could       *)
(* repeat; and every trace of a run is of a run that started.              *)
(***************************************************************************)
Traces ==
  /\ \A r \in Runs : report[r] # NoReport => start[r] # 0
  /\ \A h \in Hosts : \A i \in 1..Len(timeline[h]) : start[timeline[h][i].run] # 0
  /\ \A h \in Hosts : state[h].job = 0 => state[h].config = "none"

LastConfig(tl, config) ==
  \E i \in 1..Len(tl) :
    /\ tl[i].kind # "power" /\ Implied(tl[i]) = config
    /\ \A k \in 1..Len(tl) : tl[k].kind # "power" => k <= i

Explains ==
  \A h \in Hosts : state[h].job # 0 /\ Settled(h) \cap scheduled = {}
                     => LastConfig(timeline[h], state[h].config)

LEMMA AppendedConfig ==
  ASSUME NEW tl \in Seq(Event0), NEW e \in Event0, e.kind # "power"
  PROVE  LastConfig(tl \o <<e>>, Implied(e))
<1> DEFINE t == tl \o <<e>>
<1>1. Len(t) = Len(tl) + 1 /\ t[Len(t)] = e /\ Len(tl) \in Nat
  OBVIOUS
<1> HIDE DEF t
<1>2. Len(t) \in 1..Len(t) /\ \A k \in 1..Len(t) : k <= Len(t)
  BY <1>1
<1>3. LastConfig(t, Implied(e))
  BY <1>1, <1>2 DEF LastConfig
<1> QED
  BY <1>3 DEF t

LEMMA AppendedPower ==
  ASSUME NEW tl \in Seq(Event0), NEW e \in Event0, e.kind = "power",
         NEW config, LastConfig(tl, config)
  PROVE  LastConfig(Append(tl, e), config)
<1> DEFINE t == Append(tl, e)
<1>1. /\ Len(t) = Len(tl) + 1 /\ t[Len(tl) + 1] = e /\ Len(tl) \in Nat
      /\ \A i \in 1..Len(tl) : t[i] = tl[i]
  OBVIOUS
<1> HIDE DEF t
<1>2. PICK i \in 1..Len(tl) : /\ tl[i].kind # "power" /\ Implied(tl[i]) = config
                              /\ \A k \in 1..Len(tl) : tl[k].kind # "power" => k <= i
  BY DEF LastConfig
<1>3. i \in 1..Len(t) /\ t[i] = tl[i]
  BY <1>1
<1>4. \A k \in 1..Len(t) : t[k].kind # "power" => k <= i
  <2> SUFFICES ASSUME NEW k \in 1..Len(t), t[k].kind # "power" PROVE k <= i
    OBVIOUS
  <2>1. k \in 1..Len(tl) \/ k = Len(tl) + 1
    BY <1>1
  <2> QED
    BY <1>1, <1>2, <2>1
<1>5. LastConfig(t, config)
  BY <1>2, <1>3, <1>4 DEF LastConfig
<1> QED
  BY <1>5 DEF t

(* An applied run either writes an event that implies the new state, or    *)
(* leaves the configuration as it was. *)
LEMMA EventExplains ==
  ASSUME TypeOK, Traces, NEW r \in Runs, NEW h \in Hosts, NEW recap \in Recaps,
         kind[r] # "power"
  PROVE  LET config == DeriveHostState(kind[r], recap)
         IN  \/ \E e \in Event0 : /\ Event(r, h, recap) = <<e>> /\ e.run = r
                                  /\ e.kind # "power" /\ Implied(e) = config
             \/ /\ Event(r, h, recap) = <<>>
                /\ config = state[h].config /\ state[h].job # 0
<1> DEFINE config == DeriveHostState(kind[r], recap)
           row0(k, w) == [run |-> r, kind |-> k, status |-> w]
<1>1. config \in {"ok", "pending", "failed"}
  BY DEF DeriveHostState
<1>2. CASE kind[r] = "apply"
  <2> DEFINE e == row0("apply", IF recap = "absent" THEN "failed" ELSE recap)
  <2>1. e \in Event0
    BY DEF Event0, Kinds, Recaps
  <2>2. Event(r, h, recap) = <<e>> /\ e.run = r /\ e.kind # "power"
    BY <1>2 DEF Event
  <2>3. Implied(e) = config
    <3>1. e.kind = "apply" /\ e.status = IF recap = "absent" THEN "failed" ELSE recap
      OBVIOUS
    <3>2. config = IF recap \in {"absent", "failed"} THEN "failed" ELSE "ok"
      BY <1>2 DEF DeriveHostState
    <3>3. recap # "unreachable"
      BY DEF Recaps
    <3> HIDE DEF e, config
    <3> QED
      BY <3>1, <3>2, <3>3 DEF Implied
  <2> QED
    BY <2>1, <2>2, <2>3
<1>3. CASE kind[r] # "apply" /\ recap = "absent"
  <2> DEFINE e == row0("check", "unreachable")
  <2>1. e \in Event0
    BY DEF Event0, Kinds
  <2>2. Event(r, h, recap) = <<e>> /\ e.run = r /\ e.kind # "power"
    BY <1>3 DEF Event
  <2>3. Implied(e) = config
    BY <1>3 DEF Implied, DeriveHostState
  <2> QED
    BY <2>1, <2>2, <2>3
<1>4. CASE kind[r] # "apply" /\ recap # "absent" /\ config # state[h].config
  <2> DEFINE e == row0("check", config)
  <2>1. e \in Event0
    BY <1>1 DEF Event0, Kinds, Recaps
  <2>2. Event(r, h, recap) = <<e>> /\ e.run = r /\ e.kind # "power"
    BY <1>4 DEF Event
  <2>3. Implied(e) = config
    BY <1>1 DEF Implied
  <2> QED
    BY <2>1, <2>2, <2>3
<1>5. CASE kind[r] # "apply" /\ recap # "absent" /\ config = state[h].config
  <2>1. Event(r, h, recap) = <<>>
    BY <1>5 DEF Event
  <2>2. state[h].job # 0
    BY <1>1, <1>5 DEF Traces
  <2> QED
    BY <1>5, <2>1, <2>2
<1> QED
  BY <1>2, <1>3, <1>4, <1>5

LEMMA TracesInit == Init => Traces /\ Explains
<1> SUFFICES ASSUME Init PROVE Traces /\ Explains
  OBVIOUS
<1>1. \A h \in Hosts : timeline[h] = <<>> /\ state[h].job = 0 /\ state[h].config = "none"
  BY DEF Init
<1>2. \A r \in Runs : report[r] = NoReport
  BY DEF Init
<1> QED
  BY <1>1, <1>2 DEF Traces, Explains

LEMMA TimelineRuns ==
  ASSUME TypeOK, NEW h \in Hosts
  PROVE  /\ timeline[h] \in Seq(Event0)
         /\ \A i \in 1..Len(timeline[h]) : timeline[h][i].run \in Runs
<1>1. timeline[h] \in Seq(Event0)
  BY DEF TypeOK
<1>2. \A i \in 1..Len(timeline[h]) : timeline[h][i] \in Event0
  BY <1>1
<1> QED
  BY <1>1, <1>2 DEF Event0

(* A step that shows no new result keeps what was shown. *)
LEMMA QuietTraces ==
  ASSUME Traces, Explains, UNCHANGED <<rows, effects>>,
         \A r \in Runs : start[r] # 0 => start'[r] # 0, TypeOK
  PROVE  Traces' /\ Explains'
<1>1. \A h \in Hosts : \A i \in 1..Len(timeline[h]) : timeline[h][i].run \in Runs
  BY TimelineRuns
<1>2. /\ report' = report /\ state' = state /\ timeline' = timeline
      /\ targets' = targets /\ scheduled' = scheduled
  BY DEF rows, effects
<1>3. Traces'
  BY <1>1, <1>2 DEF Traces
<1>4. Explains'
  BY <1>2 DEF Explains, Settled
<1> QED
  BY <1>3, <1>4

(* A new row is of a run that no state and no timeline knows. *)
LEMMA NewRowTraces ==
  ASSUME TypeOK, Claims, Traces, Explains, NEW r \in Runs, NEW hosts,
         status[r] = "none", targets' = [targets EXCEPT ![r] = hosts],
         scheduled' \in {scheduled, scheduled \cup {r}}, UNCHANGED effects,
         \A x \in Runs : start[x] # 0 => start'[x] # 0
  PROVE  Traces' /\ Explains'
<1>1. \A h \in Hosts : \A i \in 1..Len(timeline[h]) : timeline[h][i].run \in Runs
  BY TimelineRuns
<1>2. report' = report /\ state' = state /\ timeline' = timeline
  BY DEF effects
<1>3. Traces'
  BY <1>1, <1>2 DEF Traces
<1>4. \A h \in Hosts : Settled(h)' = Settled(h) /\ r \notin Settled(h)
  BY <1>2 DEF Settled, Claims, Unreported, TypeOK
<1>5. Explains'
  BY <1>2, <1>4 DEF Explains
<1> QED
  BY <1>3, <1>5

LEMMA AppliedTraces ==
  ASSUME TypeOK, Traces, NEW r \in Runs, NEW recaps \in Reports(r), Applied(r, recaps),
         start[r] # 0, \A x \in Runs : start[x] # 0 => start'[x] # 0
  PROVE  /\ \A x \in Runs : report'[x] # NoReport => start'[x] # 0
         /\ \A h \in Hosts : state'[h].job = 0 => state'[h].config = "none"
<1>1. \A x \in Runs : report'[x] = IF x = r THEN recaps ELSE report[x]
  BY DEF Applied, TypeOK
<1>2. \A h \in Hosts : state'[h] = state[h] \/ state'[h].job = r
  BY DEF Applied, UpdateState
<1>3. r # 0
  BY DEF Runs
<1> QED
  BY <1>1, <1>2, <1>3 DEF Traces

(* The panel applies a check or an apply: state and timeline in one step. *)
LEMMA FinishTraces ==
  ASSUME TypeOK, Claims, Traces, Explains, NEW r \in Runs, NEW recaps \in Reports(r),
         Applied(r, recaps), timeline' = RecordEvents(r, recaps), kind[r] # "power",
         UNCHANGED rows, start[r] # 0, \A x \in Runs : start[x] # 0 => start'[x] # 0
  PROVE  Traces' /\ Explains'
<1>1. \A h \in Hosts : h \in targets[r] => recaps[h] \in Recaps
  BY DEF Reports
<1>2. ASSUME NEW h \in Hosts, ~(h \in targets[r] /\ Guard(r, h))
      PROVE  timeline'[h] = timeline[h] /\ state'[h] = state[h]
  BY <1>2 DEF RecordEvents, Applied, UpdateState
<1>3. ASSUME NEW h \in Hosts, h \in targets[r], Guard(r, h)
      PROVE  /\ timeline'[h] = timeline[h] \o Event(r, h, recaps[h])
             /\ state'[h].config = DeriveHostState(kind[r], recaps[h])
  BY <1>3 DEF RecordEvents, Applied, UpdateState
<1>4. \A h \in Hosts : timeline[h] \in Seq(Event0)
                       /\ \A i \in 1..Len(timeline[h]) : timeline[h][i].run \in Runs
  BY TimelineRuns
<1>5. \A h \in Hosts : \A i \in 1..Len(timeline'[h]) : start'[timeline'[h][i].run] # 0
  <2> SUFFICES ASSUME NEW h \in Hosts, NEW i \in 1..Len(timeline'[h])
               PROVE  start'[timeline'[h][i].run] # 0
    OBVIOUS
  <2>1. \A k \in 1..Len(timeline[h]) : start'[timeline[h][k].run] # 0
    BY <1>4 DEF Traces
  <2>2. CASE ~(h \in targets[r] /\ Guard(r, h))
    BY <1>2, <2>1, <2>2
  <2>3. ASSUME NEW e \in Event0, h \in targets[r], Guard(r, h),
               Event(r, h, recaps[h]) = <<e>>, e.run = r
        PROVE  start'[timeline'[h][i].run] # 0
    <3>1. timeline'[h] = timeline[h] \o <<e>>
      BY <1>3, <2>3
    <3>2. \/ i \in 1..Len(timeline[h]) /\ timeline'[h][i] = timeline[h][i]
          \/ timeline'[h][i] = e
      BY <1>4, <3>1
    <3> QED
      BY <2>1, <2>3, <3>2
  <2>4. CASE h \in targets[r] /\ Guard(r, h) /\ Event(r, h, recaps[h]) = <<>>
    <3>1. timeline'[h] = timeline[h]
      BY <1>3, <1>4, <2>4, ConcatEmptySeq
    <3> QED
      BY <2>1, <3>1
  <2> QED
    BY <1>1, <2>2, <2>3, <2>4, EventExplains
<1>6. Traces'
  BY <1>5, AppliedTraces DEF Traces
<1>7. Explains'
  <2> SUFFICES ASSUME NEW h \in Hosts, state'[h].job # 0, Settled(h)' \cap scheduled = {}
               PROVE  LastConfig(timeline'[h], state'[h].config)
    BY DEF Explains, LastConfig, Implied, rows
  <2>1. Settled(h) \subseteq Settled(h)'
    <3>1. \A x \in Runs : report'[x] = IF x = r THEN recaps ELSE report[x]
      BY DEF Applied, TypeOK
    <3>2. \A x \in Runs : h \in targets[x] /\ report[x] # NoReport
                            => h \in targets'[x] /\ report'[x] # NoReport
      BY <1>1, <3>1 DEF rows, NoReport, Recaps
    <3> QED
      BY <3>2 DEF Settled
  <2>2. state[h].job # 0 => LastConfig(timeline[h], state[h].config)
    BY <2>1 DEF Explains
  <2>3. CASE ~(h \in targets[r] /\ Guard(r, h))
    BY <1>2, <2>2, <2>3
  <2>4. ASSUME NEW e \in Event0, h \in targets[r], Guard(r, h), e.kind # "power",
               Event(r, h, recaps[h]) = <<e>>,
               Implied(e) = DeriveHostState(kind[r], recaps[h])
        PROVE  LastConfig(timeline'[h], state'[h].config)
    <3>1. LastConfig(timeline[h] \o <<e>>, Implied(e))
      BY <1>4, <2>4, AppendedConfig
    <3> QED
      BY <1>3, <2>4, <3>1
  <2>5. CASE /\ h \in targets[r] /\ Guard(r, h) /\ Event(r, h, recaps[h]) = <<>>
             /\ DeriveHostState(kind[r], recaps[h]) = state[h].config /\ state[h].job # 0
    <3>1. timeline'[h] = timeline[h]
      BY <1>3, <1>4, <2>5, ConcatEmptySeq
    <3> QED
      BY <1>3, <2>2, <2>5, <3>1
  <2> QED
    BY <1>1, <2>3, <2>4, <2>5, EventExplains
<1> QED
  BY <1>6, <1>7

(* The power run's events are no configuration events. *)
LEMMA PowerTraces ==
  ASSUME TypeOK, Traces, Explains, NEW r \in Runs, NEW result \in Terminal,
         timeline' = RecordPowerEvents(r, result), UNCHANGED <<rows, report, state>>,
         start[r] # 0, \A x \in Runs : start[x] # 0 => start'[x] # 0
  PROVE  Traces' /\ Explains'
<1> DEFINE e == [run |-> r, kind |-> "power", status |-> result]
<1>1. e \in Event0 /\ e.kind = "power" /\ e.run = r
  BY DEF Event0, Kinds
<1>2. \A h \in Hosts : timeline'[h] \in {timeline[h], Append(timeline[h], e)}
  BY DEF RecordPowerEvents
<1> HIDE DEF e
<1>3. \A h \in Hosts : timeline[h] \in Seq(Event0)
                       /\ \A i \in 1..Len(timeline[h]) : timeline[h][i].run \in Runs
  BY TimelineRuns
<1>4. report' = report /\ state' = state /\ targets' = targets /\ scheduled' = scheduled
  BY DEF rows
<1>5. \A h \in Hosts : \A i \in 1..Len(timeline'[h]) : start'[timeline'[h][i].run] # 0
  <2> SUFFICES ASSUME NEW h \in Hosts, NEW i \in 1..Len(timeline'[h])
               PROVE  start'[timeline'[h][i].run] # 0
    OBVIOUS
  <2>1. \A k \in 1..Len(timeline[h]) : start'[timeline[h][k].run] # 0
    BY <1>3 DEF Traces
  <2>2. \/ i \in 1..Len(timeline[h]) /\ timeline'[h][i] = timeline[h][i]
        \/ timeline'[h][i] = e
    <3>1. ASSUME NEW tl \in Seq(Event0), NEW k \in 1..Len(Append(tl, e))
          PROVE  \/ k \in 1..Len(tl) /\ Append(tl, e)[k] = tl[k]
                 \/ Append(tl, e)[k] = e
      OBVIOUS
    <3>2. timeline[h] \in Seq(Event0) /\ timeline'[h] \in {timeline[h], Append(timeline[h], e)}
      BY <1>2, <1>3
    <3> QED
      BY <3>1, <3>2
  <2> QED
    BY <1>1, <2>1, <2>2
<1>6. Traces'
  BY <1>4, <1>5 DEF Traces
<1>7. Explains'
  <2> SUFFICES ASSUME NEW h \in Hosts, LastConfig(timeline[h], state[h].config)
               PROVE  LastConfig(timeline'[h], state[h].config)
    BY <1>4 DEF Explains, Settled
  <2> QED
    BY <1>1, <1>2, <1>3, AppendedPower
<1> QED
  BY <1>6, <1>7

LEMMA TracesStep ==
  ASSUME TypeOK, Busy, Claims, OrderInv, Traces, Explains, [Next]_vars
  PROVE  Traces' /\ Explains'
<1>0. \A r \in Runs : start[r] # 0 => start'[r] # 0
  BY OrderStep
<1>1. ASSUME NEW r \in Runs, NEW hosts \in (SUBSET Hosts) \ {{}}, NEW k \in Kinds,
             PanelSubmits(r, hosts, k)
      PROVE  Traces' /\ Explains'
  BY <1>0, <1>1, NewRowTraces DEF PanelSubmits, NextRow
<1>2. ASSUME NEW r \in Runs, NEW result \in Terminal, PanelFinishes(r, result)
      PROVE  Traces' /\ Explains'
  <2>1. start[r] # 0 /\ UNCHANGED rows
    BY <1>2 DEF PanelFinishes, OrderInv
  <2>2. CASE kind[r] = "power"
    BY <1>0, <1>2, <2>1, <2>2, PowerTraces DEF PanelFinishes
  <2>3. CASE kind[r] # "power"
    <3>1. PICK recaps \in Reports(r) : Applied(r, recaps) /\ timeline' = RecordEvents(r, recaps)
      BY <1>2, <2>3 DEF PanelFinishes, Applied
    <3> QED
      BY <1>0, <2>1, <2>3, <3>1, FinishTraces
  <2> QED
    BY <2>2, <2>3
<1>3. ASSUME NEW r \in Runs, NEW h \in Hosts, NEW k \in {"check", "apply"},
             SchedBegins(r, h, k)
      PROVE  Traces' /\ Explains'
  BY <1>0, <1>3, NewRowTraces DEF SchedBegins, NextRow
<1>4. ASSUME NEW result \in {"success", "failed"}, SchedApplies(result)
      PROVE  Traces' /\ Explains'
  <2>1. PICK recaps \in Reports(fired) : Applied(fired, recaps)
    BY <1>4 DEF SchedApplies, Applied
  <2>2. /\ fired \in Runs /\ fired \in scheduled /\ start[fired] # 0
        /\ UNCHANGED rows /\ timeline' = timeline
    BY <1>4 DEF SchedApplies, Busy, OrderInv, Child
  <2>3. /\ \A x \in Runs : report'[x] # NoReport => start'[x] # 0
        /\ \A h \in Hosts : state'[h].job = 0 => state'[h].config = "none"
    BY <1>0, <2>1, <2>2, AppliedTraces
  <2>4. \A h \in Hosts : \A i \in 1..Len(timeline'[h]) : start'[timeline'[h][i].run] # 0
    BY <1>0, <2>2, TimelineRuns DEF Traces
  <2>5. Traces'
    BY <2>3, <2>4 DEF Traces
  <2>6. Explains'
    <3> SUFFICES ASSUME NEW h \in Hosts, state'[h].job # 0, Settled(h)' \cap scheduled = {}
                 PROVE  LastConfig(timeline[h], state'[h].config)
      BY <2>2 DEF Explains, rows
    <3>1. \A x \in Runs : report'[x] = IF x = fired THEN recaps ELSE report[x]
      BY <2>1 DEF Applied, TypeOK
    <3>2. h \notin targets[fired]
      <4> SUFFICES ASSUME h \in targets[fired] PROVE FALSE
        OBVIOUS
      <4>1. recaps # NoReport
        BY DEF Reports, NoReport
      <4>2. fired \in Settled(h)'
        BY <2>2, <3>1, <4>1 DEF Settled, rows
      <4> QED
        BY <2>2, <4>2
    <3>3. state'[h] = state[h]
      BY <2>1, <3>2 DEF Applied, UpdateState
    <3>4. Settled(h) \subseteq Settled(h)'
      BY <2>2, <3>1, <3>2 DEF Settled, rows
    <3> QED
      BY <3>3, <3>4 DEF Explains
  <2> QED
    BY <2>5, <2>6
<1>5. ASSUME \/ PanelRetries \/ PanelRestarts \/ SchedLocks \/ SchedSkips \/ SchedUnlocks
             \/ SchedFails \/ UNCHANGED vars \/ \E r \in Runs : PanelCancelsQueued(r)
      PROVE  Traces' /\ Explains'
  <2>1. UNCHANGED <<rows, effects>>
    BY <1>5 DEF PanelRetries, PanelRestarts, SchedLocks, SchedSkips, SchedUnlocks,
                SchedFails, vars, PanelCancelsQueued
  <2> QED
    BY <1>0, <2>1, QuietTraces
<1> QED
  BY <1>1, <1>2, <1>3, <1>4, <1>5 DEF Next

LEMMA HistoryHolds == Spec => [](TypeOK /\ Claims /\ OrderInv /\ Traces /\ Explains)
<1> DEFINE HInv == TypeOK /\ Busy /\ Claims /\ OrderInv /\ Traces /\ Explains
<1>1. Init => HInv
  BY TypeInit, ClaimsInit, OrderInit, TracesInit
<1>2. HInv /\ [Next]_vars => HInv'
  BY TypeStep, ClaimsStep, OrderStep, TracesStep
<1>3. HInv => TypeOK /\ Claims /\ OrderInv /\ Traces /\ Explains
  OBVIOUS
<1> QED
  BY <1>1, <1>2, <1>3, PTL DEF Spec

(* Among the panel's own runs the one that started last decides, whatever  *)
(* the scheduler child does in between (jobs.py:205-240 starts in id order,*)
(* jobs.py:340 lets the highest id win).                                   *)
THEOREM LastStartedPrevails == Spec => []PanelRunsInOrder
<1>1. TypeOK /\ Claims /\ OrderInv /\ Traces => PanelRunsInOrder
  <2> SUFFICES ASSUME TypeOK, Claims, OrderInv, Traces, NEW h \in Hosts,
                      NEW r \in Settled(h) \ scheduled, state[h].job \notin scheduled
               PROVE  start[r] <= start[state[h].job]
    BY DEF PanelRunsInOrder
  <2> DEFINE j == state[h].job
  <2>1. r \in Runs /\ start[r] # 0 /\ r <= j /\ j \in Runs \cup {0}
    BY DEF Settled, Claims, HighestIdWins, Traces, TypeOK
  <2>2. j # 0
    BY <2>1 DEF Runs
  <2>3. j \in Runs /\ start[j] # 0
    BY <2>1, <2>2 DEF Claims, HighestIdWins, Settled, Traces
  <2>4. r < j \/ r = j
    BY <2>1, <2>3 DEF Runs
  <2>5. start[r] \in Nat
    BY <2>1 DEF TypeOK
  <2> HIDE DEF j
  <2>6. j \notin scheduled
    BY DEF j
  <2>7. start[r] <= start[j]
    BY <2>1, <2>3, <2>4, <2>5, <2>6 DEF OrderInv, InOrder
  <2> QED
    BY <2>7 DEF j
<1> QED
  BY <1>1, HistoryHolds, PTL

(* Replaying a host's timeline gives its configuration state as long as    *)
(* only the panel's runs reached it, and a run that never started left no  *)
(* trace in either (jobs.py:340-372, 375-400).                             *)
THEOREM TimelineReplaysState == Spec => []TimelineExplainsState
<1>1. TypeOK /\ Claims /\ Traces /\ Explains => TimelineExplainsState
  <2> SUFFICES ASSUME TypeOK, Claims, Traces, Explains, NEW h \in Hosts
               PROVE  /\ state[h].job # 0 /\ Settled(h) \cap scheduled = {} =>
                           \E i \in ConfigEvents(h) :
                             /\ \A k \in ConfigEvents(h) : k <= i
                             /\ Implied(timeline[h][i]) = state[h].config
                      /\ \A r \in Runs : NeverStarted(r) =>
                           /\ state[h].job # r
                           /\ \A i \in 1..Len(timeline[h]) : timeline[h][i].run # r
    BY DEF TimelineExplainsState
  <2>1. state[h].job # 0 /\ Settled(h) \cap scheduled = {} =>
          \E i \in ConfigEvents(h) :
            /\ \A k \in ConfigEvents(h) : k <= i
            /\ Implied(timeline[h][i]) = state[h].config
    BY DEF Explains, LastConfig, ConfigEvents
  <2>2. ASSUME NEW r \in Runs, NeverStarted(r)
        PROVE  /\ state[h].job # r
               /\ \A i \in 1..Len(timeline[h]) : timeline[h][i].run # r
    <3>1. start[r] = 0 /\ r # 0
      BY <2>2 DEF NeverStarted, Runs
    <3>2. state[h].job # 0 => start[state[h].job] # 0
      BY DEF Claims, HighestIdWins, Settled, Traces
    <3> QED
      BY <3>1, <3>2 DEF Traces
  <2> QED
    BY <2>1, <2>2
<1> QED
  BY <1>1, HistoryHolds, PTL
=============================================================================
