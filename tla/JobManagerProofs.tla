-------------------------- MODULE JobManagerProofs --------------------------
(***************************************************************************)
(* The interlock of the job manager, for any number of jobs, any pool      *)
(* size, and any number of settings saves and of failing coroutines.       *)
(***************************************************************************)
EXTENDS JobManager, FiniteSetTheorems, SequenceTheorems, TLAPS

(***************************************************************************)
(* The inductive invariant, stated over explicit arguments because         *)
(* Dispatch is called on intermediate values.  The safety statement alone  *)
(* is not inductive: a promotion must not overwrite the stage of a running *)
(* job, so the waiting jobs must be distinct and outside the active set,   *)
(* and a fresh row must not belong to a job that is already waiting.  Nor  *)
(* may a job that is promoted have a process left from an earlier life, so *)
(* the processes belong to jobs that have a row and wait in no queue.      *)
(***************************************************************************)
QueueApart(q, tk, rw) ==
  /\ \A i, k \in 1..Len(q) : q[i] = q[k] => i = k
  /\ \A i \in 1..Len(q) : tk[q[i]] = "none" /\ rw[q[i]] # "none"
  /\ \A j \in Jobs : tk[j] # "none" => rw[j] # "none"

LiveCovered(tk, lk) ==
  \A j \in Jobs : tk[j] \notin {"none", "lost"} => lk = "panel"

AttendedCovered(tk, lk, ch) == \A j \in ch : tk[j] # "none" => lk = "panel"

ChildrenApart(q, rw, ch) ==
  \A j \in ch : rw[j] # "none" /\ \A i \in 1..Len(q) : q[i] # j

Core(q, tk, rw, lk, ch) ==
  /\ QueueApart(q, tk, rw) /\ LiveCovered(tk, lk)
  /\ AttendedCovered(tk, lk, ch) /\ ChildrenApart(q, rw, ch)

IInv == TypeOK /\ Core(queue, task, row, lock, children)

USE JobManagerAssumption

-----------------------------------------------------------------------------
LEMMA RoomType ==
  ASSUME TypeOK, NEW tk \in [Jobs -> Stages]
  PROVE  Room(tk) \in Int
<1> DEFINE S == {j \in Jobs : tk[j] # "none"}
<1>1. IsFiniteSet(Jobs)
  BY FS_Interval DEF Jobs
<1>2. IsFiniteSet(S)
  BY <1>1, FS_Subset
<1>3. Cardinality(S) \in Nat
  BY <1>2, FS_CardinalityType
<1> QED
  BY <1>3 DEF Room, TypeOK

LEMMA PromotableRange ==
  ASSUME TypeOK, NEW q \in Seq(Jobs), NEW tk \in [Jobs -> Stages]
  PROVE  Promotable(q, tk) \in 0..Len(q)
BY RoomType DEF Promotable, TypeOK

(***************************************************************************)
(* Dispatch in one form: some prefix of the queue, possibly empty, moves   *)
(* to the active set, and a non-empty prefix only under the panel's lock.  *)
(***************************************************************************)
Moves(n, q, tk, rw, lk) ==
  LET starts == {q[i] : i \in 1..n}
  IN  /\ queue' = SubSeq(q, n + 1, Len(q))
      /\ task' = [j \in Jobs |-> IF j \in starts THEN "created" ELSE tk[j]]
      /\ row' = [j \in Jobs |-> IF j \in starts THEN "running" ELSE rw[j]]
      /\ lock' = IF n > 0 THEN "panel" ELSE lk
      /\ retry' \in BOOLEAN

LEMMA WholeSubSeq ==
  ASSUME NEW q \in Seq(Jobs)
  PROVE  SubSeq(q, 1, Len(q)) = q
OBVIOUS

LEMMA DispatchMoves ==
  ASSUME TypeOK, NEW q \in Seq(Jobs), NEW tk \in [Jobs -> Stages],
         NEW rw \in [Jobs -> Statuses], NEW lk \in {"free", "panel", "external"},
         Dispatch(q, tk, rw, lk)
  PROVE  \E n \in 0..Len(q) : Moves(n, q, tk, rw, lk)
<1>1. CASE Promotable(q, tk) > 0 /\ lk = "external"
  <2>1. queue' = q /\ task' = tk /\ row' = rw /\ lock' = lk /\ retry' \in BOOLEAN
    BY <1>1 DEF Dispatch
  <2>2. Moves(0, q, tk, rw, lk)
    BY <2>1, WholeSubSeq DEF Moves
  <2> QED
    BY <2>2
<1>2. CASE ~(Promotable(q, tk) > 0 /\ lk = "external")
  <2>1. Moves(Promotable(q, tk), q, tk, rw, lk)
    BY <1>2 DEF Dispatch, Moves
  <2> QED
    BY <2>1, PromotableRange
<1> QED
  BY <1>1, <1>2

LEMMA MovesType ==
  ASSUME TypeOK, NEW q \in Seq(Jobs), NEW tk \in [Jobs -> Stages],
         NEW rw \in [Jobs -> Statuses], NEW lk \in {"free", "panel", "external"},
         NEW n \in 0..Len(q), Moves(n, q, tk, rw, lk)
  PROVE  /\ queue' \in Seq(Jobs)
         /\ task' \in [Jobs -> Stages]
         /\ row' \in [Jobs -> Statuses]
         /\ lock' \in {"free", "panel", "external"}
         /\ retry' \in BOOLEAN
<1>1. queue' \in Seq(Jobs)
  <2>1. \A i \in 1..Len(q) : q[i] \in Jobs
    OBVIOUS
  <2> QED
    BY <2>1 DEF Moves
<1> QED
  BY <1>1 DEF Moves, Stages, Statuses

LEMMA MovesCore ==
  ASSUME TypeOK, NEW q \in Seq(Jobs), NEW tk \in [Jobs -> Stages],
         NEW rw \in [Jobs -> Statuses], NEW lk \in {"free", "panel", "external"},
         NEW n \in 0..Len(q), Moves(n, q, tk, rw, lk), NEW ch \in SUBSET Jobs,
         Core(q, tk, rw, lk, ch)
  PROVE  Core(queue', task', row', lock', ch)
<1> DEFINE starts == {q[i] : i \in 1..n}
<1>1. /\ task' = [j \in Jobs |-> IF j \in starts THEN "created" ELSE tk[j]]
      /\ row' = [j \in Jobs |-> IF j \in starts THEN "running" ELSE rw[j]]
      /\ lock' = IF n > 0 THEN "panel" ELSE lk
  BY DEF Moves
<1>2. /\ Len(queue') = Len(q) - n
      /\ \A i \in 1..Len(queue') : /\ i + n \in 1..Len(q)
                                   /\ queue'[i] = q[i + n]
  BY DEF Moves
<1>3. \A i \in 1..Len(queue') : queue'[i] \notin starts /\ queue'[i] \in Jobs
  <2> SUFFICES ASSUME NEW i \in 1..Len(queue')
               PROVE  queue'[i] \notin starts /\ queue'[i] \in Jobs
    OBVIOUS
  <2>1. i + n \in 1..Len(q) /\ queue'[i] = q[i + n] /\ i \in Nat /\ i > 0
    BY <1>2
  <2>2. \A k \in 1..n : k \in 1..Len(q) /\ k # i + n
    BY <2>1
  <2>3. \A k \in 1..n : q[k] # q[i + n]
    BY <2>1, <2>2 DEF Core, QueueApart
  <2> QED
    BY <2>1, <2>3
<1>4. QueueApart(queue', task', row')
  <2>1. \A i, k \in 1..Len(queue') : queue'[i] = queue'[k] => i = k
    <3> SUFFICES ASSUME NEW i \in 1..Len(queue'), NEW k \in 1..Len(queue'),
                        queue'[i] = queue'[k]
                 PROVE  i = k
      OBVIOUS
    <3>1. i + n \in 1..Len(q) /\ k + n \in 1..Len(q) /\ q[i + n] = q[k + n]
      BY <1>2
    <3>2. \A a, b \in 1..Len(q) : q[a] = q[b] => a = b
      BY DEF Core, QueueApart
    <3>3. i + n = k + n
      BY <3>1, <3>2
    <3>4. i \in Int /\ k \in Int /\ n \in Int
      BY <1>2
    <3> QED
      BY <3>3, <3>4
  <2>2. \A i \in 1..Len(queue') : task'[queue'[i]] = "none" /\ row'[queue'[i]] # "none"
    <3> SUFFICES ASSUME NEW i \in 1..Len(queue')
                 PROVE  task'[queue'[i]] = "none" /\ row'[queue'[i]] # "none"
      OBVIOUS
    <3>1. queue'[i] = q[i + n] /\ i + n \in 1..Len(q)
      BY <1>2
    <3>2. tk[q[i + n]] = "none" /\ rw[q[i + n]] # "none"
      BY <3>1 DEF Core, QueueApart
    <3> QED
      BY <3>1, <3>2, <1>1, <1>3
  <2>3. \A j \in Jobs : task'[j] # "none" => row'[j] # "none"
    BY <1>1 DEF Core, QueueApart
  <2> QED
    BY <2>1, <2>2, <2>3 DEF QueueApart
<1>5. LiveCovered(task', lock')
  <2>1. CASE n = 0
    BY <2>1, <1>1 DEF Core, LiveCovered
  <2>2. CASE n > 0
    BY <2>2, <1>1 DEF LiveCovered
  <2> QED
    BY <2>1, <2>2
<1>6. AttendedCovered(task', lock', ch)
  <2>1. \A j \in ch : j \notin starts
    BY DEF Core, ChildrenApart
  <2> QED
    BY <2>1, <1>1 DEF Core, AttendedCovered
<1>7. ChildrenApart(queue', row', ch)
  <2> SUFFICES ASSUME NEW j \in ch
               PROVE  row'[j] # "none" /\ \A i \in 1..Len(queue') : queue'[i] # j
    BY DEF ChildrenApart
  <2>1. j \in Jobs /\ rw[j] # "none" /\ \A i \in 1..Len(q) : q[i] # j
    BY DEF Core, ChildrenApart
  <2>2. row'[j] # "none"
    BY <2>1, <1>1
  <2>3. \A i \in 1..Len(queue') : queue'[i] # j
    BY <2>1, <1>2
  <2> QED
    BY <2>2, <2>3
<1> QED
  BY <1>4, <1>5, <1>6, <1>7 DEF Core

(* What the actions that end in _dispatch need to know about it. *)
LEMMA DispatchPreserves ==
  ASSUME TypeOK, NEW q \in Seq(Jobs), NEW tk \in [Jobs -> Stages],
         NEW rw \in [Jobs -> Statuses], NEW lk \in {"free", "panel", "external"},
         Dispatch(q, tk, rw, lk), NEW ch \in SUBSET Jobs,
         Core(q, tk, rw, lk, ch)
  PROVE  /\ queue' \in Seq(Jobs)
         /\ task' \in [Jobs -> Stages]
         /\ row' \in [Jobs -> Statuses]
         /\ lock' \in {"free", "panel", "external"}
         /\ retry' \in BOOLEAN
         /\ Core(queue', task', row', lock', ch)
<1>1. PICK n \in 0..Len(q) : Moves(n, q, tk, rw, lk)
  BY DispatchMoves
<1> QED
  BY <1>1, MovesType, MovesCore

-----------------------------------------------------------------------------
LEMMA InitIInv == Init => IInv
<1> SUFFICES ASSUME Init PROVE IInv
  OBVIOUS
<1>1. TypeOK
  <2>1. row \in [Jobs -> Statuses] /\ task \in [Jobs -> Stages] /\ queue \in Seq(Jobs)
    BY DEF Init, Statuses, Stages
  <2>2. limit \in 1..MaxLimit /\ saves \in 0..MaxSaves /\ faults \in 0..MaxFaults
    BY DEF Init
  <2> QED
    BY <2>1, <2>2 DEF Init, TypeOK
<1>2. Core(queue, task, row, lock, children)
  BY DEF Init, Core, QueueApart, LiveCovered, AttendedCovered, ChildrenApart, Jobs
<1> QED
  BY <1>1, <1>2 DEF IInv

(* A submitted job is new: its row did not exist, so it neither waits nor runs. *)
LEMMA SubmitCore ==
  ASSUME IInv, NEW j \in Jobs, row[j] = "none"
  PROVE  /\ Enqueue(queue, j) \in Seq(Jobs)
         /\ [row EXCEPT ![j] = "queued"] \in [Jobs -> Statuses]
         /\ Core(Enqueue(queue, j), task, [row EXCEPT ![j] = "queued"], lock, children)
<1> DEFINE q == Enqueue(queue, j)
           rw == [row EXCEPT ![j] = "queued"]
<1>1. queue \in Seq(Jobs) /\ row \in [Jobs -> Statuses] /\ task \in [Jobs -> Stages]
  BY DEF IInv, TypeOK
<1>2. /\ q \in Seq(Jobs)
      /\ Len(q) = Len(queue) + 1
      /\ q[Len(q)] = j
      /\ \A i \in 1..Len(queue) : q[i] = queue[i]
  BY <1>1 DEF Enqueue
<1>3. rw \in [Jobs -> Statuses] /\ rw[j] = "queued"
      /\ \A i \in Jobs : rw[i] # "none" <=> (row[i] # "none" \/ i = j)
  BY <1>1 DEF Statuses
<1>4. QueueApart(queue, task, row)
  BY DEF IInv, Core
<1>5. task[j] = "none" /\ \A i \in 1..Len(queue) : queue[i] # j
  BY <1>4 DEF QueueApart
<1>6. \A i \in 1..Len(queue) : queue[i] \in Jobs
  BY <1>1
<1>7. \A i \in 1..Len(q) : i \in 1..Len(queue) \/ i = Len(q)
  BY <1>1, <1>2
<1>8. QueueApart(q, task, rw)
  <2>1. \A i, k \in 1..Len(q) : q[i] = q[k] => i = k
    BY <1>2, <1>4, <1>5, <1>7 DEF QueueApart
  <2>2. \A i \in 1..Len(q) : task[q[i]] = "none" /\ rw[q[i]] # "none"
    BY <1>2, <1>3, <1>4, <1>5, <1>6, <1>7 DEF QueueApart
  <2>3. \A i \in Jobs : task[i] # "none" => rw[i] # "none"
    BY <1>3, <1>4 DEF QueueApart
  <2> QED
    BY <2>1, <2>2, <2>3 DEF QueueApart
<1>9. ChildrenApart(q, rw, children)
  BY <1>2, <1>3, <1>7 DEF IInv, TypeOK, Core, ChildrenApart
<1> QED
  BY <1>2, <1>3, <1>8, <1>9 DEF IInv, Core

(* A finished job leaves the active set; the lock may go only with the last. *)
LEMMA FinishCore ==
  ASSUME IInv, NEW j \in Jobs, task[j] # "none"
  PROVE  LET tk == [task EXCEPT ![j] = "none"]
             rw == [row EXCEPT ![j] = FinalStatus(j)]
             lk == IF Idle(tk) THEN "free" ELSE lock
         IN  /\ tk \in [Jobs -> Stages]
             /\ rw \in [Jobs -> Statuses]
             /\ lk \in {"free", "panel", "external"}
             /\ Core(queue, tk, rw, lk, children)
<1> DEFINE tk == [task EXCEPT ![j] = "none"]
           rw == [row EXCEPT ![j] = FinalStatus(j)]
           lk == IF Idle(tk) THEN "free" ELSE lock
<1>1. /\ queue \in Seq(Jobs) /\ row \in [Jobs -> Statuses]
      /\ task \in [Jobs -> Stages] /\ lock \in {"free", "panel", "external"}
      /\ children \in SUBSET Jobs
  BY DEF IInv, TypeOK
<1>2. /\ tk \in [Jobs -> Stages]
      /\ tk[j] = "none"
      /\ \A i \in Jobs : i # j => tk[i] = task[i]
  BY <1>1 DEF Stages
<1>3. /\ FinalStatus(j) \in Terminal
      /\ rw \in [Jobs -> Statuses]
      /\ rw[j] # "none"
      /\ \A i \in Jobs : i # j => rw[i] = row[i]
  BY <1>1 DEF FinalStatus, Statuses, Terminal
<1>4. \A i \in 1..Len(queue) : queue[i] \in Jobs
  BY <1>1
<1>5. QueueApart(queue, tk, rw)
  BY <1>2, <1>3, <1>4 DEF IInv, Core, QueueApart
<1>6. LiveCovered(tk, lk)
  BY <1>2 DEF IInv, Core, LiveCovered, Idle
<1>7. AttendedCovered(tk, lk, children)
  BY <1>1, <1>2 DEF IInv, Core, AttendedCovered, Idle
<1>8. ChildrenApart(queue, rw, children)
  BY <1>1, <1>3 DEF IInv, Core, ChildrenApart
<1> QED
  BY <1>1, <1>2, <1>3, <1>5, <1>6, <1>7, <1>8 DEF Core

(* Removing one waiting job keeps the others distinct (cancel's pop(i)). *)
LEMMA RemoveAtCore ==
  ASSUME NEW q \in Seq(Jobs), NEW i \in 1..Len(q)
  PROVE  LET r == SubSeq(q, 1, i - 1) \o SubSeq(q, i + 1, Len(q))
         IN  /\ r \in Seq(Jobs)
             /\ Len(r) = Len(q) - 1
             /\ \A k \in 1..Len(r) : r[k] = IF k < i THEN q[k] ELSE q[k + 1]
<1> DEFINE a == SubSeq(q, 1, i - 1)
           b == SubSeq(q, i + 1, Len(q))
<1>0. i \in Nat /\ 1 <= i /\ i <= Len(q) /\ Len(q) \in Nat
      /\ \A k \in 1..Len(q) : q[k] \in Jobs
  OBVIOUS
<1>1. a \in Seq(Jobs) /\ Len(a) = i - 1 /\ \A k \in 1..Len(a) : a[k] = q[k]
  BY <1>0
<1>2. b \in Seq(Jobs) /\ Len(b) = Len(q) - i /\ \A k \in 1..Len(b) : b[k] = q[k + i]
  BY <1>0
<1> HIDE DEF a, b
<1>3. a \o b \in Seq(Jobs) /\ Len(a \o b) = Len(q) - 1
  <2>1. a \o b \in Seq(Jobs) /\ Len(a \o b) = Len(a) + Len(b)
    BY <1>1, <1>2, ConcatProperties
  <2> QED
    BY <2>1, <1>0, <1>1, <1>2
<1>4. \A k \in 1..Len(a) + Len(b) :
        (a \o b)[k] = IF k <= Len(a) THEN a[k] ELSE b[k - Len(a)]
  BY <1>1, <1>2, ConcatProperties
<1>5. \A k \in 1..Len(a \o b) : (a \o b)[k] = IF k < i THEN q[k] ELSE q[k + 1]
  <2> SUFFICES ASSUME NEW k \in 1..Len(a \o b)
               PROVE  (a \o b)[k] = IF k < i THEN q[k] ELSE q[k + 1]
    OBVIOUS
  <2>1. CASE k < i
    <3>1. k \in 1..Len(a)
      BY <2>1, <1>0, <1>1, <1>3
    <3> QED
      BY <3>1, <2>1, <1>0, <1>1, <1>2, <1>4
  <2>2. CASE ~(k < i)
    <3>0. k \in Nat /\ k >= i /\ k <= Len(q) - 1 /\ Len(a) = i - 1 /\ Len(b) = Len(q) - i
      BY <2>2, <1>0, <1>1, <1>2, <1>3
    <3>1. k - Len(a) \in 1..Len(b) /\ ~(k <= Len(a)) /\ k - Len(a) + i = k + 1
      BY <3>0, <1>0
    <3>2. (a \o b)[k] = b[k - Len(a)]
      BY <3>0, <3>1, <1>0, <1>4
    <3> QED
      BY <3>1, <3>2, <2>2, <1>2
  <2> QED
    BY <2>1, <2>2
<1> QED
  BY <1>3, <1>5 DEF a, b

-----------------------------------------------------------------------------
LEMMA JobStepIInv ==
  ASSUME IInv, NEW j \in Jobs, JobStep(j)
  PROVE  IInv'
<1>0. /\ TypeOK /\ Core(queue, task, row, lock, children)
      /\ queue \in Seq(Jobs) /\ row \in [Jobs -> Statuses]
      /\ task \in [Jobs -> Stages] /\ lock \in {"free", "panel", "external"}
      /\ children \in SUBSET Jobs
      /\ \A i \in 1..Len(queue) : queue[i] \in Jobs
  BY DEF IInv, TypeOK
<1>1. CASE Submit(j)
  <2> DEFINE q == Enqueue(queue, j)
             rw == [row EXCEPT ![j] = "queued"]
  <2>1. q \in Seq(Jobs) /\ rw \in [Jobs -> Statuses] /\ Core(q, task, rw, lock, children)
    BY <1>1, SubmitCore DEF Submit, NextRow
  <2>2. Dispatch(q, task, rw, lock)
    BY <1>1 DEF Submit
  <2>3. children' = children
    BY <1>1 DEF Submit
  <2> HIDE DEF q, rw
  <2>4. /\ queue' \in Seq(Jobs) /\ task' \in [Jobs -> Stages]
        /\ row' \in [Jobs -> Statuses] /\ lock' \in {"free", "panel", "external"}
        /\ retry' \in BOOLEAN
        /\ Core(queue', task', row', lock', children)
    BY <1>0, <2>1, <2>2, SubmitCore, DispatchPreserves
  <2> QED
    BY <1>1, <2>3, <2>4 DEF Submit, IInv, TypeOK
<1>2. CASE SubmitLeavesRow(j)
  <2>1. TypeOK'
    BY <1>2, <1>0 DEF SubmitLeavesRow, memory, TypeOK, Statuses
  <2>2. Core(queue, task, row', lock, children)
    BY <1>2, <1>0 DEF SubmitLeavesRow, Core, QueueApart, ChildrenApart
  <2> QED
    BY <1>2, <2>1, <2>2 DEF SubmitLeavesRow, memory, IInv
<1>3. CASE Spawn(j)
  <2>1. TypeOK'
    BY <1>3, <1>0 DEF Spawn, TypeOK, Stages
  <2>2. QueueApart(queue, task', row)
    BY <1>3, <1>0 DEF Spawn, Core, QueueApart
  <2>3. LiveCovered(task', lock) /\ AttendedCovered(task', lock', children')
    BY <1>3, <1>0 DEF Spawn, Core, LiveCovered, AttendedCovered
  <2>4. ChildrenApart(queue, row, children')
    BY <1>3, <1>0 DEF Spawn, Core, QueueApart, ChildrenApart
  <2> QED
    BY <1>3, <2>1, <2>2, <2>3, <2>4 DEF Spawn, IInv, Core
<1>4. CASE ChildExits(j)
  <2>1. CASE task[j] = "running"
    <3>1. task' = [task EXCEPT ![j] = "exited"]
      BY <1>4, <2>1 DEF ChildExits
    <3>2. TypeOK'
      BY <1>4, <1>0, <3>1 DEF ChildExits, TypeOK, Stages
    <3>3. QueueApart(queue, task', row)
      BY <1>0, <2>1, <3>1 DEF Core, QueueApart
    <3>4. LiveCovered(task', lock)
      BY <1>0, <2>1, <3>1 DEF Core, LiveCovered
    <3>5. AttendedCovered(task', lock', children')
      BY <1>4, <1>0, <3>1 DEF ChildExits, Core, AttendedCovered
    <3> QED
      BY <1>4, <1>0, <3>2, <3>3, <3>4, <3>5 DEF ChildExits, IInv, Core, ChildrenApart
  <2>2. CASE task[j] # "running"
    <3>1. task' = task /\ children' = children \ {j}
      BY <1>4, <2>2 DEF ChildExits
    <3>2. TypeOK'
      BY <1>4, <1>0, <3>1 DEF ChildExits, TypeOK
    <3> QED
      BY <1>4, <1>0, <3>1, <3>2 DEF ChildExits, IInv, Core, AttendedCovered, ChildrenApart
  <2> QED
    BY <2>1, <2>2
<1>5. ASSUME FinallyBlock(j), task[j] \in {"created", "running", "exited"}
      PROVE  IInv'
  <2> DEFINE tk == [task EXCEPT ![j] = "none"]
             rw == [row EXCEPT ![j] = FinalStatus(j)]
             lk == IF Idle(tk) THEN "free" ELSE lock
  <2>1. task[j] # "none"
    BY <1>5
  <2>2. /\ tk \in [Jobs -> Stages] /\ rw \in [Jobs -> Statuses]
        /\ lk \in {"free", "panel", "external"}
        /\ Core(queue, tk, rw, lk, children)
    BY <1>5, <2>1, FinishCore
  <2>3. Dispatch(queue, tk, rw, lk)
    BY <1>5 DEF FinallyBlock
  <2> HIDE DEF tk, rw, lk
  <2>4. /\ queue' \in Seq(Jobs) /\ task' \in [Jobs -> Stages]
        /\ row' \in [Jobs -> Statuses] /\ lock' \in {"free", "panel", "external"}
        /\ retry' \in BOOLEAN
        /\ Core(queue', task', row', lock', children)
    BY <1>0, <2>2, <2>3, DispatchPreserves
  <2>5. children' = children /\ cancelled' = cancelled \ {j}
    BY <1>5 DEF FinallyBlock
  <2> QED
    BY <1>0, <1>5, <2>4, <2>5 DEF FinallyBlock, IInv, TypeOK
<1>6. CASE Finish(j)
  BY <1>5, <1>6 DEF Finish
<1>7. CASE SpawnFails(j) \/ RunnerRaises(j)
  BY <1>5, <1>7 DEF SpawnFails, RunnerRaises
<1>8. CASE CoroutineDies(j)
  <2>1. /\ task' = [task EXCEPT ![j] = "lost"]
        /\ task[j] \notin {"none", "lost"}
        /\ \/ row' = row
           \/ row' = [row EXCEPT ![j] = FinalStatus(j)]
    BY <1>8 DEF CoroutineDies, Live
  <2>2. FinalStatus(j) \in Statuses \ {"none"}
    BY DEF FinalStatus, Statuses
  <2>3. row' \in [Jobs -> Statuses] /\ \A i \in Jobs : row[i] # "none" => row'[i] # "none"
    BY <1>0, <2>1, <2>2
  <2>4. TypeOK'
    <3>1. task' \in [Jobs -> Stages]
      BY <1>0, <2>1 DEF Stages
    <3>2. faults' \in 0..MaxFaults
      BY <1>8, <1>0 DEF CoroutineDies, TypeOK
    <3> QED
      BY <1>8, <1>0, <2>3, <3>1, <3>2 DEF CoroutineDies, TypeOK
  <2>5. QueueApart(queue, task', row')
    BY <1>0, <2>1, <2>3 DEF Core, QueueApart
  <2>6. LiveCovered(task', lock) /\ AttendedCovered(task', lock', children)
    BY <1>8, <1>0, <2>1 DEF CoroutineDies, Core, LiveCovered, AttendedCovered
  <2>7. ChildrenApart(queue, row', children)
    BY <1>0, <2>3 DEF Core, ChildrenApart
  <2> QED
    BY <1>8, <2>4, <2>5, <2>6, <2>7 DEF CoroutineDies, IInv, Core
<1>9. CASE CancelRunning(j)
  <2>1. TypeOK'
    BY <1>9, <1>0 DEF CancelRunning, TypeOK
  <2> QED
    BY <1>9, <1>0, <2>1 DEF CancelRunning, IInv
<1>10. CASE CancelSettles(j)
  <2>1. TypeOK'
    BY <1>10, <1>0 DEF CancelSettles, TypeOK, Statuses
  <2>2. QueueApart(queue, task, row')
    BY <1>10, <1>0 DEF CancelSettles, Core, QueueApart
  <2>3. ChildrenApart(queue, row', children)
    BY <1>10, <1>0 DEF CancelSettles, Core, ChildrenApart
  <2> QED
    BY <1>10, <1>0, <2>1, <2>2, <2>3 DEF CancelSettles, IInv, Core
<1>11. CASE CancelQueued(j)
  <2>1. PICK i \in 1..Len(queue) :
          /\ queue[i] = j
          /\ queue' = SubSeq(queue, 1, i - 1) \o SubSeq(queue, i + 1, Len(queue))
    BY <1>11 DEF CancelQueued
  <2>2. /\ queue' \in Seq(Jobs)
        /\ Len(queue') = Len(queue) - 1
        /\ \A k \in 1..Len(queue') : queue'[k] = IF k < i THEN queue[k] ELSE queue[k + 1]
    BY <1>0, <2>1, RemoveAtCore
  <2>3. row' = [row EXCEPT ![j] = "cancelled"]
    BY <1>11 DEF CancelQueued
  <2>4. TypeOK'
    BY <1>11, <1>0, <2>2, <2>3 DEF CancelQueued, TypeOK, Statuses
  <2>5. QueueApart(queue', task, row')
    <3>1. \A k \in 1..Len(queue') : \E m \in 1..Len(queue) :
            queue'[k] = queue[m] /\ m = (IF k < i THEN k ELSE k + 1)
      <4> SUFFICES ASSUME NEW k \in 1..Len(queue')
                   PROVE  \E m \in 1..Len(queue) :
                            queue'[k] = queue[m] /\ m = (IF k < i THEN k ELSE k + 1)
        OBVIOUS
      <4>1. (IF k < i THEN k ELSE k + 1) \in 1..Len(queue)
        BY <1>0, <2>2
      <4>2. queue'[k] = queue[IF k < i THEN k ELSE k + 1]
        BY <2>2
      <4> QED
        BY <4>1, <4>2
    <3>2. \A a, b \in 1..Len(queue') : queue'[a] = queue'[b] => a = b
      <4> SUFFICES ASSUME NEW a \in 1..Len(queue'), NEW b \in 1..Len(queue'),
                          queue'[a] = queue'[b]
                   PROVE  a = b
        OBVIOUS
      <4>1. PICK m \in 1..Len(queue) :
              queue'[a] = queue[m] /\ m = (IF a < i THEN a ELSE a + 1)
        BY <3>1
      <4>2. PICK p \in 1..Len(queue) :
              queue'[b] = queue[p] /\ p = (IF b < i THEN b ELSE b + 1)
        BY <3>1
      <4>3. m = p
        BY <4>1, <4>2, <1>0 DEF Core, QueueApart
      <4>4. a \in Int /\ b \in Int /\ i \in Int
        OBVIOUS
      <4> QED
        BY <4>1, <4>2, <4>3, <4>4
    <3>3. \A k \in 1..Len(queue') : task[queue'[k]] = "none" /\ row'[queue'[k]] # "none"
      BY <3>1, <2>3, <1>0 DEF Core, QueueApart
    <3>4. \A k \in Jobs : task[k] # "none" => row'[k] # "none"
      BY <2>3, <1>0 DEF Core, QueueApart
    <3> QED
      BY <3>2, <3>3, <3>4 DEF QueueApart
  <2>6. ChildrenApart(queue', row', children)
    <3>1. \A k \in 1..Len(queue') : \E m \in 1..Len(queue) : queue'[k] = queue[m]
      <4> SUFFICES ASSUME NEW k \in 1..Len(queue')
                   PROVE  \E m \in 1..Len(queue) : queue'[k] = queue[m]
        OBVIOUS
      <4>1. k \in 1..Len(queue) /\ k + 1 \in 1..Len(queue)
        BY <1>0, <2>2
      <4> QED
        BY <2>2, <4>1
    <3> QED
      BY <3>1, <2>3, <1>0 DEF Core, ChildrenApart
  <2> QED
    BY <1>11, <1>0, <2>4, <2>5, <2>6 DEF CancelQueued, IInv, Core
<1> QED
  BY <1>1, <1>2, <1>3, <1>4, <1>6, <1>7, <1>8, <1>9, <1>10, <1>11 DEF JobStep

LEMMA StopIInv ==
  ASSUME IInv, PanelStops
  PROVE  IInv'
<1>1. TypeOK'
  <2>1. task' \in [Jobs -> Stages] /\ queue' \in Seq(Jobs)
    BY DEF PanelStops, Stages
  <2>2. children' \subseteq Jobs /\ lock' \in {"free", "panel", "external"}
    BY DEF PanelStops, IInv, TypeOK
  <2> QED
    BY <2>1, <2>2 DEF IInv, PanelStops, TypeOK
<1>2. queue' = <<>> /\ task' = [i \in Jobs |-> "none"] /\ row' = row
  BY DEF PanelStops
<1>3. QueueApart(queue', task', row') /\ LiveCovered(task', lock')
  BY <1>2 DEF QueueApart, LiveCovered
<1>4. AttendedCovered(task', lock', children') /\ ChildrenApart(queue', row', children')
  <2>1. children' \subseteq children /\ children \subseteq Jobs
    BY DEF PanelStops, IInv, TypeOK
  <2> QED
    BY <1>2, <2>1 DEF AttendedCovered, ChildrenApart, IInv, Core
<1> QED
  BY <1>1, <1>3, <1>4 DEF IInv, Core

LEMMA WorkerPopsIInv ==
  ASSUME IInv, WorkerPops
  PROVE  IInv'
<1>0. /\ TypeOK /\ Core(queue, task, row, lock, children)
      /\ queue \in Seq(Jobs) /\ row \in [Jobs -> Statuses]
      /\ task \in [Jobs -> Stages] /\ children \in SUBSET Jobs
  BY DEF IInv, TypeOK
<1>1. CASE queue = <<>>
  <2>1. UNCHANGED <<row, queue, task, children, lock>>
    BY <1>1 DEF WorkerPops
  <2> QED
    BY <2>1, <1>0 DEF WorkerPops, IInv, TypeOK
<1>2. CASE queue # <<>>
  <2> DEFINE h == Head(queue)
  <2>1. /\ queue' = Tail(queue)
        /\ task' = [task EXCEPT ![h] = "lost"]
        /\ row' = [row EXCEPT ![h] = "running"]
        /\ children' = children /\ lock' = lock
    BY <1>2 DEF WorkerPops
  <2>2. /\ h \in Jobs /\ h = queue[1] /\ Len(queue) \in Nat \ {0}
        /\ queue' \in Seq(Jobs) /\ Len(queue') = Len(queue) - 1
        /\ \A i \in 1..Len(queue') : queue'[i] = queue[i + 1] /\ i + 1 \in 1..Len(queue)
        /\ \A i \in 1..Len(queue) : queue[i] \in Jobs
    BY <1>0, <1>2, <2>1
  <2> HIDE DEF h
  <2>3. TypeOK'
    BY <1>0, <2>1, <2>2 DEF WorkerPops, TypeOK, Stages, Statuses
  <2>4. 1 \in 1..Len(queue) /\ task[h] = "none"
    BY <1>0, <2>2 DEF Core, QueueApart
  <2>5. \A i \in 1..Len(queue') : queue'[i] # h
    <3> SUFFICES ASSUME NEW i \in 1..Len(queue'), queue'[i] = h
                 PROVE  FALSE
      OBVIOUS
    <3>1. queue[i + 1] = queue[1] /\ i + 1 \in 1..Len(queue)
      BY <2>2
    <3>2. i + 1 = 1
      BY <3>1, <2>4, <1>0 DEF Core, QueueApart
    <3> QED
      BY <3>2
  <2>6. \A i, k \in 1..Len(queue') : queue'[i] = queue'[k] => i = k
    <3> SUFFICES ASSUME NEW i \in 1..Len(queue'), NEW k \in 1..Len(queue'),
                        queue'[i] = queue'[k]
                 PROVE  i = k
      OBVIOUS
    <3>1. queue[i + 1] = queue[k + 1] /\ i + 1 \in 1..Len(queue) /\ k + 1 \in 1..Len(queue)
      BY <2>2
    <3>2. i + 1 = k + 1
      BY <3>1, <1>0 DEF Core, QueueApart
    <3> QED
      BY <3>2
  <2>7. QueueApart(queue', task', row')
    <3>1. \A i \in 1..Len(queue') : task'[queue'[i]] = "none" /\ row'[queue'[i]] # "none"
      BY <1>0, <2>1, <2>2, <2>5 DEF Core, QueueApart
    <3>2. \A i \in Jobs : task'[i] # "none" => row'[i] # "none"
      BY <1>0, <2>1, <2>2 DEF Core, QueueApart
    <3> QED
      BY <2>6, <3>1, <3>2 DEF QueueApart
  <2>8. LiveCovered(task', lock') /\ AttendedCovered(task', lock', children')
    BY <1>0, <2>1, <2>2, <2>4 DEF Core, LiveCovered, AttendedCovered, ChildrenApart
  <2>9. ChildrenApart(queue', row', children')
    BY <1>0, <2>1, <2>2 DEF Core, ChildrenApart
  <2> QED
    BY <2>3, <2>7, <2>8, <2>9 DEF IInv, Core
<1> QED
  BY <1>1, <1>2

LEMMA StepIInv ==
  ASSUME IInv, [Next]_vars
  PROVE  IInv'
<1>0. /\ TypeOK /\ Core(queue, task, row, lock, children)
      /\ queue \in Seq(Jobs) /\ row \in [Jobs -> Statuses]
      /\ task \in [Jobs -> Stages] /\ lock \in {"free", "panel", "external"}
      /\ children \in SUBSET Jobs
  BY DEF IInv, TypeOK
<1>1. CASE \E j \in Jobs : JobStep(j)
  BY <1>1, JobStepIInv
<1>2. CASE RetryFires
  <2>1. Dispatch(queue, task, row, lock) /\ children' = children
    BY <1>2 DEF RetryFires
  <2>2. /\ queue' \in Seq(Jobs) /\ task' \in [Jobs -> Stages]
        /\ row' \in [Jobs -> Statuses] /\ lock' \in {"free", "panel", "external"}
        /\ retry' \in BOOLEAN
        /\ Core(queue', task', row', lock', children)
    BY <1>0, <2>1, DispatchPreserves
  <2> QED
    BY <1>2, <2>1, <2>2 DEF RetryFires, IInv, TypeOK
<1>3. CASE Sighup
  BY <1>3, <1>0 DEF Sighup, IInv, TypeOK
<1>4. CASE DrainEnds \/ AbruptStop
  BY <1>4, StopIInv DEF DrainEnds, AbruptStop
<1>5. CASE Boot
  <2>1. row' = [j \in Jobs |-> Recovered(row[j])]
    BY <1>5 DEF Boot
  <2>2. row' \in [Jobs -> Statuses] /\ \A j \in Jobs : row[j] # "none" => row'[j] # "none"
    BY <1>0, <2>1 DEF Recovered, Statuses
  <2>3. TypeOK'
    BY <1>5, <1>0, <2>2 DEF Boot, memory, TypeOK
  <2>4. QueueApart(queue, task, row')
    BY <1>0, <2>2 DEF Core, QueueApart
  <2>5. ChildrenApart(queue, row', children)
    BY <1>0, <2>2 DEF Core, ChildrenApart
  <2> QED
    BY <1>5, <1>0, <2>3, <2>4, <2>5 DEF Boot, memory, IInv, Core
<1>6. CASE \E n \in 0..(MaxLimit + 1) : SettingsSave(n)
  <2>1. PICK n \in 0..(MaxLimit + 1) : SettingsSave(n)
    BY <1>6
  <2>2. limit' \in 1..MaxLimit
    BY <2>1 DEF SettingsSave, Clamp
  <2>3. saves' \in 0..MaxSaves
    BY <2>1, <1>0 DEF SettingsSave, TypeOK
  <2>4. UNCHANGED <<row, queue, task, children>> /\ lock' \in {lock, "panel"}
        /\ worker' \in {worker, "popping"} /\ retry' = FALSE
    BY <2>1 DEF SettingsSave
  <2>5. TypeOK'
    BY <2>1, <1>0, <2>2, <2>3, <2>4 DEF SettingsSave, TypeOK
  <2>6. Core(queue', task', row', lock', children')
    BY <1>0, <2>4 DEF Core, LiveCovered, AttendedCovered
  <2> QED
    BY <2>5, <2>6 DEF IInv
<1>7. CASE WorkerPops
  BY <1>7, WorkerPopsIInv
<1>8. CASE ExternalBegins \/ ExternalEnds
  <2>1. UNCHANGED <<row, queue, task, children>> /\ lock # "panel"
        /\ lock' \in {"free", "external"}
    BY <1>8 DEF ExternalBegins, ExternalEnds, memory
  <2>2. TypeOK'
    BY <1>8, <1>0 DEF ExternalBegins, ExternalEnds, memory, TypeOK
  <2> QED
    BY <1>0, <2>1, <2>2 DEF IInv, Core, LiveCovered, AttendedCovered
<1>9. CASE UNCHANGED vars
  BY <1>9, <1>0 DEF vars, memory, IInv, TypeOK
<1> QED
  BY <1>1, <1>2, <1>3, <1>4, <1>5, <1>6, <1>7, <1>8, <1>9 DEF Next

-----------------------------------------------------------------------------
(* The inductive invariant holds in every reachable state. *)
THEOREM Invariance == Spec => []IInv
<1>1. Init => IInv
  BY InitIInv
<1>2. IInv /\ [Next]_vars => IInv'
  BY StepIInv
<1> QED
  BY <1>1, <1>2, PTL DEF Spec

(* Every variable keeps its type (jobs.py JobManager.__init__, the status  *)
(* column, the clamped limit of settings.py:97).                           *)
THEOREM TypeCorrect == Spec => []TypeOK
<1>1. IInv => TypeOK
  BY DEF IInv
<1> QED
  BY <1>1, Invariance, PTL

(* As long as one job has work to do, the panel holds the run lock         *)
(* (jobs.py:287-293, reference counting by "not active and not queue").    *)
THEOREM LockCoversLiveJobs == Spec => []LiveJobsHoldLock
<1>1. IInv => LiveJobsHoldLock
  BY DEF IInv, Core, LiveCovered, LiveJobsHoldLock, Live
<1> QED
  BY <1>1, Invariance, PTL

LEMMA AttendedUnderLock ==
  ASSUME IInv
  PROVE  Attended # {} => lock = "panel"
BY DEF IInv, Core, AttendedCovered, Attended

(* Nobody else runs ansible while a process of a job that has its slot is  *)
(* alive, in either installation: the finally block gives the lock back    *)
(* with the last slot (jobs.py:287-293), a drain and a crash with them all.*)
THEOREM NoOverlap == Spec => []AttendedRunsNeverOverlap
<1>1. IInv => AttendedRunsNeverOverlap
  BY AttendedUnderLock DEF AttendedRunsNeverOverlap
<1> QED
  BY <1>1, Invariance, PTL

-----------------------------------------------------------------------------
(* The refinement of RunInterlock. *)

holderBar == IF lock = "external" THEN "external"
             ELSE IF Attended # {} THEN "panel" ELSE "nobody"

(* A promotion attends to no process that was alive before. *)
LEMMA DispatchAttends ==
  ASSUME NEW q \in Seq(Jobs), NEW tk \in [Jobs -> Stages], NEW rw, NEW lk, TypeOK,
         Dispatch(q, tk, rw, lk), NEW j \in Jobs, \A i \in 1..Len(q) : q[i] # j
  PROVE  task'[j] = tk[j]
<1>1. Promotable(q, tk) \in 0..Len(q)
  BY PromotableRange
<1>2. \A i \in 1..Promotable(q, tk) : q[i] # j
  BY <1>1
<1> QED
  BY <1>2 DEF Dispatch

(* Two facts about single steps: attended processes are only added under a *)
(* lock that stays as it is, and the panel's lock never becomes another's  *)
(* in a step.                                                              *)
LEMMA StepShape ==
  ASSUME IInv, [Next]_vars
  PROVE  /\ Attended' \subseteq Attended \/ lock' = lock
         /\ lock = "panel" => lock' # "external"
<1>0. /\ TypeOK /\ queue \in Seq(Jobs) /\ task \in [Jobs -> Stages] /\ children \subseteq Jobs
      /\ \A j \in children : row[j] # "none" /\ \A i \in 1..Len(queue) : queue[i] # j
  BY DEF IInv, TypeOK, Core, ChildrenApart
<1>1. ASSUME NEW j \in Jobs, JobStep(j)
      PROVE  /\ Attended' \subseteq Attended \/ lock' = lock
             /\ lock = "panel" => lock' # "external"
  <2>1. CASE Submit(j)
    <3> DEFINE q == Enqueue(queue, j)
               rw == [row EXCEPT ![j] = "queued"]
    <3>1. Dispatch(q, task, rw, lock) /\ children' = children /\ row[j] = "none"
      BY <2>1 DEF Submit, NextRow
    <3>2. q \in Seq(Jobs) /\ \A i \in 1..Len(q) : q[i] = j \/ \E k \in 1..Len(queue) : q[i] = queue[k]
      BY <1>0 DEF Enqueue
    <3>3. \A k \in children : \A i \in 1..Len(q) : q[i] # k
      BY <1>0, <3>1, <3>2
    <3>4. lock' \in {lock, "panel"}
      BY <3>1 DEF Dispatch
    <3> HIDE DEF q, rw
    <3>5. \A k \in children : task'[k] = task[k]
      <4> SUFFICES ASSUME NEW k \in children PROVE task'[k] = task[k]
        OBVIOUS
      <4>1. k \in Jobs /\ \A i \in 1..Len(q) : q[i] # k
        BY <1>0, <3>3
      <4> QED
        BY <1>0, <3>1, <3>2, <4>1, DispatchAttends
    <3> QED
      BY <3>1, <3>4, <3>5 DEF Attended
  <2>2. CASE Finish(j) \/ SpawnFails(j) \/ RunnerRaises(j)
    <3> DEFINE tk == [task EXCEPT ![j] = "none"]
               rw == [row EXCEPT ![j] = FinalStatus(j)]
               lk == IF Idle(tk) THEN "free" ELSE lock
    <3>1. Dispatch(queue, tk, rw, lk) /\ children' = children
      BY <2>2 DEF Finish, SpawnFails, RunnerRaises, FinallyBlock
    <3>2. tk \in [Jobs -> Stages] /\ \A k \in Jobs : tk[k] # "none" => task[k] # "none"
      BY <1>0 DEF Stages
    <3>3. lock' \in {lock, "free", "panel"}
      BY <3>1 DEF Dispatch
    <3> HIDE DEF tk, rw, lk
    <3>4. \A k \in children : task'[k] = tk[k]
      <4> SUFFICES ASSUME NEW k \in children PROVE task'[k] = tk[k]
        OBVIOUS
      <4>1. k \in Jobs /\ \A i \in 1..Len(queue) : queue[i] # k
        BY <1>0
      <4> QED
        BY <1>0, <3>1, <3>2, <4>1, DispatchAttends
    <3>5. \A k \in children : task'[k] # "none" => task[k] # "none"
      BY <1>0, <3>2, <3>4
    <3>6. lock = "panel" => lock' # "external"
      BY <3>3
    <3> QED
      BY <3>1, <3>5, <3>6 DEF Attended
  <2>3. CASE Spawn(j) \/ SubmitLeavesRow(j) \/ CoroutineDies(j) \/ CancelRunning(j)
             \/ CancelSettles(j) \/ CancelQueued(j) \/ ChildExits(j)
    BY <2>3 DEF Spawn, SubmitLeavesRow, CoroutineDies, CancelRunning,
                CancelSettles, CancelQueued, ChildExits
  <2> QED
    BY <1>1, <2>1, <2>2, <2>3 DEF JobStep
<1>2. CASE RetryFires
  <2>1. Dispatch(queue, task, row, lock) /\ children' = children
    BY <1>2 DEF RetryFires
  <2>2. \A k \in children : task'[k] = task[k]
    BY <1>0, <2>1, DispatchAttends
  <2>3. lock' \in {lock, "panel"}
    BY <2>1 DEF Dispatch
  <2> QED
    BY <2>1, <2>2, <2>3 DEF Attended
<1>3. CASE Sighup \/ Boot \/ WorkerPops
  BY <1>3 DEF Sighup, Boot, WorkerPops
<1>4. CASE DrainEnds \/ AbruptStop
  <2>1. /\ task' = [i \in Jobs |-> "none"] /\ children' \subseteq children
        /\ lock' = IF lock = "panel" THEN "free" ELSE lock
    BY <1>4 DEF DrainEnds, AbruptStop, PanelStops
  <2> QED
    BY <1>0, <2>1 DEF Attended
<1>5. CASE \E n \in 0..(MaxLimit + 1) : SettingsSave(n)
  BY <1>5 DEF SettingsSave, Attended
<1>6. CASE ExternalBegins \/ ExternalEnds
  BY <1>6 DEF ExternalBegins, ExternalEnds, memory, Attended
<1>7. CASE UNCHANGED vars
  BY <1>7 DEF vars
<1> QED
  BY <1>1, <1>2, <1>3, <1>4, <1>5, <1>6, <1>7 DEF Next

(* Every step of the manager is a step of the interlock or leaves it alone *)
(* (jobs.py:76-79): the panel holds it from the first process of a job in  *)
(* a slot to the last, however jobs are promoted, fail, die or are         *)
(* cancelled in between.                                                   *)
THEOREM Refinement == Spec => ImplementsInterlock
<1>1. Init => Interlock!Init
  BY DEF Init, Interlock!Init, Attended
<1>2. IInv /\ IInv' /\ [Next]_vars => [Interlock!Next]_holderBar
  <2> SUFFICES ASSUME IInv, IInv', [Next]_vars
               PROVE  [Interlock!Next]_holderBar
    OBVIOUS
  <2>1. Attended # {} => lock = "panel"
    BY AttendedUnderLock
  <2>2. Attended' # {} => lock' = "panel"
    BY DEF IInv, Core, AttendedCovered, Attended
  <2>3. /\ Attended' \subseteq Attended \/ lock' = lock
        /\ lock = "panel" => lock' # "external"
    BY StepShape
  <2>4. holderBar' = holderBar \/ holderBar = "nobody" \/ holderBar' = "nobody"
    BY <2>1, <2>2, <2>3 DEF holderBar
  <2>5. /\ holderBar \in {"external", "panel", "nobody"}
        /\ holderBar' \in {"external", "panel", "nobody"}
    BY DEF holderBar
  <2> QED
    BY <2>4, <2>5 DEF Interlock!Next, Interlock!Begin, Interlock!End, holderBar
<1> QED
  BY <1>1, <1>2, Invariance, PTL DEF Spec, ImplementsInterlock, Interlock!Spec, holderBar

-----------------------------------------------------------------------------
(***************************************************************************)
(* The rows and the memory.  RowsMatchMemory is not inductive: a cancel    *)
(* that waits for a child writes its row when the job may long have ended, *)
(* so one must know that its job is not live or is marked as cancelled; a  *)
(* marked job must have a process; and a panel that is down has no memory, *)
(* or the recovery would not clear all rows that say running.  The ids in  *)
(* the queue ascend because ids are given in order and a job is appended   *)
(* when it gets its own.                                                   *)
(***************************************************************************)
Truth(q, tk, rw, cc, cg) ==
  /\ \A i \in 1..Len(q) : rw[q[i]] = "queued"
  /\ \A j \in Jobs : tk[j] \notin {"none", "lost"} =>
       rw[j] = "running" \/ (rw[j] = "cancelled" /\ j \in cc)
  /\ \A j \in Jobs : tk[j] = "lost" => rw[j] # "queued"
  /\ \A j \in cc : /\ tk[j] \in {"running", "exited", "lost"}
                   /\ tk[j] # "lost" => rw[j] \in {"running", "cancelled"}
  /\ \A j \in cg : rw[j] \notin {"none", "queued"} /\ (tk[j] \in {"none", "lost"} \/ j \in cc)

Owned(tk, rw) == \A j \in Jobs : rw[j] = "running" => tk[j] # "none"

Ascending(q) == \A i, k \in 1..Len(q) : i < k => q[i] < q[k]

Numbered(rw) == \A i, k \in Jobs : i < k /\ rw[k] # "none" => rw[i] # "none"

Forgotten ==
  panel = "down" =>
    /\ queue = <<>> /\ \A j \in Jobs : task[j] = "none"
    /\ cancelled = {} /\ cancelling = {} /\ worker = "idle"

RInv ==
  /\ Truth(queue, task, row, cancelled, cancelling)
  /\ panel = "up" => Owned(task, row)
  /\ Ascending(queue) /\ Numbered(row)
  /\ Forgotten

(* What a promotion does, job by job. *)
LEMMA MovesShape ==
  ASSUME NEW q \in Seq(Jobs), NEW tk, NEW rw, NEW lk, NEW n \in 0..Len(q),
         Moves(n, q, tk, rw, lk)
  PROVE  /\ Len(queue') = Len(q) - n
         /\ \A i \in 1..Len(queue') : i + n \in 1..Len(q) /\ queue'[i] = q[i + n]
         /\ \A j \in Jobs :
              \/ /\ \E i \in 1..n : q[i] = j
                 /\ task'[j] = "created" /\ row'[j] = "running"
              \/ /\ \A i \in 1..n : q[i] # j
                 /\ task'[j] = tk[j] /\ row'[j] = rw[j]
<1> DEFINE starts == {q[i] : i \in 1..n}
<1>1. /\ Len(queue') = Len(q) - n
      /\ \A i \in 1..Len(queue') : i + n \in 1..Len(q) /\ queue'[i] = q[i + n]
  BY DEF Moves
<1>2. /\ task' = [j \in Jobs |-> IF j \in starts THEN "created" ELSE tk[j]]
      /\ row' = [j \in Jobs |-> IF j \in starts THEN "running" ELSE rw[j]]
  BY DEF Moves
<1>3. \A j : j \in starts <=> \E i \in 1..n : q[i] = j
  OBVIOUS
<1> HIDE DEF starts
<1> QED
  BY <1>1, <1>2, <1>3

LEMMA MovesTruth ==
  ASSUME NEW q \in Seq(Jobs), NEW tk, NEW rw, NEW lk, NEW n \in 0..Len(q),
         Moves(n, q, tk, rw, lk), QueueApart(q, tk, rw),
         NEW cc \in SUBSET Jobs, NEW cg \in SUBSET Jobs, Truth(q, tk, rw, cc, cg)
  PROVE  /\ Truth(queue', task', row', cc, cg)
         /\ Owned(tk, rw) => Owned(task', row')
         /\ Ascending(q) => Ascending(queue')
         /\ Numbered(rw) => Numbered(row')
<1>0. /\ n \in Nat /\ Len(q) \in Nat
      /\ \A i \in 1..Len(q) : q[i] \in Jobs
      /\ 1..n \subseteq 1..Len(q)
  OBVIOUS
<1>1. /\ \A i \in 1..Len(queue') : i + n \in 1..Len(q) /\ queue'[i] = q[i + n]
      /\ \A j \in Jobs :
           \/ /\ \E i \in 1..n : q[i] = j
              /\ task'[j] = "created" /\ row'[j] = "running"
           \/ /\ \A i \in 1..n : q[i] # j
              /\ task'[j] = tk[j] /\ row'[j] = rw[j]
  BY MovesShape
<1>2. \A i \in 1..Len(q) : tk[q[i]] = "none" /\ rw[q[i]] = "queued"
  BY DEF QueueApart, Truth
<1>3. \A i \in 1..Len(queue') : row'[queue'[i]] = "queued"
  <2> SUFFICES ASSUME NEW i \in 1..Len(queue') PROVE row'[queue'[i]] = "queued"
    OBVIOUS
  <2>1. i + n \in 1..Len(q) /\ queue'[i] = q[i + n] /\ queue'[i] \in Jobs
    BY <1>0, <1>1
  <2>2. \A k \in 1..n : q[k] # q[i + n]
    <3> SUFFICES ASSUME NEW k \in 1..n, q[k] = q[i + n] PROVE FALSE
      OBVIOUS
    <3>1. k = i + n
      BY <1>0, <2>1 DEF QueueApart
    <3> QED
      BY <1>0, <3>1
  <2> QED
    BY <1>1, <1>2, <2>1, <2>2
<1>4. Truth(queue', task', row', cc, cg)
  <2>1. \A j \in Jobs : task'[j] \notin {"none", "lost"} =>
          row'[j] = "running" \/ (row'[j] = "cancelled" /\ j \in cc)
    BY <1>1 DEF Truth
  <2>2. \A j \in Jobs : task'[j] = "lost" => row'[j] # "queued"
    BY <1>1 DEF Truth
  <2>3. \A j \in cc \cup cg : task'[j] = tk[j] /\ row'[j] = rw[j]
    BY <1>0, <1>1, <1>2 DEF Truth
  <2>4. \A j \in cc : /\ task'[j] \in {"running", "exited", "lost"}
                      /\ task'[j] # "lost" => row'[j] \in {"running", "cancelled"}
    BY <2>3 DEF Truth
  <2>5. \A j \in cg : /\ row'[j] \notin {"none", "queued"}
                      /\ task'[j] \in {"none", "lost"} \/ j \in cc
    BY <2>3 DEF Truth
  <2> QED
    BY <1>3, <2>1, <2>2, <2>4, <2>5 DEF Truth
<1>5. Owned(tk, rw) => Owned(task', row')
  BY <1>1 DEF Owned
<1>6. Ascending(q) => Ascending(queue')
  <2> SUFFICES ASSUME Ascending(q), NEW i \in 1..Len(queue'), NEW k \in 1..Len(queue'), i < k
               PROVE  queue'[i] < queue'[k]
    BY DEF Ascending
  <2>1. i + n < k + n
    BY <1>0
  <2> QED
    BY <1>1, <2>1 DEF Ascending
<1>7. Numbered(rw) => Numbered(row')
  <2>1. \A j \in Jobs : row'[j] # "none" <=> rw[j] # "none"
    BY <1>0, <1>1, <1>2
  <2> QED
    BY <2>1 DEF Numbered
<1> QED
  BY <1>4, <1>5, <1>6, <1>7

(* ... and what _dispatch does with it. *)
LEMMA DispatchTruth ==
  ASSUME TypeOK, NEW q \in Seq(Jobs), NEW tk \in [Jobs -> Stages],
         NEW rw \in [Jobs -> Statuses], NEW lk \in {"free", "panel", "external"},
         Dispatch(q, tk, rw, lk), QueueApart(q, tk, rw),
         NEW cc \in SUBSET Jobs, NEW cg \in SUBSET Jobs, Truth(q, tk, rw, cc, cg)
  PROVE  /\ Truth(queue', task', row', cc, cg)
         /\ Owned(tk, rw) => Owned(task', row')
         /\ Ascending(q) => Ascending(queue')
         /\ Numbered(rw) => Numbered(row')
<1>1. PICK n \in 0..Len(q) : Moves(n, q, tk, rw, lk)
  BY DispatchMoves
<1> QED
  BY <1>1, MovesTruth

LEMMA InitRInv == Init => RInv
BY DEF Init, RInv, Truth, Owned, Ascending, Numbered, Forgotten

(* A submitted job gets the next id and the last place. *)
LEMMA SubmitTruth ==
  ASSUME IInv, RInv, NEW j \in Jobs, NextRow(j)
  PROVE  LET q == Enqueue(queue, j)
             rw == [row EXCEPT ![j] = "queued"]
         IN  /\ Truth(q, task, rw, cancelled, cancelling)
             /\ Owned(task, row) => Owned(task, rw)
             /\ Ascending(q) /\ Numbered(rw)
<1> DEFINE q == Enqueue(queue, j)
           rw == [row EXCEPT ![j] = "queued"]
<1>1. /\ queue \in Seq(Jobs) /\ row \in [Jobs -> Statuses] /\ task \in [Jobs -> Stages]
      /\ cancelled \subseteq Jobs /\ cancelling \subseteq Jobs
  BY DEF IInv, TypeOK
<1>2. /\ Len(q) = Len(queue) + 1 /\ q[Len(q)] = j
      /\ \A i \in 1..Len(queue) : q[i] = queue[i] /\ queue[i] \in Jobs
      /\ \A i \in 1..Len(q) : i \in 1..Len(queue) \/ i = Len(q)
      /\ Len(queue) \in Nat
  BY <1>1 DEF Enqueue
<1>3. /\ rw[j] = "queued" /\ row[j] = "none"
      /\ \A i \in Jobs : i # j => rw[i] = row[i]
      /\ \A i \in Jobs : i < j => row[i] # "none"
  BY <1>1 DEF NextRow, Jobs
<1>4. task[j] = "none" /\ j \notin cancelled /\ j \notin cancelling
  BY <1>3 DEF IInv, Core, QueueApart, RInv, Truth
<1> HIDE DEF q, rw
<1>5. Truth(q, task, rw, cancelled, cancelling)
  <2>1. \A i \in 1..Len(q) : rw[q[i]] = "queued"
    BY <1>2, <1>3 DEF RInv, Truth
  <2>2. /\ \A i \in Jobs : task[i] \notin {"none", "lost"} =>
             rw[i] = "running" \/ (rw[i] = "cancelled" /\ i \in cancelled)
        /\ \A i \in cancelled : /\ task[i] \in {"running", "exited", "lost"}
                                /\ task[i] # "lost" => rw[i] \in {"running", "cancelled"}
        /\ \A i \in Jobs : task[i] = "lost" => rw[i] # "queued"
        /\ \A i \in cancelling : /\ rw[i] \notin {"none", "queued"}
                                 /\ task[i] \in {"none", "lost"} \/ i \in cancelled
    BY <1>1, <1>3, <1>4 DEF RInv, Truth
  <2> QED
    BY <2>1, <2>2 DEF Truth
<1>6. Owned(task, row) => Owned(task, rw)
  BY <1>3 DEF Owned
<1>7. Numbered(rw)
  <2> SUFFICES ASSUME NEW i \in Jobs, NEW k \in Jobs, i < k, rw[k] # "none"
               PROVE  rw[i] # "none"
    BY DEF Numbered
  <2>1. CASE i = j
    BY <2>1, <1>3
  <2>2. CASE i # j /\ k = j
    BY <2>2, <1>3
  <2>3. CASE i # j /\ k # j
    BY <2>3, <1>3 DEF RInv, Numbered
  <2> QED
    BY <2>1, <2>2, <2>3
<1>8. Ascending(q)
  <2>1. \A i \in 1..Len(queue) : queue[i] < j
    <3> SUFFICES ASSUME NEW i \in 1..Len(queue) PROVE queue[i] < j
      OBVIOUS
    <3>1. queue[i] \in Jobs /\ row[queue[i]] = "queued"
      BY <1>2 DEF RInv, Truth
    <3>2. queue[i] # j /\ ~(j < queue[i])
      BY <3>1, <1>3 DEF RInv, Numbered
    <3> QED
      BY <3>1, <3>2 DEF Jobs
  <2> SUFFICES ASSUME NEW i \in 1..Len(q), NEW k \in 1..Len(q), i < k
               PROVE  q[i] < q[k]
    BY DEF Ascending
  <2>2. i \in 1..Len(queue)
    BY <1>2
  <2>3. CASE k \in 1..Len(queue)
    BY <1>2, <2>2, <2>3 DEF RInv, Ascending
  <2>4. CASE k = Len(q)
    BY <1>2, <2>1, <2>2, <2>4
  <2> QED
    BY <1>2, <2>3, <2>4
<1> QED
  BY <1>5, <1>6, <1>7, <1>8 DEF q, rw

(* A finished job is in the queue no more, and its row says how it ended. *)
LEMMA FinishTruth ==
  ASSUME IInv, RInv, panel = "up", NEW j \in Jobs,
         task[j] \notin {"none", "lost"}
  PROVE  LET tk == [task EXCEPT ![j] = "none"]
             rw == [row EXCEPT ![j] = FinalStatus(j)]
         IN  /\ Truth(queue, tk, rw, cancelled \ {j}, cancelling)
             /\ Owned(tk, rw) /\ Numbered(rw)
<1> DEFINE tk == [task EXCEPT ![j] = "none"]
           rw == [row EXCEPT ![j] = FinalStatus(j)]
<1>1. /\ queue \in Seq(Jobs) /\ row \in [Jobs -> Statuses] /\ task \in [Jobs -> Stages]
      /\ cancelled \subseteq Jobs /\ cancelling \subseteq Jobs
      /\ \A i \in 1..Len(queue) : queue[i] \in Jobs /\ queue[i] # j
  BY DEF IInv, TypeOK, Core, QueueApart
<1>2. /\ tk[j] = "none" /\ rw[j] \in Terminal
      /\ \A i \in Jobs : i # j => tk[i] = task[i] /\ rw[i] = row[i]
      /\ row[j] # "none"
  BY <1>1 DEF FinalStatus, Terminal, IInv, Core, QueueApart
<1> HIDE DEF tk, rw
<1>3. Truth(queue, tk, rw, cancelled \ {j}, cancelling)
  <2>1. \A i \in 1..Len(queue) : rw[queue[i]] = "queued"
    BY <1>1, <1>2 DEF RInv, Truth
  <2>2. \A i \in cancelling : /\ rw[i] \notin {"none", "queued"}
                              /\ tk[i] \in {"none", "lost"} \/ i \in cancelled \ {j}
    BY <1>1, <1>2 DEF RInv, Truth, Terminal
  <2>3. /\ \A i \in Jobs : tk[i] \notin {"none", "lost"} =>
             rw[i] = "running" \/ (rw[i] = "cancelled" /\ i \in cancelled \ {j})
        /\ \A i \in cancelled \ {j} : /\ tk[i] \in {"running", "exited", "lost"}
                                      /\ tk[i] # "lost" => rw[i] \in {"running", "cancelled"}
        /\ \A i \in Jobs : tk[i] = "lost" => rw[i] # "queued"
    BY <1>1, <1>2 DEF RInv, Truth
  <2> QED
    BY <2>1, <2>2, <2>3 DEF Truth
<1>4. Owned(tk, rw)
  BY <1>2 DEF RInv, Owned, Terminal
<1>5. Numbered(rw)
  BY <1>2 DEF RInv, Numbered, Terminal
<1> QED
  BY <1>3, <1>4, <1>5 DEF tk, rw

(* The steps of one job that do not call _dispatch. *)
LEMMA QuietStepRInv ==
  ASSUME IInv, RInv, NEW j \in Jobs,
         \/ SubmitLeavesRow(j) \/ Spawn(j) \/ ChildExits(j) \/ CoroutineDies(j)
         \/ CancelRunning(j) \/ CancelSettles(j) \/ CancelQueued(j)
  PROVE  RInv'
<1>0. /\ queue \in Seq(Jobs) /\ row \in [Jobs -> Statuses] /\ task \in [Jobs -> Stages]
      /\ cancelled \subseteq Jobs /\ cancelling \subseteq Jobs
      /\ \A i \in 1..Len(queue) : queue[i] \in Jobs
  BY DEF IInv, TypeOK
<1>1. /\ \A i \in 1..Len(queue) : row[queue[i]] = "queued" /\ task[queue[i]] = "none"
      /\ \A i \in Jobs : task[i] \notin {"none", "lost"} =>
           row[i] = "running" \/ (row[i] = "cancelled" /\ i \in cancelled)
      /\ \A i \in cancelled : /\ task[i] \in {"running", "exited", "lost"}
                              /\ task[i] # "lost" => row[i] \in {"running", "cancelled"}
      /\ \A i \in Jobs : task[i] = "lost" => row[i] # "queued"
      /\ \A i \in cancelling : /\ row[i] \notin {"none", "queued"}
                               /\ task[i] \in {"none", "lost"} \/ i \in cancelled
      /\ panel = "up" => \A i \in Jobs : row[i] = "running" => task[i] # "none"
      /\ \A i \in Jobs : task[i] # "none" => row[i] # "none"
      /\ Ascending(queue)
      /\ \A i, k \in Jobs : i < k /\ row[k] # "none" => row[i] # "none"
  BY DEF RInv, Truth, Owned, Numbered, IInv, Core, QueueApart
<1>2. CASE SubmitLeavesRow(j)
  <2>1. /\ row' = [row EXCEPT ![j] = "queued"] /\ panel = "up"
        /\ UNCHANGED <<queue, task, cancelled, cancelling, panel, worker>>
        /\ row[j] = "none" /\ \A i \in Jobs : i < j => row[i] # "none"
    BY <1>2 DEF SubmitLeavesRow, memory, NextRow, Jobs
  <2>2. row'[j] = "queued" /\ \A i \in Jobs : i # j => row'[i] = row[i]
    BY <1>0, <2>1
  <2>3. task[j] = "none" /\ j \notin cancelled /\ j \notin cancelling
    BY <1>1, <2>1
  <2>4. Truth(queue', task', row', cancelled', cancelling')
    BY <1>0, <1>1, <2>1, <2>2, <2>3 DEF Truth
  <2>5. panel' = "up" => Owned(task', row')
    BY <1>1, <2>1, <2>2 DEF Owned
  <2>6. Numbered(row')
    BY <1>1, <2>1, <2>2 DEF Numbered, Jobs
  <2> QED
    BY <1>1, <2>1, <2>4, <2>5, <2>6 DEF RInv, Forgotten
<1>3. CASE Spawn(j) \/ ChildExits(j)
  <2>1. /\ UNCHANGED <<row, queue, cancelled, cancelling, panel, worker>>
        /\ \A i \in Jobs : \/ task'[i] = task[i]
                           \/ /\ task[i] \in {"created", "running"}
                              /\ task'[i] \in {"running", "exited"}
    BY <1>0, <1>3 DEF Spawn, ChildExits
  <2>2. Truth(queue', task', row', cancelled', cancelling')
    BY <1>0, <1>1, <2>1 DEF Truth
  <2>3. panel' = "up" => Owned(task', row')
    BY <1>1, <2>1 DEF Owned
  <2>4. Forgotten'
    BY <2>1 DEF RInv, Forgotten
  <2> QED
    BY <2>1, <2>2, <2>3, <2>4 DEF RInv
<1>4. CASE CoroutineDies(j)
  <2>1. /\ UNCHANGED <<queue, cancelled, cancelling, panel, worker>> /\ panel = "up"
        /\ task[j] \notin {"none", "lost"} /\ task' = [task EXCEPT ![j] = "lost"]
        /\ \/ row' = row
           \/ row' = [row EXCEPT ![j] = FinalStatus(j)] /\ task[j] # "created"
    BY <1>4 DEF CoroutineDies, Live
  <2>2. /\ task'[j] = "lost" /\ \A i \in Jobs : i # j => task'[i] = task[i] /\ row'[i] = row[i]
        /\ row'[j] \in {row[j], FinalStatus(j)}
    BY <1>0, <2>1
  <2>3. /\ row'[j] \notin {"none", "queued"}
        /\ j \in cancelled => row'[j] \in {"running", "cancelled"}
    BY <1>1, <2>1, <2>2 DEF FinalStatus
  <2>4. Truth(queue', task', row', cancelled', cancelling')
    BY <1>0, <1>1, <2>1, <2>2, <2>3 DEF Truth
  <2>5. panel' = "up" => Owned(task', row')
    BY <1>1, <2>1, <2>2 DEF Owned
  <2>6. Numbered(row')
    <3>1. \A i \in Jobs : row'[i] # "none" <=> row[i] # "none"
      BY <1>1, <2>1, <2>2, <2>3
    <3> QED
      BY <1>1, <3>1 DEF Numbered
  <2> QED
    BY <1>1, <2>1, <2>4, <2>5, <2>6 DEF RInv, Forgotten
<1>5. CASE CancelRunning(j)
  <2>1. /\ UNCHANGED <<row, queue, task, panel, worker>> /\ panel = "up"
        /\ task[j] \in {"running", "exited", "lost"}
        /\ cancelled' = cancelled \cup {j} /\ cancelling' \in {cancelling, cancelling \cup {j}}
    BY <1>5 DEF CancelRunning, HasProcess
  <2>2. Truth(queue', task', row', cancelled', cancelling')
    BY <1>0, <1>1, <2>1 DEF Truth
  <2> QED
    BY <2>1, <2>2 DEF RInv, Forgotten, Owned
<1>6. CASE CancelSettles(j)
  <2>1. /\ UNCHANGED <<queue, task, cancelled, panel, worker>> /\ panel = "up"
        /\ j \in cancelling /\ cancelling' = cancelling \ {j}
        /\ row' = [row EXCEPT ![j] = "cancelled"]
    BY <1>6 DEF CancelSettles
  <2>2. row'[j] = "cancelled" /\ \A i \in Jobs : i # j => row'[i] = row[i]
    BY <1>0, <2>1
  <2>3. Truth(queue', task', row', cancelled', cancelling')
    BY <1>0, <1>1, <2>1, <2>2 DEF Truth
  <2>4. panel' = "up" => Owned(task', row')
    BY <1>1, <2>1, <2>2 DEF Owned
  <2>5. Numbered(row')
    BY <1>1, <2>1, <2>2 DEF Numbered
  <2> QED
    BY <1>1, <2>1, <2>3, <2>4, <2>5 DEF RInv, Forgotten
<1>7. CASE CancelQueued(j)
  <2>1. PICK p \in 1..Len(queue) :
          /\ queue[p] = j
          /\ queue' = SubSeq(queue, 1, p - 1) \o SubSeq(queue, p + 1, Len(queue))
    BY <1>7 DEF CancelQueued
  <2>2. /\ UNCHANGED <<task, cancelled, cancelling, panel, worker>> /\ panel = "up"
        /\ row' = [row EXCEPT ![j] = "cancelled"]
    BY <1>7 DEF CancelQueued
  <2>3. /\ Len(queue') = Len(queue) - 1
        /\ \A k \in 1..Len(queue') : queue'[k] = IF k < p THEN queue[k] ELSE queue[k + 1]
        /\ Len(queue) \in Nat /\ p \in Nat
    <3>1. p \in 1..Len(queue) /\ Len(queue) \in Nat
      BY <1>0
    <3> DEFINE r == SubSeq(queue, 1, p - 1) \o SubSeq(queue, p + 1, Len(queue))
    <3>2. /\ Len(r) = Len(queue) - 1
          /\ \A k \in 1..Len(r) : r[k] = IF k < p THEN queue[k] ELSE queue[k + 1]
      BY <1>0, <3>1, RemoveAtCore
    <3>3. queue' = r
      BY <2>1
    <3> HIDE DEF r
    <3> QED
      BY <3>1, <3>2, <3>3
  <2>4. \A k \in 1..Len(queue') : \E i \in 1..Len(queue) :
          /\ i # p /\ queue'[k] = queue[i] /\ i = (IF k < p THEN k ELSE k + 1)
    BY <2>3
  <2>5. row'[j] = "cancelled" /\ \A i \in Jobs : i # j => row'[i] = row[i]
    BY <1>0, <2>2
  <2>6. \A i \in 1..Len(queue) : i # p => queue[i] # j
    BY <2>1 DEF IInv, Core, QueueApart
  <2>7. task[j] = "none" /\ row[j] = "queued" /\ j \notin cancelled /\ j \notin cancelling
    BY <1>1, <2>1
  <2>8. Truth(queue', task', row', cancelled', cancelling')
    <3>1. \A k \in 1..Len(queue') : row'[queue'[k]] = "queued"
      BY <1>0, <1>1, <2>4, <2>5, <2>6
    <3> QED
      BY <1>0, <1>1, <2>2, <2>5, <2>7, <3>1 DEF Truth
  <2>9. Ascending(queue')
    <3> SUFFICES ASSUME NEW i \in 1..Len(queue'), NEW k \in 1..Len(queue'), i < k
                 PROVE  queue'[i] < queue'[k]
      BY DEF Ascending
    <3>1. PICK a \in 1..Len(queue) : queue'[i] = queue[a] /\ a = (IF i < p THEN i ELSE i + 1)
      BY <2>4
    <3>2. PICK b \in 1..Len(queue) : queue'[k] = queue[b] /\ b = (IF k < p THEN k ELSE k + 1)
      BY <2>4
    <3>3. a < b
      BY <2>3, <3>1, <3>2
    <3> QED
      BY <1>1, <3>1, <3>2, <3>3 DEF Ascending
  <2>10. Numbered(row') /\ (panel' = "up" => Owned(task', row'))
    BY <1>1, <2>2, <2>5, <2>7 DEF Numbered, Owned
  <2> QED
    BY <2>2, <2>8, <2>9, <2>10 DEF RInv, Forgotten
<1> QED
  BY <1>2, <1>3, <1>4, <1>5, <1>6, <1>7

LEMMA WorkerPopsRInv ==
  ASSUME IInv, RInv, WorkerPops
  PROVE  RInv'
<1>0. /\ queue \in Seq(Jobs) /\ row \in [Jobs -> Statuses] /\ task \in [Jobs -> Stages]
      /\ cancelled \subseteq Jobs /\ cancelling \subseteq Jobs
      /\ \A i \in 1..Len(queue) : queue[i] \in Jobs
  BY DEF IInv, TypeOK
<1>1. UNCHANGED <<cancelled, cancelling, panel>> /\ panel = "up" /\ worker' = "idle"
  BY <1>0 DEF WorkerPops, RInv, Forgotten, IInv, TypeOK
<1>2. CASE queue = <<>>
  <2>1. UNCHANGED <<queue, task, row>>
    BY <1>2 DEF WorkerPops
  <2> QED
    BY <1>1, <2>1 DEF RInv, Forgotten
<1>3. CASE queue # <<>>
  <2> DEFINE h == Head(queue)
  <2>1. /\ queue' = Tail(queue)
        /\ task' = [task EXCEPT ![h] = "lost"]
        /\ row' = [row EXCEPT ![h] = "running"]
    BY <1>3 DEF WorkerPops
  <2>2. /\ h \in Jobs /\ h = queue[1] /\ 1 \in 1..Len(queue) /\ Len(queue) \in Nat
        /\ \A i \in 1..Len(queue') : /\ queue'[i] = queue[i + 1]
                                     /\ i + 1 \in 1..Len(queue) /\ i + 1 # 1
    BY <1>0, <1>3, <2>1
  <2> HIDE DEF h
  <2>3. /\ task'[h] = "lost" /\ row'[h] = "running"
        /\ \A i \in Jobs : i # h => task'[i] = task[i] /\ row'[i] = row[i]
    BY <1>0, <2>1, <2>2
  <2>4. /\ row[h] = "queued" /\ task[h] = "none" /\ h \notin cancelled /\ h \notin cancelling
    BY <2>2 DEF RInv, Truth, IInv, Core, QueueApart
  <2>5. \A i \in 1..Len(queue') : queue'[i] # h /\ queue'[i] \in Jobs
    BY <1>0, <2>2 DEF IInv, Core, QueueApart
  <2>6. Truth(queue', task', row', cancelled', cancelling')
    <3>1. \A i \in 1..Len(queue') : row'[queue'[i]] = "queued"
      BY <2>2, <2>3, <2>5 DEF RInv, Truth
    <3> QED
      BY <1>0, <1>1, <2>3, <2>4, <3>1 DEF RInv, Truth
  <2>7. Owned(task', row')
    BY <1>1, <2>3 DEF RInv, Owned
  <2>8. Ascending(queue')
    <3> SUFFICES ASSUME NEW i \in 1..Len(queue'), NEW k \in 1..Len(queue'), i < k
                 PROVE  queue'[i] < queue'[k]
      BY DEF Ascending
    <3>1. i + 1 < k + 1
      OBVIOUS
    <3> QED
      BY <2>2, <3>1 DEF RInv, Ascending
  <2>9. Numbered(row')
    <3>1. \A i \in Jobs : row'[i] # "none" <=> row[i] # "none"
      BY <2>3, <2>4
    <3> QED
      BY <3>1 DEF RInv, Numbered
  <2> QED
    BY <1>1, <2>6, <2>7, <2>8, <2>9 DEF RInv, Forgotten
<1> QED
  BY <1>2, <1>3

(* The handlers that end in _dispatch. *)
LEMMA DispatchStepRInv ==
  ASSUME IInv, RInv, \/ RetryFires
                     \/ \E j \in Jobs : Submit(j) \/ Finish(j) \/ SpawnFails(j) \/ RunnerRaises(j)
  PROVE  RInv'
<1>0. /\ TypeOK /\ queue \in Seq(Jobs) /\ row \in [Jobs -> Statuses]
      /\ task \in [Jobs -> Stages] /\ cancelled \in SUBSET Jobs /\ cancelling \in SUBSET Jobs
      /\ lock \in {"free", "panel", "external"}
      /\ QueueApart(queue, task, row)
  BY DEF IInv, TypeOK, Core
<1>1. panel = "up" => Owned(task, row)
  BY DEF RInv
<1>2. CASE RetryFires
  <2>1. /\ Dispatch(queue, task, row, lock) /\ panel = "up"
        /\ UNCHANGED <<cancelled, cancelling, panel>>
    BY <1>2 DEF RetryFires
  <2>2. Truth(queue, task, row, cancelled, cancelling) /\ Ascending(queue) /\ Numbered(row)
    BY DEF RInv
  <2>3. /\ Truth(queue', task', row', cancelled, cancelling)
        /\ Owned(task', row') /\ Ascending(queue') /\ Numbered(row')
    BY <1>0, <1>1, <2>1, <2>2, DispatchTruth
  <2> QED
    BY <2>1, <2>3 DEF RInv, Forgotten
<1>3. ASSUME NEW j \in Jobs, Submit(j)
      PROVE  RInv'
  <2> DEFINE q == Enqueue(queue, j)
             rw == [row EXCEPT ![j] = "queued"]
  <2>1. /\ Dispatch(q, task, rw, lock) /\ panel = "up" /\ NextRow(j)
        /\ UNCHANGED <<cancelled, cancelling, panel>>
    BY <1>3 DEF Submit
  <2>2. q \in Seq(Jobs) /\ rw \in [Jobs -> Statuses] /\ QueueApart(q, task, rw)
    BY <2>1, SubmitCore DEF NextRow, Core
  <2>3. /\ Truth(q, task, rw, cancelled, cancelling)
        /\ Owned(task, rw) /\ Ascending(q) /\ Numbered(rw)
    BY <1>1, <2>1, SubmitTruth
  <2> HIDE DEF q, rw
  <2>4. /\ Truth(queue', task', row', cancelled, cancelling)
        /\ Owned(task', row') /\ Ascending(queue') /\ Numbered(row')
    BY <1>0, <2>1, <2>2, <2>3, DispatchTruth
  <2> QED
    BY <2>1, <2>4 DEF RInv, Forgotten
<1>4. ASSUME NEW j \in Jobs, Finish(j) \/ SpawnFails(j) \/ RunnerRaises(j)
      PROVE  RInv'
  <2>1. FinallyBlock(j)
    BY <1>4 DEF Finish, SpawnFails, RunnerRaises
  <2>2. panel = "up" /\ task[j] \in {"created", "running", "exited"}
    BY <1>4 DEF Finish, SpawnFails, RunnerRaises
  <2> DEFINE tk == [task EXCEPT ![j] = "none"]
             rw == [row EXCEPT ![j] = FinalStatus(j)]
             lk == IF Idle(tk) THEN "free" ELSE lock
             cc == cancelled \ {j}
  <2>4. /\ Dispatch(queue, tk, rw, lk) /\ cancelled' = cc
        /\ UNCHANGED <<cancelling, panel>>
    BY <2>1 DEF FinallyBlock
  <2>5. /\ tk \in [Jobs -> Stages] /\ rw \in [Jobs -> Statuses]
        /\ lk \in {"free", "panel", "external"} /\ QueueApart(queue, tk, rw)
    BY <2>2, FinishCore DEF Core
  <2>6. Truth(queue, tk, rw, cc, cancelling) /\ Owned(tk, rw) /\ Numbered(rw)
    BY <2>2, FinishTruth
  <2>7. cc \in SUBSET Jobs /\ Ascending(queue)
    BY <1>0 DEF RInv
  <2> HIDE DEF tk, rw, lk, cc
  <2>8. /\ Truth(queue', task', row', cc, cancelling)
        /\ Owned(task', row') /\ Ascending(queue') /\ Numbered(row')
    BY <1>0, <2>4, <2>5, <2>6, <2>7, DispatchTruth
  <2> QED
    BY <2>2, <2>4, <2>8 DEF RInv, Forgotten
<1> QED
  BY <1>2, <1>3, <1>4

LEMMA StepRInv ==
  ASSUME IInv, RInv, [Next]_vars
  PROVE  RInv'
<1>0. /\ queue \in Seq(Jobs) /\ row \in [Jobs -> Statuses] /\ task \in [Jobs -> Stages]
      /\ cancelled \subseteq Jobs /\ cancelling \subseteq Jobs
  BY DEF IInv, TypeOK
<1>1. CASE \E j \in Jobs : JobStep(j)
  BY <1>1, QuietStepRInv, DispatchStepRInv DEF JobStep
<1>2. CASE RetryFires
  BY <1>2, DispatchStepRInv
<1>3. CASE DrainEnds \/ AbruptStop
  <2>1. /\ queue' = <<>> /\ task' = [i \in Jobs |-> "none"] /\ row' = row
        /\ cancelled' = {} /\ cancelling' = {} /\ panel' = "down" /\ worker' = "idle"
    BY <1>3 DEF DrainEnds, AbruptStop, PanelStops
  <2> QED
    BY <2>1 DEF RInv, Truth, Ascending, Numbered, Forgotten
<1>4. CASE Boot
  <2>1. /\ row' = [j \in Jobs |-> Recovered(row[j])] /\ panel = "down" /\ panel' = "up"
        /\ UNCHANGED <<queue, task, cancelled, cancelling, worker>>
    BY <1>4 DEF Boot, memory
  <2>2. /\ queue = <<>> /\ \A j \in Jobs : task[j] = "none"
        /\ cancelled = {} /\ cancelling = {}
    BY <2>1 DEF RInv, Forgotten
  <2>3. \A j \in Jobs : row'[j] # "running" /\ (row'[j] # "none" <=> row[j] # "none")
    BY <1>0, <2>1 DEF Recovered, Statuses
  <2> QED
    BY <2>1, <2>2, <2>3 DEF RInv, Truth, Owned, Ascending, Numbered, Forgotten
<1>5. CASE WorkerPops
  BY <1>5, WorkerPopsRInv
<1>6. CASE \/ Sighup \/ ExternalBegins \/ ExternalEnds \/ UNCHANGED vars
           \/ \E n \in 0..(MaxLimit + 1) : SettingsSave(n)
  <2>1. /\ UNCHANGED <<row, queue, task, cancelled, cancelling, panel>>
        /\ panel = "down" => worker' = worker
    BY <1>6 DEF Sighup, ExternalBegins, ExternalEnds, SettingsSave, vars, memory
  <2> QED
    BY <2>1 DEF RInv, Forgotten
<1> QED
  BY <1>1, <1>2, <1>3, <1>4, <1>5, <1>6 DEF Next

(* The rows tell the truth about the memory: _dispatch and _start          *)
(* (jobs.py:205-240), the finally block (jobs.py:276-293), the cancel      *)
(* (jobs.py:410-435) and the recovery (main.py:129-138) keep them in step. *)
THEOREM RowsTellTheTruth == Spec => []RowsMatchMemory
<1>1. Init => RInv
  BY InitRInv
<1>2. IInv /\ RInv /\ [Next]_vars => RInv'
  BY StepRInv
<1>3. IInv /\ RInv => RowsMatchMemory
  <2> SUFFICES ASSUME IInv, RInv PROVE RowsMatchMemory
    OBVIOUS
  <2>1. queue \in Seq(Jobs) /\ task \in [Jobs -> Stages]
    BY DEF IInv, TypeOK
  <2>2. \A j \in Waiting : row[j] = "queued" /\ task[j] = "none"
    BY <2>1 DEF Waiting, RInv, Truth, IInv, Core, QueueApart
  <2> QED
    BY <2>2 DEF RowsMatchMemory, RInv, Truth, Owned, Live, Active, IInv, Core, QueueApart
<1> QED
  BY <1>1, <1>2, <1>3, Invariance, PTL DEF Spec

-----------------------------------------------------------------------------
(* Two action properties: a cancellation sticks, and nobody is overtaken.  *)

(* The mark of a cancel is only removed by the coroutine that honours it,  *)
(* or with the whole memory.                                               *)
LEMMA MarkLeaves ==
  ASSUME IInv, [Next]_vars, NEW j \in cancelled, j \notin cancelled'
  PROVE  panel' = "down" \/ row'[j] \in {"running", "cancelled"}
<1>0. row \in [Jobs -> Statuses] /\ j \in Jobs
  BY DEF IInv, TypeOK
<1>1. ASSUME NEW i \in Jobs, Finish(i) \/ SpawnFails(i) \/ RunnerRaises(i)
      PROVE  row'[j] \in {"running", "cancelled"}
  <2>1. FinallyBlock(i)
    BY <1>1 DEF Finish, SpawnFails, RunnerRaises
  <2> DEFINE rw == [row EXCEPT ![i] = FinalStatus(i)]
  <2>2. i = j /\ rw[j] = "cancelled"
    BY <1>0, <2>1 DEF FinallyBlock, FinalStatus
  <2>3. \E q, tk, lk : Dispatch(q, tk, rw, lk)
    BY <2>1 DEF FinallyBlock
  <2> HIDE DEF rw
  <2> QED
    BY <1>0, <2>2, <2>3 DEF Dispatch
<1>2. CASE DrainEnds \/ AbruptStop
  BY <1>2 DEF DrainEnds, AbruptStop, PanelStops
<1>3. ASSUME \/ RetryFires \/ Sighup \/ Boot \/ WorkerPops \/ ExternalBegins \/ ExternalEnds
             \/ UNCHANGED vars
             \/ \E n \in 0..(MaxLimit + 1) : SettingsSave(n)
             \/ \E i \in Jobs : \/ Submit(i) \/ SubmitLeavesRow(i) \/ Spawn(i)
                                \/ ChildExits(i) \/ CoroutineDies(i) \/ CancelRunning(i)
                                \/ CancelSettles(i) \/ CancelQueued(i)
      PROVE  cancelled \subseteq cancelled'
  BY <1>3 DEF RetryFires, Sighup, Boot, WorkerPops, ExternalBegins, ExternalEnds,
              SettingsSave, Submit, SubmitLeavesRow, Spawn, ChildExits, CoroutineDies,
              CancelRunning, CancelSettles, CancelQueued, vars, memory
<1> QED
  BY <1>1, <1>2, <1>3 DEF Next, JobStep

(* A marked job loses its coroutine with a row that says running or        *)
(* cancelled.                                                              *)
LEMMA MarkedDies ==
  ASSUME IInv, RInv, [Next]_vars, NEW j \in cancelled, task[j] # "lost",
         task'[j] = "lost"
  PROVE  row'[j] \in {"running", "cancelled"}
<1>0. /\ task \in [Jobs -> Stages] /\ row \in [Jobs -> Statuses] /\ j \in Jobs
      /\ queue \in Seq(Jobs) /\ \A i \in 1..Len(queue) : task[queue[i]] = "none"
      /\ task[j] \in {"running", "exited"} /\ row[j] \in {"running", "cancelled"}
  BY DEF IInv, TypeOK, RInv, Truth, Core, QueueApart
<1>1. ASSUME NEW i \in Jobs, CoroutineDies(i)
      PROVE  row'[j] \in {"running", "cancelled"}
  <2>1. i = j
    BY <1>0, <1>1 DEF CoroutineDies
  <2>2. row' = row \/ row' = [row EXCEPT ![j] = "cancelled"]
    BY <1>1, <2>1 DEF CoroutineDies, FinalStatus
  <2> QED
    BY <1>0, <2>2
<1>2. CASE RetryFires
  BY <1>0, <1>2 DEF RetryFires, Dispatch
<1>3. ASSUME NEW i \in Jobs, Submit(i) \/ Finish(i) \/ SpawnFails(i) \/ RunnerRaises(i)
      PROVE  FALSE
  <2>1. PICK q, tk, rw, lk : Dispatch(q, tk, rw, lk) /\ tk[j] \in {task[j], "none"}
    <3>1. CASE Submit(i)
      BY <3>1 DEF Submit
    <3>2. CASE Finish(i) \/ SpawnFails(i) \/ RunnerRaises(i)
      <4> DEFINE tk == [task EXCEPT ![i] = "none"]
      <4>1. \E q, rw, lk : Dispatch(q, tk, rw, lk)
        BY <3>2 DEF Finish, SpawnFails, RunnerRaises, FinallyBlock
      <4>2. tk[j] \in {task[j], "none"}
        BY <1>0
      <4> QED
        BY <4>1, <4>2
    <3> QED
      BY <1>3, <3>1, <3>2
  <2>2. task'[j] \in {tk[j], "created"}
    BY <1>0, <2>1 DEF Dispatch
  <2> QED
    BY <1>0, <2>1, <2>2
<1>4. CASE WorkerPops
  <2>1. queue # <<>> => Head(queue) = queue[1] /\ 1 \in 1..Len(queue)
    BY <1>0
  <2> QED
    BY <1>0, <1>4, <2>1 DEF WorkerPops
<1>5. CASE DrainEnds \/ AbruptStop
  BY <1>0, <1>5 DEF DrainEnds, AbruptStop, PanelStops
<1>6. ASSUME NEW i \in Jobs, Spawn(i) \/ ChildExits(i)
      PROVE  FALSE
  BY <1>0, <1>6 DEF Spawn, ChildExits
<1>7. ASSUME \/ Sighup \/ Boot \/ ExternalBegins \/ ExternalEnds \/ UNCHANGED vars
             \/ \E n \in 0..(MaxLimit + 1) : SettingsSave(n)
             \/ \E i \in Jobs : \/ SubmitLeavesRow(i) \/ CancelRunning(i)
                                \/ CancelSettles(i) \/ CancelQueued(i)
      PROVE  FALSE
  BY <1>0, <1>7 DEF Sighup, Boot, ExternalBegins, ExternalEnds, SettingsSave,
     SubmitLeavesRow, CancelRunning, CancelSettles, CancelQueued, vars, memory
<1> QED
  BY <1>1, <1>2, <1>3, <1>4, <1>5, <1>6, <1>7 DEF Next, JobStep

(* A job whose cancel was accepted never ends as a success or as a plain   *)
(* failure of its own (jobs.py:279-281, 410-435).                          *)
THEOREM CancellationSticks == Spec => CancelSticks
<1>1. Init => RInv
  BY InitRInv
<1>2. IInv /\ RInv /\ [Next]_vars => RInv'
  BY StepRInv
<1>3. IInv /\ RInv /\ RInv' /\ [Next]_vars =>
        (\A j \in Jobs : j \in cancelled /\ task[j] # "lost" /\ panel' = "up"
                           => row'[j] \in {"running", "cancelled"})
  <2> SUFFICES ASSUME IInv, RInv, RInv', [Next]_vars, NEW j \in cancelled,
                      task[j] # "lost", panel' = "up"
               PROVE  row'[j] \in {"running", "cancelled"}
    OBVIOUS
  <2>1. CASE j \notin cancelled'
    BY <2>1, MarkLeaves
  <2>2. CASE j \in cancelled' /\ task'[j] # "lost"
    BY <2>2 DEF RInv, Truth
  <2>3. CASE task'[j] = "lost"
    BY <2>3, MarkedDies
  <2> QED
    BY <2>1, <2>2, <2>3
<1> QED
  BY <1>1, <1>2, <1>3, Invariance, PTL DEF Spec, CancelSticks

(* A promotion takes a prefix of an ascending queue: who has a smaller id  *)
(* than a promoted job was promoted before it or with it.                  *)
LEMMA MovesInOrder ==
  ASSUME NEW q \in Seq(Jobs), NEW tk, NEW rw, NEW lk, NEW n \in 0..Len(q),
         Moves(n, q, tk, rw, lk), QueueApart(q, tk, rw), Ascending(q),
         NEW b \in 1..Len(q), NEW j \in Jobs, tk[j] = "none", task'[j] # "none", q[b] < j
  PROVE  \A x \in 1..Len(queue') : queue'[x] # q[b]
<1>0. n \in Nat /\ Len(q) \in Nat /\ \A i \in 1..Len(q) : q[i] \in Nat
  BY DEF Jobs
<1>1. PICK a \in 1..n : q[a] = j
  BY MovesShape
<1>2. a \in 1..Len(q) /\ q[b] < q[a]
  BY <1>0, <1>1
<1>3. ~(a < b) /\ a # b
  BY <1>0, <1>2 DEF Ascending
<1>4. b <= n
  BY <1>0, <1>3
<1>5. \A x \in 1..Len(queue') : x + n \in 1..Len(q) /\ queue'[x] = q[x + n]
  BY MovesShape
<1> SUFFICES ASSUME NEW x \in 1..Len(queue'), q[x + n] = q[b]
             PROVE  FALSE
  BY <1>5
<1>6. x + n = b
  BY <1>5 DEF QueueApart
<1> QED
  BY <1>0, <1>4, <1>6

LEMMA DispatchInOrder ==
  ASSUME TypeOK, NEW q \in Seq(Jobs), NEW tk \in [Jobs -> Stages],
         NEW rw \in [Jobs -> Statuses], NEW lk \in {"free", "panel", "external"},
         Dispatch(q, tk, rw, lk), QueueApart(q, tk, rw), Ascending(q),
         NEW b \in 1..Len(q), NEW j \in Jobs, tk[j] = "none", task'[j] # "none", q[b] < j
  PROVE  \A x \in 1..Len(queue') : queue'[x] # q[b]
<1>1. PICK n \in 0..Len(q) : Moves(n, q, tk, rw, lk)
  BY DispatchMoves
<1> QED
  BY <1>1, MovesInOrder

LEMMA StepInOrder ==
  ASSUME IInv, RInv, [Next]_vars,
         NEW b \in 1..Len(queue), NEW j \in Active' \ Active, queue[b] < j
  PROVE  \A x \in 1..Len(queue') : queue'[x] # queue[b]
<1>0. /\ TypeOK /\ queue \in Seq(Jobs) /\ row \in [Jobs -> Statuses]
      /\ task \in [Jobs -> Stages] /\ lock \in {"free", "panel", "external"}
      /\ QueueApart(queue, task, row) /\ Ascending(queue)
      /\ j \in Jobs /\ task[j] = "none" /\ task'[j] # "none"
      /\ b \in Nat /\ Len(queue) \in Nat
  BY DEF IInv, TypeOK, Core, RInv, Active
<1>1. CASE RetryFires
  <2>1. Dispatch(queue, task, row, lock)
    BY <1>1 DEF RetryFires
  <2> QED
    BY <1>0, <2>1, DispatchInOrder
<1>2. ASSUME NEW i \in Jobs, Submit(i)
      PROVE  \A x \in 1..Len(queue') : queue'[x] # queue[b]
  <2> DEFINE q == Enqueue(queue, i)
             rw == [row EXCEPT ![i] = "queued"]
  <2>1. Dispatch(q, task, rw, lock) /\ NextRow(i)
    BY <1>2 DEF Submit
  <2>2. q \in Seq(Jobs) /\ rw \in [Jobs -> Statuses] /\ QueueApart(q, task, rw)
    BY <2>1, SubmitCore DEF NextRow, Core
  <2>3. Ascending(q)
    BY <2>1, SubmitTruth
  <2>4. b \in 1..Len(q) /\ q[b] = queue[b]
    BY <1>0 DEF Enqueue
  <2> HIDE DEF q, rw
  <2> QED
    BY <1>0, <2>1, <2>2, <2>3, <2>4, DispatchInOrder
<1>3. ASSUME NEW i \in Jobs, Finish(i) \/ SpawnFails(i) \/ RunnerRaises(i)
      PROVE  \A x \in 1..Len(queue') : queue'[x] # queue[b]
  <2>1. FinallyBlock(i)
    BY <1>3 DEF Finish, SpawnFails, RunnerRaises
  <2> DEFINE tk == [task EXCEPT ![i] = "none"]
             rw == [row EXCEPT ![i] = FinalStatus(i)]
             lk == IF Idle(tk) THEN "free" ELSE lock
  <2>2. task[i] \in {"created", "running", "exited"}
    BY <1>3 DEF Finish, SpawnFails, RunnerRaises
  <2>3. Dispatch(queue, tk, rw, lk) /\ tk[j] = "none"
    BY <1>0, <2>1 DEF FinallyBlock
  <2>4. /\ tk \in [Jobs -> Stages] /\ rw \in [Jobs -> Statuses]
        /\ lk \in {"free", "panel", "external"} /\ QueueApart(queue, tk, rw)
    BY <2>2, FinishCore DEF Core
  <2> HIDE DEF tk, rw, lk
  <2> QED
    BY <1>0, <2>3, <2>4, DispatchInOrder
<1>4. CASE WorkerPops
  <2>1. queue # <<>>
    BY <1>0
  <2>2. /\ queue' = Tail(queue) /\ task' = [task EXCEPT ![Head(queue)] = "lost"]
        /\ Head(queue) = queue[1] /\ 1 \in 1..Len(queue) /\ queue[1] \in Nat
    BY <1>0, <1>4, <2>1 DEF WorkerPops, Jobs
  <2>3. j = queue[1]
    BY <1>0, <2>2
  <2>4. b # 1 /\ ~(1 < b) /\ queue[b] \in Nat
    BY <1>0, <2>2, <2>3 DEF Ascending, Jobs
  <2> QED
    BY <1>0, <2>4
<1>5. ASSUME \/ Sighup \/ Boot \/ DrainEnds \/ AbruptStop \/ ExternalBegins \/ ExternalEnds
             \/ UNCHANGED vars
             \/ \E n \in 0..(MaxLimit + 1) : SettingsSave(n)
             \/ \E i \in Jobs : \/ SubmitLeavesRow(i) \/ Spawn(i)
                                \/ ChildExits(i) \/ CancelRunning(i)
                                \/ CancelSettles(i) \/ CancelQueued(i)
      PROVE  task'[j] = "none"
  BY <1>0, <1>5 DEF Sighup, Boot, DrainEnds, AbruptStop, PanelStops, ExternalBegins,
     ExternalEnds, SettingsSave, SubmitLeavesRow, Spawn, ChildExits,
     CancelRunning, CancelSettles, CancelQueued, vars, memory
<1>6. ASSUME NEW i \in Jobs, CoroutineDies(i)
      PROVE  task'[j] = "none"
  BY <1>0, <1>6 DEF CoroutineDies, Live
<1> QED
  BY <1>0, <1>1, <1>2, <1>3, <1>4, <1>5, <1>6 DEF Next, JobStep

(* First in, first out, through every promotion: of a submit, of a         *)
(* finished job, of the timer and of the settings thread (jobs.py:205-221).*)
THEOREM FirstInFirstOut == Spec => NoOvertaking
<1>1. Init => RInv
  BY InitRInv
<1>2. IInv /\ RInv /\ [Next]_vars => RInv'
  BY StepRInv
<1>3. IInv /\ RInv /\ [Next]_vars =>
        (\A i, j \in Jobs : i \in Waiting /\ j \in Active' \ Active /\ i < j
                              => i \notin Waiting')
  BY StepInOrder DEF Waiting
<1> QED
  BY <1>1, <1>2, <1>3, Invariance, PTL DEF Spec, NoOvertaking

-----------------------------------------------------------------------------
(***************************************************************************)
(* The pool is filled, and not beyond its limit.  Both statements count    *)
(* slots: a promotion of n jobs takes n different jobs out of the queue,   *)
(* none of which had a slot.                                               *)
(***************************************************************************)
Slots(tk) == {j \in Jobs : tk[j] # "none"}

LEMMA SlotsFinite ==
  ASSUME NEW S \in SUBSET Jobs
  PROVE  IsFiniteSet(S) /\ Cardinality(S) \in Nat
<1>1. IsFiniteSet(Jobs)
  BY FS_Interval DEF Jobs
<1> QED
  BY <1>1, FS_Subset, FS_CardinalityType

LEMMA PrefixCardinality ==
  ASSUME NEW q \in Seq(Jobs), NEW n \in 0..Len(q),
         \A i, k \in 1..Len(q) : q[i] = q[k] => i = k
  PROVE  Cardinality({q[i] : i \in 1..n}) = n
<1> DEFINE S == {q[i] : i \in 1..n}
           f == [i \in 1..n |-> q[i]]
<1>0. n \in Nat /\ 1..n \subseteq 1..Len(q)
  OBVIOUS
<1>1. f \in [1..n -> S] /\ \A s \in S : \E i \in 1..n : f[i] = s
  OBVIOUS
<1>2. \A i, k \in 1..n : f[i] = f[k] => i = k
  BY <1>0
<1>3. ExistsBijection(1..n, S)
  BY <1>1, <1>2 DEF ExistsBijection, Bijection, Injection, Surjection, IsInjective
<1> HIDE DEF S
<1> QED
  BY <1>0, <1>3, FS_CountingElements DEF S

LEMMA MovesCount ==
  ASSUME NEW q \in Seq(Jobs), NEW tk \in [Jobs -> Stages], NEW rw, NEW lk,
         NEW n \in 0..Len(q), Moves(n, q, tk, rw, lk), QueueApart(q, tk, rw)
  PROVE  /\ Cardinality(Slots(task')) = Cardinality(Slots(tk)) + n
         /\ Cardinality(Slots(tk)) \in Nat
<1> DEFINE S == {q[i] : i \in 1..n}
<1>1. n \in Nat /\ \A i \in 1..n : i \in 1..Len(q) /\ q[i] \in Jobs
  OBVIOUS
<1>2. S \in SUBSET Jobs /\ S \cap Slots(tk) = {}
  BY <1>1 DEF QueueApart, Slots
<1>3. Slots(task') = Slots(tk) \cup S
  BY <1>1, MovesShape DEF Slots
<1>4. Cardinality(S) = n
  BY PrefixCardinality DEF QueueApart
<1>5. IsFiniteSet(S) /\ IsFiniteSet(Slots(tk)) /\ Cardinality(Slots(tk)) \in Nat
  BY <1>2, SlotsFinite DEF Slots
<1> HIDE DEF S
<1>6. Cardinality(Slots(tk) \cup S)
        = Cardinality(Slots(tk)) + Cardinality(S) - Cardinality(Slots(tk) \cap S)
  BY <1>5, FS_Union
<1>7. Cardinality(Slots(tk) \cap S) = 0
  <2>1. Slots(tk) \cap S = {}
    BY <1>2
  <2> QED
    BY <2>1, FS_EmptySet
<1> QED
  BY <1>1, <1>3, <1>4, <1>5, <1>6, <1>7

LEMMA DispatchFills ==
  ASSUME TypeOK, NEW q \in Seq(Jobs), NEW tk \in [Jobs -> Stages],
         NEW rw \in [Jobs -> Statuses], NEW lk \in {"free", "panel", "external"},
         Dispatch(q, tk, rw, lk), QueueApart(q, tk, rw)
  PROVE  /\ task' = tk \/ Cardinality(Slots(task')) <= limit
         /\ ~draining /\ queue' # <<>> /\ ~retry' => Cardinality(Slots(task')) >= limit
         /\ ~draining /\ Slots(task') = {} =>
              \/ lock' = "external"
              \/ Slots(tk) = {} /\ q = <<>> /\ lock' = lk
<1> DEFINE p == Promotable(q, tk)
           c == Cardinality(Slots(tk))
<1>0. /\ limit \in Nat /\ limit >= 1 /\ draining \in BOOLEAN
      /\ Len(q) \in Nat /\ p \in 0..Len(q) /\ c \in Nat
  BY PromotableRange, SlotsFinite DEF TypeOK, Slots
<1>1. /\ draining => p = 0
      /\ ~draining => \/ p = Len(q) /\ c + p <= limit
                      \/ p > 0 /\ c + p = limit
                      \/ p = 0 /\ c >= limit
  BY <1>0 DEF Promotable, Room, Slots
<1>2. CASE p > 0 /\ lk = "external"
  BY <1>2 DEF Dispatch
<1>3. CASE ~(p > 0 /\ lk = "external")
  <2>1. Moves(p, q, tk, rw, lk) /\ ~retry'
    BY <1>3 DEF Dispatch, Moves
  <2>2. Cardinality(Slots(task')) = c + p
    BY <1>0, <2>1, MovesCount
  <2>3. p = 0 => task' = tk
    <3>1. 1..0 = {}
      OBVIOUS
    <3> QED
      BY <2>1, <3>1 DEF Moves
  <2>4. queue' # <<>> => p # Len(q)
    BY <1>0, <2>1 DEF Moves
  <2>5. Slots(task') = {} => c + p = 0
    BY <2>2, FS_EmptySet
  <2>6. c = 0 => Slots(tk) = {}
    BY SlotsFinite, FS_EmptySet DEF Slots
  <2>7. p = 0 => lock' = lk
    BY <1>0, <2>1 DEF Moves
  <2>8. Len(q) = 0 => q = <<>>
    OBVIOUS
  <2> HIDE DEF p, c
  <2> QED
    BY <1>0, <1>1, <2>1, <2>2, <2>3, <2>4, <2>5, <2>6, <2>7, <2>8
<1> QED
  BY <1>2, <1>3

(* What WInv says of an undisturbed pool: no settings save yet, so the      *)
(* settings thread never registered a job without a coroutine.              *)
Lost(tk) == {j \in Jobs : tk[j] = "lost"}

WInv ==
  saves = 0 =>
    /\ limit = DefaultLimit /\ worker = "idle"
    /\ Cardinality(Lost(task)) <= faults
    /\ ~draining =>
         /\ queue # <<>> /\ ~retry => Cardinality(Slots(task)) >= limit
         /\ Slots(task) = {} => lock # "panel"

(* The handlers that end in _dispatch, once more: how they leave the pool. *)
LEMMA DispatchStepPool ==
  ASSUME IInv, RInv, \/ RetryFires
                     \/ \E j \in Jobs : Submit(j) \/ Finish(j) \/ SpawnFails(j) \/ RunnerRaises(j)
  PROVE  /\ Live' \subseteq Live \/ Cardinality(Slots(task')) <= limit
         /\ ~draining /\ queue' # <<>> /\ ~retry' => Cardinality(Slots(task')) >= limit
         /\ ~draining /\ Slots(task') = {} =>
              lock' # "panel" \/ (Slots(task) = {} /\ lock' = lock)
         /\ Lost(task') \subseteq Lost(task)
<1>0. /\ TypeOK /\ queue \in Seq(Jobs) /\ row \in [Jobs -> Statuses]
      /\ task \in [Jobs -> Stages] /\ lock \in {"free", "panel", "external"}
      /\ QueueApart(queue, task, row)
  BY DEF IInv, TypeOK, Core
<1>1. CASE RetryFires
  <2>1. Dispatch(queue, task, row, lock)
    BY <1>1 DEF RetryFires
  <2>2. \A j \in Jobs : task'[j] = "lost" => task[j] = "lost"
    BY <2>1 DEF Dispatch
  <2> QED
    BY <1>0, <2>1, <2>2, DispatchFills DEF Live, Lost
<1>2. ASSUME NEW i \in Jobs, Submit(i)
      PROVE  /\ Live' \subseteq Live \/ Cardinality(Slots(task')) <= limit
             /\ ~draining /\ queue' # <<>> /\ ~retry' => Cardinality(Slots(task')) >= limit
             /\ ~draining /\ Slots(task') = {} =>
                  lock' # "panel" \/ (Slots(task) = {} /\ lock' = lock)
             /\ Lost(task') \subseteq Lost(task)
  <2> DEFINE q == Enqueue(queue, i)
             rw == [row EXCEPT ![i] = "queued"]
  <2>1. Dispatch(q, task, rw, lock) /\ NextRow(i)
    BY <1>2 DEF Submit
  <2>2. q \in Seq(Jobs) /\ rw \in [Jobs -> Statuses] /\ QueueApart(q, task, rw)
    BY <2>1, SubmitCore DEF NextRow, Core
  <2> HIDE DEF q, rw
  <2>3. \A j \in Jobs : task'[j] = "lost" => task[j] = "lost"
    BY <2>1 DEF Dispatch
  <2> QED
    BY <1>0, <2>1, <2>2, <2>3, DispatchFills DEF Live, Lost
<1>3. ASSUME NEW i \in Jobs, Finish(i) \/ SpawnFails(i) \/ RunnerRaises(i)
      PROVE  /\ Live' \subseteq Live \/ Cardinality(Slots(task')) <= limit
             /\ ~draining /\ queue' # <<>> /\ ~retry' => Cardinality(Slots(task')) >= limit
             /\ ~draining /\ Slots(task') = {} =>
                  lock' # "panel" \/ (Slots(task) = {} /\ lock' = lock)
             /\ Lost(task') \subseteq Lost(task)
  <2>1. FinallyBlock(i)
    BY <1>3 DEF Finish, SpawnFails, RunnerRaises
  <2> DEFINE tk == [task EXCEPT ![i] = "none"]
             rw == [row EXCEPT ![i] = FinalStatus(i)]
             lk == IF Idle(tk) THEN "free" ELSE lock
  <2>2. task[i] \in {"created", "running", "exited"}
    BY <1>3 DEF Finish, SpawnFails, RunnerRaises
  <2>3. Dispatch(queue, tk, rw, lk)
    BY <2>1 DEF FinallyBlock
  <2>4. /\ tk \in [Jobs -> Stages] /\ rw \in [Jobs -> Statuses]
        /\ lk \in {"free", "panel", "external"} /\ QueueApart(queue, tk, rw)
    BY <2>2, FinishCore DEF Core
  <2>5. \A j \in Jobs : tk[j] = task[j] \/ tk[j] = "none"
    BY <1>0
  <2>6. Slots(tk) = {} /\ queue = <<>> => lk = "free"
    BY DEF Slots, Idle
  <2> HIDE DEF tk, rw, lk
  <2>7. \A j \in Jobs : task'[j] = "lost" => task[j] = "lost"
    BY <2>3, <2>5 DEF Dispatch
  <2>8. task' = tk => Live' \subseteq Live
    BY <2>5 DEF Live
  <2> QED
    BY <1>0, <2>3, <2>4, <2>6, <2>7, <2>8, DispatchFills DEF Lost
<1> QED
  BY <1>1, <1>2, <1>3

(* The other steps, but for the settings thread's: no job becomes live.    *)
LEMMA OtherStepPool ==
  ASSUME TypeOK,
         \/ Sighup \/ Boot \/ DrainEnds \/ AbruptStop \/ WorkerPops
         \/ ExternalBegins \/ ExternalEnds \/ UNCHANGED vars
         \/ \E n \in 0..(MaxLimit + 1) : SettingsSave(n)
         \/ \E j \in Jobs : \/ SubmitLeavesRow(j) \/ Spawn(j) \/ ChildExits(j)
                            \/ CoroutineDies(j) \/ CancelRunning(j)
                            \/ CancelSettles(j) \/ CancelQueued(j)
  PROVE  Live' \subseteq Live
<1>0. task \in [Jobs -> Stages]
  BY DEF TypeOK
<1>1. ASSUME NEW j \in Jobs, Spawn(j) \/ ChildExits(j) \/ CoroutineDies(j)
      PROVE  \A i \in Jobs : task'[i] \notin {"none", "lost"} => task[i] \notin {"none", "lost"}
  BY <1>0, <1>1 DEF Spawn, ChildExits, CoroutineDies, Live
<1>2. CASE DrainEnds \/ AbruptStop
  BY <1>2 DEF DrainEnds, AbruptStop, PanelStops, Live
<1>3. CASE WorkerPops
  BY <1>0, <1>3 DEF WorkerPops, Live
<1>4. ASSUME \/ Sighup \/ Boot \/ ExternalBegins \/ ExternalEnds \/ UNCHANGED vars
             \/ \E n \in 0..(MaxLimit + 1) : SettingsSave(n)
             \/ \E j \in Jobs : \/ SubmitLeavesRow(j) \/ CancelRunning(j)
                                \/ CancelSettles(j) \/ CancelQueued(j)
      PROVE  task' = task
  BY <1>4 DEF Sighup, Boot, ExternalBegins, ExternalEnds, SettingsSave, SubmitLeavesRow,
              CancelRunning, CancelSettles, CancelQueued, vars, memory
<1> QED
  BY <1>1, <1>2, <1>3, <1>4 DEF Live

(* Whenever a job is started the number of live jobs is within the limit   *)
(* of that moment, however it was changed before (jobs.py:205-221).        *)
THEOREM PoolWithinLimit == Spec => StartsRespectLimit
<1>1. Init => RInv
  BY InitRInv
<1>2. IInv /\ RInv /\ [Next]_vars => RInv'
  BY StepRInv
<1>3. IInv /\ IInv' /\ RInv /\ [Next]_vars =>
        (~(Live' \subseteq Live) => Cardinality(Live') <= limit)
  <2> SUFFICES ASSUME IInv, IInv', RInv, [Next]_vars, ~(Live' \subseteq Live)
               PROVE  Cardinality(Live') <= limit
    OBVIOUS
  <2>1. \/ RetryFires
        \/ \E j \in Jobs : Submit(j) \/ Finish(j) \/ SpawnFails(j) \/ RunnerRaises(j)
    BY OtherStepPool DEF Next, JobStep, IInv
  <2>2. Cardinality(Slots(task')) <= limit
    BY <2>1, DispatchStepPool
  <2>3. IsFiniteSet(Slots(task')) /\ Cardinality(Slots(task')) \in Nat
        /\ Cardinality(Live') \in Nat /\ limit \in Nat
    BY SlotsFinite DEF Slots, Live, IInv, TypeOK
  <2>4. Live' \subseteq Slots(task')
    BY DEF Live, Slots
  <2>5. Cardinality(Live') <= Cardinality(Slots(task'))
    BY <2>3, <2>4, FS_Subset
  <2> QED
    BY <2>2, <2>3, <2>5
<1> QED
  BY <1>1, <1>2, <1>3, Invariance, PTL DEF Spec, StartsRespectLimit

LEMMA InitWInv == Init => WInv
<1> SUFFICES ASSUME Init PROVE WInv
  OBVIOUS
<1>1. Lost(task) = {}
  BY DEF Init, Lost
<1>2. Cardinality(Lost(task)) = 0
  BY <1>1, FS_EmptySet
<1>3. queue = <<>> /\ lock = "free" /\ limit = DefaultLimit /\ worker = "idle" /\ faults = 0
  BY DEF Init
<1> QED
  BY <1>2, <1>3 DEF WInv

LEMMA StepWInv ==
  ASSUME IInv, IInv', RInv, WInv, [Next]_vars
  PROVE  WInv'
<1> DEFINE Pool == /\ queue # <<>> /\ ~retry => Cardinality(Slots(task)) >= limit
                   /\ Slots(task) = {} => lock # "panel"
<1>0. /\ task \in [Jobs -> Stages] /\ limit \in Nat /\ saves \in Nat /\ faults \in Nat
      /\ draining \in BOOLEAN /\ queue \in Seq(Jobs) /\ queue' \in Seq(Jobs)
      /\ Cardinality(Lost(task)) \in Nat /\ Cardinality(Lost(task')) \in Nat
      /\ IsFiniteSet(Lost(task))
      /\ Lost(task') \subseteq Lost(task)
           => Cardinality(Lost(task')) <= Cardinality(Lost(task))
  <2>1. /\ IsFiniteSet(Lost(task)) /\ Cardinality(Lost(task)) \in Nat
        /\ Cardinality(Lost(task')) \in Nat
    BY SlotsFinite DEF Lost
  <2>2. Lost(task') \subseteq Lost(task) => Cardinality(Lost(task')) <= Cardinality(Lost(task))
    BY <2>1, FS_Subset
  <2> QED
    BY <2>1, <2>2 DEF IInv, TypeOK
<1>1. CASE \/ RetryFires
           \/ \E j \in Jobs : Submit(j) \/ Finish(j) \/ SpawnFails(j) \/ RunnerRaises(j)
  <2>1. UNCHANGED <<saves, limit, worker, faults, draining>>
    BY <1>1 DEF RetryFires, Submit, Finish, SpawnFails, RunnerRaises, FinallyBlock
  <2>2. /\ ~draining /\ queue' # <<>> /\ ~retry' => Cardinality(Slots(task')) >= limit
        /\ ~draining /\ Slots(task') = {} =>
             lock' # "panel" \/ (Slots(task) = {} /\ lock' = lock)
        /\ Lost(task') \subseteq Lost(task)
    BY <1>1, DispatchStepPool
  <2> QED
    BY <1>0, <2>1, <2>2 DEF WInv
<1>2. ASSUME NEW j \in Jobs, CoroutineDies(j)
      PROVE  WInv'
  <2>1. /\ UNCHANGED <<saves, limit, worker, draining, queue, retry, lock>>
        /\ faults' = faults + 1 /\ task[j] # "none"
        /\ task' = [task EXCEPT ![j] = "lost"]
    BY <1>2 DEF CoroutineDies, Live
  <2>2. Slots(task') = Slots(task) /\ Lost(task') = Lost(task) \cup {j}
    BY <1>0, <2>1 DEF Slots, Lost
  <2>3. Cardinality(Lost(task')) <= Cardinality(Lost(task)) + 1
    <3>1. Cardinality(Lost(task) \cup {j})
            = IF j \in Lost(task) THEN Cardinality(Lost(task)) ELSE Cardinality(Lost(task)) + 1
      BY <1>0, FS_AddElement
    <3> QED
      BY <1>0, <2>2, <3>1
  <2>4. UNCHANGED <<saves, limit, worker, draining, queue, retry, lock>>
        /\ faults' = faults + 1
    BY <2>1
  <2> QED
    BY <1>0, <2>2, <2>3, <2>4 DEF WInv
<1>3. ASSUME NEW j \in Jobs, Spawn(j) \/ ChildExits(j)
      PROVE  WInv'
  <2>1. /\ UNCHANGED <<saves, limit, worker, draining, queue, retry, lock, faults>>
        /\ \A i \in Jobs : \/ task'[i] = task[i]
                           \/ /\ task[i] \in {"created", "running"}
                              /\ task'[i] \in {"running", "exited"}
    BY <1>0, <1>3 DEF Spawn, ChildExits
  <2>2. Slots(task') = Slots(task) /\ Lost(task') \subseteq Lost(task)
    BY <2>1 DEF Slots, Lost
  <2> QED
    BY <1>0, <2>1, <2>2 DEF WInv
<1>4. ASSUME NEW j \in Jobs, CancelQueued(j)
      PROVE  WInv'
  <2>1. UNCHANGED <<saves, limit, worker, draining, task, retry, lock, faults>>
    BY <1>4 DEF CancelQueued
  <2>2. queue # <<>>
    BY <1>4, <1>0 DEF CancelQueued
  <2> QED
    BY <2>1, <2>2 DEF WInv
<1>5. CASE DrainEnds \/ AbruptStop
  <2>1. /\ queue' = <<>> /\ task' = [i \in Jobs |-> "none"] /\ worker' = "idle"
        /\ lock' # "panel" /\ UNCHANGED <<limit, saves, faults>>
    BY <1>5 DEF DrainEnds, AbruptStop, PanelStops
  <2>2. Lost(task') \subseteq Lost(task)
    BY <2>1 DEF Lost
  <2> QED
    BY <1>0, <2>1, <2>2 DEF WInv
<1>6. CASE \E n \in 0..(MaxLimit + 1) : SettingsSave(n)
  BY <1>0, <1>6 DEF SettingsSave, WInv
<1>7. CASE WorkerPops
  BY <1>0, <1>7 DEF WorkerPops, WInv
<1>8. CASE ExternalBegins \/ ExternalEnds
  <2>1. /\ UNCHANGED <<saves, limit, worker, draining, queue, task, retry, faults>>
        /\ lock' # "panel"
    BY <1>8 DEF ExternalBegins, ExternalEnds, memory
  <2> QED
    BY <2>1 DEF WInv
<1>9. ASSUME \/ Boot \/ UNCHANGED vars
             \/ \E j \in Jobs : SubmitLeavesRow(j) \/ CancelRunning(j) \/ CancelSettles(j)
      PROVE  WInv'
  <2>1. UNCHANGED <<saves, limit, worker, draining, queue, task, retry, lock, faults>>
    BY <1>9 DEF Boot, SubmitLeavesRow, CancelRunning, CancelSettles, vars, memory
  <2> QED
    BY <2>1 DEF WInv
<1>10. CASE Sighup
  BY <1>10 DEF Sighup, WInv
<1> QED
  BY <1>1, <1>2, <1>3, <1>4, <1>5, <1>6, <1>7, <1>8, <1>9, <1>10 DEF Next, JobStep

(* Until the first settings save, and while fewer coroutines have died     *)
(* than the pool has slots, a waiting job is never forgotten and an idle   *)
(* manager never keeps the lock (jobs.py:191-221, 287-293).  Both          *)
(* conditions are needed: a save loses the timer and a slot, and a pool    *)
(* full of dead coroutines has nobody left to call _dispatch.              *)
THEOREM NobodyForgotten == Spec => [](faults < DefaultLimit => NoLostWakeup)
<1>1. Init => RInv /\ WInv
  BY InitRInv, InitWInv
<1>2. IInv /\ IInv' /\ RInv /\ WInv /\ [Next]_vars => RInv' /\ WInv'
  BY StepRInv, StepWInv
<1>3. IInv /\ WInv => (faults < DefaultLimit => NoLostWakeup)
  <2> SUFFICES ASSUME IInv, WInv, saves = 0, faults < DefaultLimit
               PROVE  NoLostWakeup
    BY DEF NoLostWakeup
  <2>1. Slots(task) = Active /\ (Live = {} => Slots(task) = Lost(task))
    BY DEF Slots, Active, Live, Lost
  <2>2. Cardinality(Lost(task)) \in Nat /\ faults \in Nat /\ retry \in BOOLEAN
    BY SlotsFinite DEF Lost, IInv, TypeOK
  <2>3. ASSUME queue # <<>>, ~draining, ~retry, Live = {}
        PROVE  FALSE
    BY <2>1, <2>2, <2>3 DEF WInv
  <2>4. Active = {} /\ ~draining => lock # "panel"
    BY <2>1 DEF WInv
  <2> QED
    BY <2>3, <2>4 DEF NoLostWakeup
<1> QED
  BY <1>1, <1>2, <1>3, Invariance, PTL DEF Spec
=============================================================================
