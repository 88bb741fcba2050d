--------------------------- MODULE JobLogProofs ---------------------------
(***************************************************************************)
(* Safety of the logs of jobs and of their pages, for any number of jobs,  *)
(* pages, slots, lines and kept logs.                                      *)
(***************************************************************************)
EXTENDS JobLog, FiniteSetTheorems, SequenceTheorems, WellFoundedInduction, TLAPS

Marks == <<"finished", "DONE">>

(* The queue holds the queued jobs, each once. *)
QueueIn ==
  /\ \A i \in DOMAIN queue : phase[queue[i]] = "queued"
  /\ \A i, k \in DOMAIN queue : queue[i] = queue[k] => i = k

(* What the row says of a job, by where the job is. *)
Told ==
  \A j \in Jobs :
    /\ phase[j] = "none" <=> status[j] = "none"
    /\ phase[j] \in {"queued", "promoted", "orphan"} => status[j] = "queued"
    /\ phase[j] \in {"created", "dead"} => status[j] = "running"
    /\ phase[j] \in {"running", "abroad"} => status[j] \in {"running", "ended"}
    /\ phase[j] \in {"saved", "swept", "stuck", "purged", "over", "cancelled"} => status[j] = "ended"
    /\ phase[j] = "lost" /\ up => status[j] = "ended"
    /\ ~up => phase[j] \in {"none", "over", "cancelled", "abroad", "lost"}

(* What is in memory and in the row of the output of a job. *)
Kept ==
  \A j \in Jobs :
    /\ phase[j] \in {"none", "queued", "promoted", "created", "dead", "orphan", "abroad", "cancelled"} =>
         lines[j] = <<>> /\ text[j] = <<>>
    /\ phase[j] = "running" => lines[j] # <<>> /\ text[j] = <<>>
    /\ phase[j] \in {"saved", "swept", "stuck", "purged"} => lines[j] # <<>> /\ text[j] \in {<<>>, lines[j]}
    /\ phase[j] = "over" => lines[j] = <<>> \/ text[j] = <<>> \/ lines[j] = text[j] \o Marks

(* The end marker is the last line of a job that is over. *)
Marked ==
  \A j \in Jobs : \A i \in DOMAIN lines[j] :
    lines[j][i] = "DONE" => phase[j] = "over" /\ i = Len(lines[j])

(* A stream is that of a live page; a page that was told the end has it    *)
(* from a job that is over.                                                *)
Streams ==
  \A p \in Pages :
    /\ view[p] # "away" => job[p] \in Jobs
    /\ conn[p] # "none" => view[p] = "live"
    /\ conn[p] = "asked" => got[p] = <<>>
    /\ conn[p] = "fed" => got[p] \o fifo[p] = lines[job[p]]
    /\ view[p] = "finishing" /\ got[p] # <<>> => got[p] = lines[job[p]] /\ phase[job[p]] = "over"

(* What a page was rendered with is behind the row, never ahead of it. *)
Shown ==
  \A p \in Pages :
    /\ view[p] # "away" => status[job[p]] # "none"
    /\ view[p] = "row" => up /\ seen[p] # "none"
    /\ view[p] = "row" /\ seen[p] = "ended" => status[job[p]] = "ended"
    /\ view[p] = "row" /\ seen[p] = "running" => status[job[p]] \in {"running", "ended"}
    /\ view[p] = "static" => status[job[p]] = "ended" \/ phase[job[p]] = "abroad"

IInv ==
  /\ TypeOK
  /\ QueueIn
  /\ Told
  /\ Kept
  /\ Marked
  /\ Streams
  /\ Shown
  /\ RecentLogsStored
  /\ StoredLogsBounded

-----------------------------------------------------------------------------
(* Sequences and sets *)

LEMMA RemoveAtProperties ==
  ASSUME NEW q \in Seq(Jobs), NEW i \in DOMAIN q
  PROVE  /\ RemoveAt(q, i) \in Seq(Jobs)
         /\ Len(RemoveAt(q, i)) = Len(q) - 1
         /\ \A k \in 1..Len(q) - 1 : RemoveAt(q, i)[k] = IF k < i THEN q[k] ELSE q[k + 1]
<1> DEFINE a == SubSeq(q, 1, i - 1)
           b == SubSeq(q, i + 1, Len(q))
<1>0. i \in Nat /\ 1 <= i /\ i <= Len(q) /\ Len(q) \in Nat
      /\ \A k \in 1..Len(q) : q[k] \in Jobs
  OBVIOUS
<1>1. a \in Seq(Jobs) /\ Len(a) = i - 1 /\ \A k \in 1..Len(a) : a[k] = q[k]
  BY <1>0
<1>2. b \in Seq(Jobs) /\ Len(b) = Len(q) - i /\ \A k \in 1..Len(b) : b[k] = q[k + i]
  <2>1. i + 1 \in Int /\ Len(q) \in Int /\ \A k \in i + 1..Len(q) : q[k] \in Jobs
    BY <1>0
  <2>2. /\ b \in Seq(Jobs)
        /\ Len(b) = IF i + 1 <= Len(q) THEN Len(q) - (i + 1) + 1 ELSE 0
        /\ \A k \in 1..Len(q) - (i + 1) + 1 : b[k] = q[i + 1 + k - 1]
    <3> HIDE DEF b
    <3> QED BY <2>1, SubSeqProperties DEF b
  <2> HIDE DEF a, b
  <2>3. Len(b) = Len(q) - i /\ Len(q) - (i + 1) + 1 = Len(q) - i
    BY <1>0, <2>2
  <2>4. \A k \in 1..Len(b) : i + 1 + k - 1 = k + i
    BY <1>0, <2>3
  <2> QED BY <2>2, <2>3, <2>4
<1> HIDE DEF a, b
<1>3. /\ a \o b \in Seq(Jobs) /\ Len(a \o b) = Len(a) + Len(b)
      /\ \A k \in 1..Len(a) + Len(b) : (a \o b)[k] = IF k <= Len(a) THEN a[k] ELSE b[k - Len(a)]
  BY <1>1, <1>2, ConcatProperties
<1>4. ASSUME NEW k \in 1..Len(q) - 1
      PROVE  (a \o b)[k] = IF k < i THEN q[k] ELSE q[k + 1]
  <2>1. CASE k < i
    <3>1. k \in 1..Len(a) /\ k <= Len(a)
      BY <2>1, <1>0, <1>1
    <3>2. k \in 1..Len(a) + Len(b)
      BY <1>0, <1>1, <1>2
    <3>3. (a \o b)[k] = a[k]
      BY <3>1, <3>2, <1>3
    <3> QED BY <3>1, <3>3, <2>1, <1>1
  <2>2. CASE ~(k < i)
    <3>1. k - Len(a) \in 1..Len(b) /\ ~(k <= Len(a)) /\ k - Len(a) + i = k + 1
      BY <2>2, <1>0, <1>1, <1>2
    <3>2. k \in 1..Len(a) + Len(b)
      BY <1>0, <1>1, <1>2
    <3>3. (a \o b)[k] = b[k - Len(a)]
      BY <3>1, <3>2, <1>3
    <3> QED BY <3>1, <3>3, <2>2, <1>2
  <2> QED BY <2>1, <2>2
<1>5. RemoveAt(q, i) = a \o b
  BY DEF RemoveAt, a, b
<1>6. a \o b \in Seq(Jobs) /\ Len(a \o b) = Len(q) - 1
  BY <1>0, <1>1, <1>2, <1>3
<1> QED BY <1>4, <1>5, <1>6

LEMMA Touching ==
  ASSUME TypeOK, NEW i \in DOMAIN dirs
  PROVE  Touched(i) \in Seq(Jobs)
<1>1. dirs \in Seq(Jobs) /\ dirs[i] \in Jobs /\ RemoveAt(dirs, i) \in Seq(Jobs)
  BY RemoveAtProperties DEF TypeOK
<1> HIDE DEF RemoveAt
<1> QED BY <1>1, AppendProperties DEF Touched

(* At most n members of a finite set of numbers have fewer than n above.   *)
LEMMA Newest ==
  ASSUME NEW R \in SUBSET Jobs, NEW n \in Nat \ {0}
  PROVE  LET top == {j \in R : Cardinality({i \in R : i > j}) < n}
         IN  IsFiniteSet(top) /\ Cardinality(top) <= n
<1> DEFINE top == {j \in R : Cardinality({i \in R : i > j}) < n}
<1>1. IsFiniteSet(Jobs) /\ Jobs \subseteq Nat
  BY LogAssumption, FS_Interval DEF Jobs
<1>2. IsFiniteSet(R) /\ IsFiniteSet(top)
  <2>1. R \in SUBSET Jobs /\ top \in SUBSET R
    OBVIOUS
  <2> QED BY <2>1, <1>1, FS_Subset
<1>3. CASE top = {}
  <2> HIDE DEF top
  <2>1. IsFiniteSet(top) /\ Cardinality(top) = 0
    BY <1>3, FS_EmptySet
  <2> QED BY <2>1 DEF top
<1>4. CASE top # {}
  <2> DEFINE below(j) == {i \in R : i < j}
             lows == {below(j) : j \in top}
  <2>1. PICK m \in top : \A y \in top : ~(y < m)
    <3>1. IsWellFoundedOn(StrictSubsetOrdering(R), SUBSET R)
      BY <1>2, FS_StrictSubsetOrderingWellFounded, FS_FiniteSubsetsOfFinite
    <3>2. lows \subseteq SUBSET R /\ lows # {}
      BY <1>4
    <3>3. \E x \in lows : \A y \in lows : ~(<<y, x>> \in StrictSubsetOrdering(R))
      <4> HIDE DEF lows
      <4> QED BY <3>1, <3>2, WFMin
    <3>4. PICK m \in top : \A y \in top : ~(<<below(y), below(m)>> \in StrictSubsetOrdering(R))
      BY <3>3
    <3>5. ASSUME NEW y \in top, y < m
          PROVE  <<below(y), below(m)>> \in StrictSubsetOrdering(R)
      <4>1. y \in R /\ m \in R /\ R \subseteq Nat
        BY <1>1
      <4>2. below(y) \subseteq below(m)
        <5> SUFFICES ASSUME NEW i \in R, i < y PROVE i < m
          OBVIOUS
        <5>1. i \in Nat /\ y \in Nat /\ m \in Nat
          BY <4>1
        <5> QED BY <5>1, <3>5
      <4>3. y \in below(m) /\ y \notin below(y)
        BY <3>5, <4>1
      <4>4. below(y) \in SUBSET R /\ below(m) \in SUBSET R
        OBVIOUS
      <4> HIDE DEF below
      <4> QED BY <4>2, <4>3, <4>4 DEF StrictSubsetOrdering
    <3> QED BY <3>4, <3>5
  <2> HIDE DEF below, lows
  <2>2. m \in R /\ \A y \in top : y \in R /\ y >= m
    BY <2>1, <1>1
  <2> DEFINE above == {i \in R : i > m}
  <2>3. IsFiniteSet(above) /\ Cardinality(above) \in Nat /\ Cardinality(above) < n
    <3>1. above \in SUBSET R /\ Cardinality(above) < n
      OBVIOUS
    <3> QED BY <3>1, <1>2, FS_Subset, FS_CardinalityType
  <2>4. top \in SUBSET (above \cup {m})
    <3>1. \A y \in top : y \in above \/ y = m
      BY <2>2, <1>1
    <3> HIDE DEF top, above
    <3> QED BY <3>1
  <2> HIDE DEF top, above
  <2>5. /\ IsFiniteSet(above \cup {m})
        /\ Cardinality(above \cup {m}) <= Cardinality(above) + 1
        /\ Cardinality(above \cup {m}) \in Nat
    <3>1. /\ IsFiniteSet(above \cup {m})
          /\ Cardinality(above \cup {m}) = IF m \in above THEN Cardinality(above) ELSE Cardinality(above) + 1
      BY <2>3, FS_AddElement
    <3> QED BY <2>3, <3>1
  <2>6. Cardinality(top) <= Cardinality(above \cup {m}) /\ Cardinality(top) \in Nat
    BY <2>4, <2>5, <1>2, FS_Subset, FS_CardinalityType
  <2> QED BY <1>2, <2>3, <2>5, <2>6 DEF top
<1> QED BY <1>3, <1>4

LEMMA Texts ==
  /\ <<>> \in Text /\ <<"cmd">> \in Text /\ <<"out">> \in Text /\ <<"error">> \in Text
  /\ Marks \in Text
BY DEF Text, Line, Marks

LEMMA MarkLast ==
  ASSUME NEW s \in Text, \A i \in DOMAIN s : s[i] # "DONE"
  PROVE  \A i \in DOMAIN (s \o Marks) : (s \o Marks)[i] = "DONE" => i = Len(s \o Marks)
<1>1. s \in Seq(Line) /\ Marks \in Seq(Line) /\ Len(Marks) = 2 /\ Marks[1] # "DONE"
  BY Texts DEF Text, Marks
<1> DEFINE t == s \o Marks
           n == Len(s)
<1> HIDE DEF Marks
<1>2. /\ t \in Seq(Line) /\ Len(t) = Len(s) + Len(Marks)
      /\ \A i \in 1..Len(s) + Len(Marks) : t[i] = IF i <= Len(s) THEN s[i] ELSE Marks[i - Len(s)]
  BY <1>1, ConcatProperties
<1>3. n \in Nat /\ DOMAIN s = 1..n /\ DOMAIN t = 1..n + 2 /\ Len(t) = n + 2
  BY <1>1, <1>2, LenProperties
<1>4. \A i \in 1..n : t[i] = s[i]
  BY <1>1, <1>2, <1>3
<1>5. t[n + 1] = Marks[1]
  <2>1. n + 1 \in 1..Len(s) + Len(Marks) /\ ~(n + 1 <= Len(s)) /\ n + 1 - Len(s) = 1
    BY <1>1, <1>3
  <2> QED BY <1>2, <2>1
<1> HIDE DEF t, n
<1>6. \A i \in 1..n + 2 : i \in 1..n \/ i = n + 1 \/ i = n + 2
  BY <1>3
<1>7. \A i \in DOMAIN t : t[i] = "DONE" => i = Len(t)
  BY <1>1, <1>3, <1>4, <1>5, <1>6
<1> QED BY <1>7 DEF t

LEMMA TextAssociative ==
  \A s, t, u \in Text : (s \o t) \o u = s \o (t \o u)
<1> SUFFICES ASSUME NEW s \in Seq(Line), NEW t \in Seq(Line), NEW u \in Seq(Line)
             PROVE  (s \o t) \o u = s \o (t \o u)
  BY DEF Text
<1> QED BY ConcatAssociative

LEMMA HeadMoves ==
  ASSUME NEW g \in Text, NEW f \in Text, f # <<>>
  PROVE  /\ Append(g, Head(f)) \o Tail(f) = g \o f
         /\ Len(g \o f) = Len(g) + Len(f) /\ Len(g) \in Nat /\ Len(f) \in Nat /\ Len(f) >= 1
         /\ (g \o f)[Len(g) + 1] = Head(f)
         /\ Len(f) = 1 => Append(g, Head(f)) = g \o f
<1>1. /\ g \in Seq(Line) /\ f \in Seq(Line) /\ Head(f) \in Line /\ Tail(f) \in Seq(Line)
      /\ Len(f) \in Nat \ {0} /\ Len(Tail(f)) = Len(f) - 1 /\ Head(f) = f[1] /\ Len(g) \in Nat
  BY HeadTailProperties, EmptySeq DEF Text
<1>2. <<Head(f)>> \in Seq(Line) /\ <<Head(f)>> \o Tail(f) = f
  BY <1>1
<1>3. Append(g, Head(f)) = g \o <<Head(f)>>
  BY <1>1, AppendIsConcat
<1>4. (g \o <<Head(f)>>) \o Tail(f) = g \o (<<Head(f)>> \o Tail(f))
  BY <1>1, <1>2, ConcatAssociative
<1>5. Append(g, Head(f)) \o Tail(f) = g \o f
  BY <1>2, <1>3, <1>4
<1>6. Len(g \o f) = Len(g) + Len(f) /\ (g \o f)[Len(g) + 1] = Head(f)
  <2>1. /\ Len(g \o f) = Len(g) + Len(f)
        /\ \A i \in 1..Len(g) + Len(f) : (g \o f)[i] = IF i <= Len(g) THEN g[i] ELSE f[i - Len(g)]
    BY <1>1, ConcatProperties
  <2>2. Len(g) + 1 \in 1..Len(g) + Len(f) /\ ~(Len(g) + 1 <= Len(g)) /\ Len(g) + 1 - Len(g) = 1
    BY <1>1
  <2> QED BY <1>1, <2>1, <2>2
<1>7. ASSUME Len(f) = 1
      PROVE  Append(g, Head(f)) = g \o f
  <2>1. Tail(f) = <<>>
    <3>1. Len(Tail(f)) = 0 /\ Tail(f) \in Seq(Line)
      BY <1>1, <1>7
    <3> QED BY <3>1, EmptySeq
  <2>2. Append(g, Head(f)) \in Seq(Line)
    BY <1>1, AppendProperties
  <2> QED BY <1>5, <2>1, <2>2, ConcatEmptySeq
<1> QED BY <1>1, <1>5, <1>6, <1>7

(* What publish() does to the log and to the queues. *)
LEMMA PublishTyped ==
  ASSUME TypeOK, NEW j \in Jobs, NEW ls \in Text, Publish(j, ls)
  PROVE  /\ lines' \in [Jobs -> Text] /\ fifo' \in [Pages -> Text]
         /\ lines'[j] = lines[j] \o ls
         /\ \A i \in Jobs : i # j => lines'[i] = lines[i]
         /\ \A p \in Pages :
              fifo'[p] = IF conn[p] = "fed" /\ job[p] = j THEN fifo[p] \o ls ELSE fifo[p]
         /\ UNCHANGED <<conn, got>>
<1>1. lines[j] \o ls \in Text
  BY ConcatProperties DEF TypeOK, Text
<1>2. \A p \in Pages : fifo[p] \o ls \in Text
  BY ConcatProperties DEF TypeOK, Text
<1> QED BY <1>1, <1>2 DEF TypeOK, Publish, KeptLines

LEMMA NewestDirsTyped ==
  ASSUME NEW ds \in Seq(Jobs)
  PROVE  NewestDirs(ds) \in Seq(Jobs)
BY LogAssumption DEF NewestDirs

LEMMA PurgedTextsTyped ==
  ASSUME TypeOK
  PROVE  /\ PurgedTexts \in [Jobs -> Text]
         /\ \A j \in Jobs : PurgedTexts[j] = IF Recent(j) THEN text[j] ELSE <<>>
BY Texts DEF TypeOK, PurgedTexts

-----------------------------------------------------------------------------
LEMMA InitEstablishes == Init => IInv
<1> SUFFICES ASSUME Init PROVE IInv
  OBVIOUS
<1> USE DEF Init
<1>1. TypeOK
  BY Texts, LogAssumption DEF TypeOK, Phases
<1>2. QueueIn /\ Told /\ Kept /\ Marked /\ Streams /\ Shown
  BY DEF QueueIn, Told, Kept, Marked, Streams, Shown
<1>3. RecentLogsStored
  BY DEF RecentLogsStored
<1>4. StoredLogsBounded
  <2>1. {j \in Jobs : text[j] # <<>> /\ phase[j] \notin {"saved", "swept", "stuck", "lost"}} = {}
    OBVIOUS
  <2>2. Cardinality({}) <= Keep
    BY FS_EmptySet, LogAssumption
  <2> QED BY <2>1, <2>2, Zenon DEF StoredLogsBounded
<1> QED BY <1>1, <1>2, <1>3, <1>4 DEF IInv

(* A step of a job that publishes: which lines, and on what condition. *)
LEMMA Publishers ==
  ASSUME NEW j \in Jobs, OpenLog(j) \/ Output(j) \/ Over(j)
                         \/ \E failure \in {<<>>, <<"error">>} : Finalize(j, failure)
  PROVE  \/ \E ls \in Text : Publish(j, ls)
         \/ UNCHANGED <<lines, wires>>
BY Texts DEF OpenLog, Output, Over, Finalize, Marks

LEMMA TypePreserved ==
  ASSUME TypeOK, Streams, Next
  PROVE  TypeOK'
<1> USE DEF TypeOK, jobvars, store, tabs, wires, faults
<1>1. ASSUME NEW j \in Jobs, Submit(j)
      PROVE  TypeOK'
  BY <1>1 DEF Submit, NextRow, Phases
<1>2. ASSUME NEW j \in Jobs, WriteRunning(j)
      PROVE  TypeOK'
  BY <1>2 DEF WriteRunning, Phases
<1>3. ASSUME NEW j \in Jobs, OpenLog(j)
      PROVE  TypeOK'
  <2>1. lines' \in [Jobs -> Text] /\ fifo' \in [Pages -> Text] /\ UNCHANGED <<conn, got>>
    BY <1>3, Publishers, PublishTyped
  <2>2. dirs' \in Seq(Jobs)
    BY <1>3, Touching DEF OpenLog
  <2>3. phase' \in [Jobs -> Phases] /\ UNCHANGED <<queue, status, text, tabs, up, faults>>
    BY <1>3 DEF OpenLog, Phases
  <2> QED BY <2>1, <2>2, <2>3
<1>4. ASSUME NEW j \in Jobs, Output(j)
      PROVE  TypeOK'
  <2>1. lines' \in [Jobs -> Text] /\ fifo' \in [Pages -> Text] /\ UNCHANGED <<conn, got>>
    BY <1>4, Publishers, PublishTyped
  <2> QED BY <1>4, <2>1 DEF Output
<1>5. ASSUME NEW j \in Jobs, NEW failure \in {<<>>, <<"error">>}, Finalize(j, failure)
      PROVE  TypeOK'
  <2>1. lines' \in [Jobs -> Text] /\ fifo' \in [Pages -> Text] /\ UNCHANGED <<conn, got>>
    BY <1>5, Publishers, PublishTyped
  <2>2. /\ phase' \in [Jobs -> Phases] /\ text' \in [Jobs -> Text]
        /\ status' \in [Jobs -> {"none", "queued", "running", "ended"}]
        /\ UNCHANGED <<queue, dirs, tabs, up, faults>>
    BY <1>5, <2>1 DEF Finalize, Phases
  <2> QED BY <2>1, <2>2
<1>6. ASSUME NEW j \in Jobs, Sweep(j)
      PROVE  TypeOK'
  <2>1. \A i \in DOMAIN dirs : Touched(i) \in Seq(Jobs)
    BY Touching
  <2>2. dirs' \in Seq(Jobs)
    BY <1>6, <2>1, NewestDirsTyped DEF Sweep
  <2>3. phase' \in [Jobs -> Phases] /\ UNCHANGED <<queue, lines, status, text, tabs, wires, up, faults>>
    BY <1>6 DEF Sweep, Phases
  <2> QED BY <2>2, <2>3
<1>7. ASSUME NEW j \in Jobs, Purge(j)
      PROVE  TypeOK'
  <2>1. text' \in [Jobs -> Text]
    BY <1>7, PurgedTextsTyped DEF Purge
  <2> QED BY <1>7, <2>1 DEF Purge, Phases
<1>8. ASSUME NEW j \in Jobs, Over(j)
      PROVE  TypeOK'
  <2>1. lines' \in [Jobs -> Text] /\ fifo' \in [Pages -> Text] /\ UNCHANGED <<conn, got>>
    BY <1>8, Publishers, PublishTyped
  <2> QED BY <1>8, <2>1 DEF Over, Phases
<1>9. ASSUME NEW j \in Jobs, Cancel(j)
      PROVE  TypeOK'
  <2>1. \A i \in DOMAIN queue : RemoveAt(queue, i) \in Seq(Jobs)
    BY RemoveAtProperties
  <2>2. queue' \in Seq(Jobs)
    BY <1>9, <2>1 DEF Cancel
  <2>3. phase' \in [Jobs -> Phases]
    BY <1>9 DEF Cancel, Phases
  <2> QED BY <1>9, <2>2, <2>3 DEF Cancel
<1>10. CASE Promote
  <2>1. queue # <<>> /\ queue' = Tail(queue) /\ phase' = [phase EXCEPT ![Head(queue)] = "promoted"]
        /\ UNCHANGED <<lines, status, store, tabs, wires, up, faults>>
    BY <1>10 DEF Promote, Promotable
  <2>2. queue' \in Seq(Jobs)
    BY <2>1, HeadTailProperties
  <2>3. phase' \in [Jobs -> Phases]
    BY <2>1 DEF Phases
  <2> QED BY <2>1, <2>2, <2>3
<1>11. CASE Crash
  <2>1. phase' \in [Jobs -> Phases] /\ lines' \in [Jobs -> Text] /\ queue' \in Seq(Jobs)
    BY <1>11, Texts DEF Crash, Phases
  <2>2. /\ view' \in [Pages -> {"away", "row", "live", "queued", "finishing", "static"}]
        /\ conn' \in [Pages -> {"none", "asked", "fed"}]
        /\ fifo' \in [Pages -> Text] /\ got' \in [Pages -> Text]
    BY <1>11, Texts DEF Crash
  <2>3. up' \in BOOLEAN /\ crashes' \in 0..MaxCrashes /\ UNCHANGED <<status, store, job, seen, drops>>
    <3>1. crashes \in 0..MaxCrashes /\ MaxCrashes \in Nat
      BY LogAssumption
    <3>2. crashes < MaxCrashes /\ crashes' = crashes + 1 /\ up' = FALSE
      BY <1>11 DEF Crash
    <3>3. UNCHANGED <<status, store, job, seen, drops>>
      BY <1>11 DEF Crash
    <3>4. crashes' \in 0..MaxCrashes
      BY <3>1, <3>2
    <3> HIDE DEF TypeOK, store
    <3> QED BY <3>2, <3>3, <3>4, Zenon
  <2> QED BY <2>1, <2>2, <2>3
<1>12. CASE Restart
  BY <1>12 DEF Restart
<1>13. CASE ChildSweeps
  BY <1>13, NewestDirsTyped DEF ChildSweeps
<1>14. CASE ChildPurges
  BY <1>14, PurgedTextsTyped DEF ChildPurges
<1>15. ASSUME NEW p \in Pages, NEW j \in Jobs, Open(p, j)
       PROVE  TypeOK'
  BY <1>15 DEF Open, ReadRow
<1>16. ASSUME NEW p \in Pages, Render(p) \/ Connect(p)
       PROVE  TypeOK'
  BY <1>16, Texts DEF Render, Connect
<1>17. ASSUME NEW p \in Pages, Drop(p)
       PROVE  TypeOK'
  BY <1>17, Texts, LogAssumption DEF Drop
<1>18. ASSUME NEW p \in Pages, Reload(p)
       PROVE  TypeOK'
  <2>1. view[p] \in {"queued", "finishing"} /\ job[p] \in Jobs
    BY <1>18 DEF Reload, Streams
  <2>2. CASE ReadRow(p, job[p])
    BY <2>1, <2>2 DEF ReadRow
  <2>3. CASE view' = [view EXCEPT ![p] = "away"] /\ UNCHANGED <<jobvars, store, job, seen, wires, up, faults>>
    BY <2>3
  <2> QED BY <1>18, <2>2, <2>3 DEF Reload
<1>19. ASSUME NEW p \in Pages, Subscribe(p)
       PROVE  TypeOK'
  BY <1>19 DEF Subscribe, Backlog, Streams
<1>20. ASSUME NEW p \in Pages, Feed(p)
       PROVE  TypeOK'
  <2>1. fifo[p] # <<>> /\ fifo[p] \in Text /\ got[p] \in Text
    BY <1>20 DEF Feed
  <2>2. Head(fifo[p]) \in Line /\ Tail(fifo[p]) \in Text
    BY <2>1, HeadTailProperties DEF Text
  <2>3. Append(got[p], Head(fifo[p])) \in Text
    BY <2>1, <2>2, AppendProperties DEF Text
  <2>4. /\ got' \in [Pages -> Text] /\ UNCHANGED <<jobvars, store, job, seen, up, faults>>
        /\ conn' = [conn EXCEPT ![p] = "none"] \/ conn' = conn
        /\ view' = [view EXCEPT ![p] = "finishing"] \/ view' = view
    BY <1>20, <2>3 DEF Feed
  <2>5. fifo' \in [Pages -> Text]
    BY <1>20, <2>2, Texts DEF Feed
  <2> QED BY <2>4, <2>5
<1>21. ASSUME NEW j \in Jobs, SubmitLeavesRow(j) \/ AbroadBegins(j)
       PROVE  TypeOK'
  <2>1. Append(dirs, j) \in Seq(Jobs) /\ {"orphan", "abroad"} \subseteq Phases
    BY AppendProperties DEF Phases
  <2>2. CASE SubmitLeavesRow(j)
    BY <2>1, <2>2 DEF SubmitLeavesRow
  <2>3. CASE AbroadBegins(j)
    BY <2>1, <2>3 DEF AbroadBegins
  <2> QED BY <1>21, <2>2, <2>3
<1>22. ASSUME NEW j \in Jobs, AbroadEnds(j)
       PROVE  TypeOK'
  <2>1. dirs' \in Seq(Jobs)
    BY <1>22, Touching DEF AbroadEnds
  <2> QED BY <1>22, <2>1 DEF AbroadEnds
<1>23. ASSUME NEW j \in Jobs, HousekeepingRaises(j)
       PROVE  TypeOK'
  <2>1. dirs' \in Seq(Jobs)
    BY <1>23, NewestDirsTyped DEF HousekeepingRaises
  <2>2. phase' \in [Jobs -> Phases] /\ UNCHANGED <<queue, lines, status, text, tabs, wires, up, faults>>
    BY <1>23 DEF HousekeepingRaises, Phases
  <2> QED BY <2>1, <2>2
<1> QED
  BY <1>1, <1>2, <1>3, <1>4, <1>5, <1>6, <1>7, <1>8, <1>9, <1>10, <1>11, <1>12, <1>13, <1>14,
     <1>15, <1>16, <1>17, <1>18, <1>19, <1>20, <1>21, <1>22, <1>23 DEF Next, JobStep, TabStep

-----------------------------------------------------------------------------
(* Rows and queue *)

LEMMA RowsPreserved ==
  ASSUME TypeOK, QueueIn, Told, Next
  PROVE  QueueIn' /\ Told'
<1> USE DEF TypeOK, jobvars, store, tabs, wires, faults
<1>1. ASSUME NEW j \in Jobs, Submit(j)
      PROVE  QueueIn' /\ Told'
  <2>1. /\ status[j] = "none" /\ phase[j] = "none" /\ up /\ up' = up
        /\ phase' = [phase EXCEPT ![j] = "queued"] /\ status' = [status EXCEPT ![j] = "queued"]
        /\ queue' = Append(queue, j)
    BY <1>1 DEF Submit, NextRow, LoopFree, Told
  <2>2. /\ Len(queue') = Len(queue) + 1 /\ Len(queue) \in Nat /\ queue' \in Seq(Jobs)
        /\ \A i \in 1..Len(queue) : queue'[i] = queue[i]
        /\ queue'[Len(queue) + 1] = j
    BY <2>1, AppendProperties
  <2>3. \A i \in 1..Len(queue) : queue[i] \in Jobs /\ queue[i] # j /\ phase[queue[i]] = "queued"
    BY <2>1 DEF QueueIn
  <2>4. \A i \in DOMAIN queue' : phase'[queue'[i]] = "queued"
    BY <2>1, <2>2, <2>3
  <2>5. \A i, k \in DOMAIN queue' : queue'[i] = queue'[k] => i = k
    <3> SUFFICES ASSUME NEW i \in 1..Len(queue) + 1, NEW k \in 1..Len(queue) + 1, queue'[i] = queue'[k]
                 PROVE  i = k
      BY <2>2
    <3>1. i \in 1..Len(queue) \/ i = Len(queue) + 1
      BY <2>2
    <3>2. k \in 1..Len(queue) \/ k = Len(queue) + 1
      BY <2>2
    <3>3. CASE i \in 1..Len(queue) /\ k \in 1..Len(queue)
      <4>1. queue[i] = queue[k] /\ DOMAIN queue = 1..Len(queue)
        BY <2>2, <3>3
      <4> QED BY <3>3, <4>1, Zenon DEF QueueIn
    <3>4. \A m \in 1..Len(queue) : queue'[m] # queue'[Len(queue) + 1]
      BY <2>2, <2>3
    <3>5. CASE i = Len(queue) + 1 \/ k = Len(queue) + 1
      BY <3>1, <3>2, <3>4, <3>5
    <3> QED BY <3>1, <3>2, <3>3, <3>5, Zenon
  <2> QED BY <2>1, <2>4, <2>5 DEF Told, QueueIn
<1>2. CASE Promote
  <2>1. /\ queue # <<>> /\ up /\ up' = up /\ status' = status
        /\ phase' = [phase EXCEPT ![Head(queue)] = "promoted"] /\ queue' = Tail(queue)
    BY <1>2 DEF Promote, Promotable
  <2>2. Head(queue) \in Jobs /\ Head(queue) = queue[1] /\ phase[queue[1]] = "queued"
    BY <2>1 DEF QueueIn
  <2>3. /\ Len(queue') = Len(queue) - 1 /\ Len(queue) \in Nat
        /\ \A i \in DOMAIN queue' : i + 1 \in DOMAIN queue /\ queue'[i] = queue[i + 1]
    BY <2>1
  <2>4. \A i \in DOMAIN queue' :
          queue'[i] = queue[i + 1] /\ i + 1 \in DOMAIN queue /\ i + 1 # 1 /\ 1 \in DOMAIN queue
    BY <2>1, <2>3
  <2>5. \A i \in DOMAIN queue' : queue'[i] # queue[1] /\ queue'[i] \in Jobs /\ phase[queue'[i]] = "queued"
    BY <2>4 DEF QueueIn
  <2>6. \A i \in DOMAIN queue' : phase'[queue'[i]] = "queued"
    BY <2>1, <2>2, <2>5
  <2>7. \A i, k \in DOMAIN queue' : queue'[i] = queue'[k] => i = k
    <3> SUFFICES ASSUME NEW i \in DOMAIN queue', NEW k \in DOMAIN queue', queue'[i] = queue'[k]
                 PROVE  i = k
      OBVIOUS
    <3>1. i + 1 = k + 1
      BY <2>4 DEF QueueIn
    <3>2. i \in Nat /\ k \in Nat
      BY <2>1
    <3> QED BY <3>1, <3>2
  <2> QED BY <2>1, <2>2, <2>6, <2>7 DEF Told, QueueIn
<1>3. ASSUME NEW j \in Jobs, WriteRunning(j)
      PROVE  QueueIn' /\ Told'
  <2>1. /\ phase[j] = "promoted" /\ UNCHANGED <<queue, up>>
        /\ phase' = [phase EXCEPT ![j] = "created"] /\ status' = [status EXCEPT ![j] = "running"]
    BY <1>3 DEF WriteRunning
  <2>2. QueueIn'
    BY <2>1 DEF QueueIn
  <2>3. /\ phase'[j] = "created" /\ status'[j] = "running" /\ (~up => phase[j] # "promoted")
        /\ \A i \in Jobs : i # j => phase'[i] = phase[i] /\ status'[i] = status[i]
    BY <2>1 DEF Told
  <2>4. Told'
    <3> HIDE DEF TypeOK
    <3> QED BY <2>1, <2>3 DEF Told
  <2> QED BY <2>2, <2>4
<1>4. ASSUME NEW j \in Jobs, OpenLog(j)
      PROVE  QueueIn' /\ Told'
  <2>1. /\ up /\ up' = up /\ phase[j] = "created" /\ UNCHANGED <<queue, status>>
        /\ phase' = [phase EXCEPT ![j] = "running"] \/ phase' = [phase EXCEPT ![j] = "dead"]
    BY <1>4 DEF OpenLog, LoopFree
  <2> QED BY <2>1 DEF QueueIn, Told
<1>5. ASSUME NEW j \in Jobs, NEW failure, Finalize(j, failure)
      PROVE  QueueIn' /\ Told'
  <2>1. /\ up /\ up' = up /\ phase[j] = "running" /\ queue' = queue
        /\ phase' = [phase EXCEPT ![j] = "saved"] /\ status' = [status EXCEPT ![j] = "ended"]
    BY <1>5 DEF Finalize, LoopFree
  <2> QED BY <2>1 DEF QueueIn, Told
<1>6. ASSUME NEW j \in Jobs, Sweep(j) \/ HousekeepingRaises(j) \/ Purge(j) \/ Over(j)
      PROVE  QueueIn' /\ Told'
  <2>1. /\ up /\ up' = up /\ phase[j] \in {"saved", "swept", "purged"} /\ UNCHANGED <<queue, status>>
        /\ \E f \in {"swept", "stuck", "purged", "over"} : phase' = [phase EXCEPT ![j] = f]
    BY <1>6 DEF Sweep, HousekeepingRaises, Purge, Over
  <2> QED BY <2>1 DEF QueueIn, Told
<1>7. ASSUME NEW j \in Jobs, Cancel(j)
      PROVE  QueueIn' /\ Told'
  <2>1. up /\ up' = up /\ status' = [status EXCEPT ![j] = "ended"]
    BY <1>7 DEF Cancel, LoopFree
  <2>2. CASE phase[j] = "running" /\ UNCHANGED <<phase, queue>>
    BY <2>1, <2>2 DEF QueueIn, Told
  <2>3. ASSUME NEW i \in DOMAIN queue, queue[i] = j, queue' = RemoveAt(queue, i),
               phase' = [phase EXCEPT ![j] = "cancelled"]
        PROVE  QueueIn' /\ Told'
    <3>1. phase[j] = "queued"
      BY <2>3 DEF QueueIn
    <3>2. /\ Len(queue') = Len(queue) - 1 /\ queue' \in Seq(Jobs)
          /\ \A k \in 1..Len(queue) - 1 : queue'[k] = IF k < i THEN queue[k] ELSE queue[k + 1]
      BY <2>3, RemoveAtProperties
    <3>3. \A k \in DOMAIN queue' : \E m \in DOMAIN queue :
            m # i /\ queue'[k] = queue[m] /\ m = IF k < i THEN k ELSE k + 1
      BY <3>2
    <3>4. \A k \in DOMAIN queue' : phase'[queue'[k]] = "queued"
      BY <2>3, <3>3 DEF QueueIn
    <3>5. \A k, m \in DOMAIN queue' : queue'[k] = queue'[m] => k = m
      <4> SUFFICES ASSUME NEW k \in DOMAIN queue', NEW m \in DOMAIN queue', queue'[k] = queue'[m]
                   PROVE  k = m
        OBVIOUS
      <4>1. (IF k < i THEN k ELSE k + 1) = (IF m < i THEN m ELSE m + 1)
        BY <3>3 DEF QueueIn
      <4>2. k \in Nat /\ m \in Nat /\ i \in Nat
        BY <3>2
      <4> QED BY <4>1, <4>2
    <3>6. Told'
      BY <2>1, <2>3, <3>1 DEF Told
    <3> QED BY <3>4, <3>5, <3>6 DEF QueueIn
  <2> QED BY <1>7, <2>2, <2>3 DEF Cancel
<1>8. CASE Crash
  <2>1. /\ queue' = <<>> /\ status' = status /\ up' = FALSE
        /\ \A j \in Jobs : phase'[j] = IF Active(j) \/ phase[j] \in {"queued", "orphan"}
                                    THEN "lost" ELSE phase[j]
    BY <1>8 DEF Crash
  <2>2. Told'
    BY <2>1 DEF Told, Phases, Active, RuntimePhases
  <2> QED BY <2>1, <2>2 DEF QueueIn
<1>9. CASE Restart
  <2>1. /\ ~up /\ up' = TRUE /\ UNCHANGED <<phase, queue>>
        /\ \A j \in Jobs : status'[j] = IF status[j] \in {"queued", "running"} THEN "ended" ELSE status[j]
    BY <1>9 DEF Restart
  <2>2. Told'
    BY <2>1 DEF Told
  <2> QED BY <2>1, <2>2 DEF QueueIn
<1>10. CASE UNCHANGED <<phase, queue, status, up>>
  BY <1>10 DEF QueueIn, Told
<1>11. ASSUME \/ ChildSweeps \/ ChildPurges \/ \E j \in Jobs : Output(j)
              \/ \E p \in Pages : TabStep(p) \/ Drop(p) \/ \E j \in Jobs : Open(p, j)
       PROVE  UNCHANGED <<phase, queue, status, up>>
  BY <1>11 DEF ChildSweeps, ChildPurges, Output, TabStep, Render, Reload, Connect, Subscribe, Feed,
               Drop, Open, ReadRow
<1>12. ASSUME NEW j \in Jobs, SubmitLeavesRow(j) \/ AbroadBegins(j)
       PROVE  QueueIn' /\ Told'
  <2>1. /\ status[j] = "none" /\ phase[j] = "none" /\ up /\ up' = up /\ queue' = queue
        /\ \/ /\ phase' = [phase EXCEPT ![j] = "orphan"] /\ status' = [status EXCEPT ![j] = "queued"]
           \/ /\ phase' = [phase EXCEPT ![j] = "abroad"] /\ status' = [status EXCEPT ![j] = "running"]
    BY <1>12 DEF SubmitLeavesRow, AbroadBegins, NextRow, LoopFree, Told
  <2>2. QueueIn'
    BY <2>1 DEF QueueIn
  <2>3. /\ <<phase'[j], status'[j]>> \in {<<"orphan", "queued">>, <<"abroad", "running">>}
        /\ \A i \in Jobs : i # j => phase'[i] = phase[i] /\ status'[i] = status[i]
    BY <2>1
  <2>4. Told'
    <3> HIDE DEF TypeOK
    <3> QED BY <2>1, <2>3 DEF Told
  <2> QED BY <2>2, <2>4
<1>13. ASSUME NEW j \in Jobs, AbroadEnds(j)
       PROVE  QueueIn' /\ Told'
  <2>1. /\ phase[j] = "abroad" /\ UNCHANGED <<phase, queue, up>>
        /\ status' = [status EXCEPT ![j] = "ended"]
    BY <1>13 DEF AbroadEnds
  <2> QED BY <2>1 DEF QueueIn, Told
<1> QED
  BY <1>1, <1>2, <1>3, <1>4, <1>5, <1>6, <1>7, <1>8, <1>9, <1>10, <1>11, <1>12, <1>13 DEF Next, JobStep

-----------------------------------------------------------------------------
(* Logs *)

LEMMA LogsPreserved ==
  ASSUME TypeOK, QueueIn, Kept, Marked, Told, Next
  PROVE  Kept' /\ Marked'
<1> USE DEF TypeOK, jobvars, store, tabs, wires, faults
<1>1. ASSUME NEW j \in Jobs,
             \/ Submit(j) \/ SubmitLeavesRow(j) \/ AbroadBegins(j) \/ AbroadEnds(j)
             \/ WriteRunning(j) \/ Sweep(j) \/ HousekeepingRaises(j) \/ Cancel(j)
      PROVE  Kept' /\ Marked'
  <2>1. /\ UNCHANGED <<lines, text>>
        /\ \A i \in Jobs : i # j => phase'[i] = phase[i]
    BY <1>1 DEF Submit, SubmitLeavesRow, AbroadBegins, AbroadEnds, WriteRunning, Sweep,
                HousekeepingRaises, Cancel
  <2>2. \/ phase[j] = "none" /\ phase'[j] \in {"queued", "orphan", "abroad"}
        \/ phase[j] = "promoted" /\ phase'[j] = "created"
        \/ phase[j] \in {"saved", "swept"} /\ phase'[j] \in {"swept", "stuck"}
        \/ phase[j] = "queued" /\ phase'[j] = "cancelled"
        \/ phase'[j] = phase[j]
    BY <1>1 DEF Submit, SubmitLeavesRow, AbroadBegins, AbroadEnds, NextRow, WriteRunning, Sweep,
                HousekeepingRaises, Cancel, Told, QueueIn
  <2>3. Kept'
    BY <2>1, <2>2 DEF Kept
  <2>4. Marked'
    BY <2>1, <2>2 DEF Marked
  <2> QED BY <2>3, <2>4
<1>2. CASE Promote
  <2>1. /\ UNCHANGED <<lines, text>> /\ Head(queue) \in Jobs /\ phase[Head(queue)] = "queued"
        /\ phase' = [phase EXCEPT ![Head(queue)] = "promoted"]
    BY <1>2 DEF Promote, Promotable, QueueIn
  <2>2. Kept'
    BY <2>1 DEF Kept
  <2> QED BY <2>1, <2>2 DEF Marked
<1>3. ASSUME NEW j \in Jobs, OpenLog(j)
      PROVE  Kept' /\ Marked'
  <2>1. CASE phase' = [phase EXCEPT ![j] = "dead"] /\ phase[j] = "created" /\ UNCHANGED <<lines, text>>
    <3>1. Kept'
      BY <2>1 DEF Kept
    <3> QED BY <2>1, <3>1 DEF Marked
  <2>2. CASE phase' = [phase EXCEPT ![j] = "running"] /\ phase[j] = "created" /\ text' = text
             /\ Publish(j, <<"cmd">>)
    <3>1. lines'[j] = lines[j] \o <<"cmd">> /\ \A i \in Jobs : i # j => lines'[i] = lines[i]
      <4>1. <<"cmd">> \in Text /\ Publish(j, <<"cmd">>)
        BY <2>2, Texts
      <4> HIDE DEF TypeOK
      <4> QED BY <4>1, PublishTyped
    <3>2. lines[j] = <<>> /\ text[j] = <<>>
      BY <2>2 DEF Kept
    <3>3. lines'[j] = <<"cmd">> /\ lines'[j] # <<>>
      BY <3>1, <3>2
    <3>4. Kept'
      <4>1. phase'[j] = "running" /\ \A i \in Jobs : i # j => phase'[i] = phase[i]
        BY <2>2
      <4>2. text' = text
        BY <2>2
      <4> HIDE DEF TypeOK
      <4> QED BY <3>1, <3>2, <3>3, <4>1, <4>2 DEF Kept
    <3>5. \A i \in DOMAIN lines'[j] : lines'[j][i] # "DONE"
      BY <3>3
    <3>6. Marked'
      <4>1. \A i \in Jobs : i # j => phase'[i] = phase[i] /\ lines'[i] = lines[i]
        BY <2>2, <3>1
      <4> HIDE DEF TypeOK
      <4> QED BY <3>5, <4>1 DEF Marked
    <3> QED BY <3>4, <3>6
  <2> QED BY <1>3, <2>1, <2>2 DEF OpenLog
<1>4. ASSUME NEW j \in Jobs, NEW ls \in {<<>>, <<"out">>, <<"error">>}, Publish(j, ls),
             phase[j] = "running",
             \/ UNCHANGED <<phase, text>>
             \/ /\ phase' = [phase EXCEPT ![j] = "saved"]
                /\ text' = [text EXCEPT ![j] = lines'[j]]
      PROVE  Kept' /\ Marked'
  <2>1. /\ lines'[j] = lines[j] \o ls /\ \A i \in Jobs : i # j => lines'[i] = lines[i]
        /\ lines' \in [Jobs -> Text]
    <3>1. ls \in Text
      BY Texts
    <3> HIDE DEF TypeOK
    <3> QED BY <1>4, <3>1, PublishTyped
  <2>2. lines[j] # <<>> /\ text[j] = <<>> /\ lines[j] \in Text /\ ls \in Text
    BY <1>4, Texts DEF Kept
  <2>3. lines'[j] # <<>>
    BY <2>1, <2>2, ConcatEqualIffEmpty DEF Text
  <2>0. /\ \A i \in Jobs : i # j => phase'[i] = phase[i] /\ text'[i] = text[i]
        /\ \/ phase'[j] = "running" /\ text'[j] = <<>>
           \/ phase'[j] = "saved" /\ text'[j] = lines'[j]
    BY <1>4, <2>2
  <2>4. Kept'
    <3>1. \A i \in Jobs : i # j => lines'[i] = lines[i] /\ phase'[i] = phase[i] /\ text'[i] = text[i]
      BY <2>0, <2>1
    <3> HIDE DEF TypeOK
    <3> QED BY <2>0, <2>3, <3>1 DEF Kept
  <2>5. \A i \in DOMAIN lines'[j] : lines'[j][i] # "DONE"
    <3>1. \A i \in DOMAIN lines[j] : lines[j][i] # "DONE"
      BY <1>4 DEF Marked
    <3>2. \A i \in DOMAIN ls : ls[i] # "DONE"
      OBVIOUS
    <3>3. lines[j] \in Seq(Line) /\ ls \in Seq(Line)
      BY <2>2 DEF Text
    <3>4. lines'[j] = lines[j] \o ls
      BY <2>1
    <3> HIDE DEF TypeOK
    <3>5. /\ DOMAIN lines'[j] = 1..Len(lines[j]) + Len(ls)
          /\ \A i \in 1..Len(lines[j]) + Len(ls) :
               lines'[j][i] = IF i <= Len(lines[j]) THEN lines[j][i] ELSE ls[i - Len(lines[j])]
      BY <3>3, <3>4, ConcatProperties
    <3>6. \A i \in 1..Len(lines[j]) + Len(ls) :
            IF i <= Len(lines[j]) THEN i \in DOMAIN lines[j] ELSE i - Len(lines[j]) \in DOMAIN ls
      BY <3>3
    <3> QED BY <3>1, <3>2, <3>5, <3>6
  <2>6. Marked'
    <3>1. \A i \in Jobs : i # j => lines'[i] = lines[i] /\ phase'[i] = phase[i]
      BY <2>0, <2>1
    <3> HIDE DEF TypeOK
    <3> QED BY <2>5, <3>1 DEF Marked
  <2> QED BY <2>4, <2>6
<1>5. ASSUME NEW j \in Jobs, Over(j)
      PROVE  Kept' /\ Marked'
  <2>1. /\ lines'[j] = lines[j] \o Marks /\ \A i \in Jobs : i # j => lines'[i] = lines[i]
        /\ phase' = [phase EXCEPT ![j] = "over"] /\ phase[j] = "purged" /\ text' = text
    <3>1. /\ Publish(j, Marks) /\ Marks \in Text
          /\ phase' = [phase EXCEPT ![j] = "over"] /\ phase[j] = "purged" /\ text' = text
      BY <1>5, Texts DEF Over, Marks
    <3> HIDE DEF TypeOK, Marks
    <3> QED BY <3>1, PublishTyped
  <2>2. Kept'
    <3>1. phase'[j] = "over" /\ (text'[j] = <<>> \/ lines'[j] = text'[j] \o Marks)
      BY <2>1 DEF Kept
    <3>2. \A i \in Jobs : i # j => phase'[i] = phase[i] /\ lines'[i] = lines[i] /\ text'[i] = text[i]
      BY <2>1
    <3> HIDE DEF TypeOK, Marks
    <3> QED BY <3>1, <3>2 DEF Kept
  <2>3. \A i \in DOMAIN lines'[j] : lines'[j][i] = "DONE" => i = Len(lines'[j])
    <3>1. lines[j] \in Text /\ \A i \in DOMAIN lines[j] : lines[j][i] # "DONE"
      BY <2>1 DEF Marked
    <3> HIDE DEF TypeOK, Marks
    <3> QED BY <2>1, <3>1, MarkLast
  <2>4. Marked'
    <3>1. /\ \A i \in Jobs : i # j => phase'[i] = phase[i] /\ lines'[i] = lines[i]
          /\ phase'[j] = "over"
      BY <2>1
    <3> HIDE DEF TypeOK
    <3> QED BY <2>3, <3>1 DEF Marked
  <2> QED BY <2>2, <2>4
<1>6. CASE text' = PurgedTexts /\ UNCHANGED <<lines, phase>>
  <2>1. \A i \in Jobs : text'[i] \in {<<>>, text[i]}
    BY <1>6, PurgedTextsTyped
  <2>2. Kept'
    BY <1>6, <2>1 DEF Kept
  <2> QED BY <1>6, <2>2 DEF Marked
<1>7. ASSUME NEW j \in Jobs, Purge(j)
      PROVE  Kept' /\ Marked'
  <2>1. /\ \A i \in Jobs : text'[i] \in {<<>>, text[i]}
        /\ phase' = [phase EXCEPT ![j] = "purged"] /\ phase[j] = "swept" /\ lines' = lines
    BY <1>7, PurgedTextsTyped DEF Purge
  <2>2. Kept'
    BY <2>1 DEF Kept
  <2> QED BY <2>1, <2>2 DEF Marked
<1>8. CASE Crash
  <2>1. /\ \A i \in Jobs : lines'[i] = <<>> /\ phase'[i] \in {phase[i], "lost"} /\ text'[i] = text[i]
        /\ \A i \in Jobs : phase[i] \in {"running", "saved", "swept", "stuck", "purged"} => phase'[i] = "lost"
    BY <1>8 DEF Crash, Active, RuntimePhases
  <2>2. Kept'
    BY <2>1 DEF Kept
  <2> QED BY <2>1, <2>2 DEF Marked
<1>9. CASE UNCHANGED <<phase, lines, text>>
  BY <1>9 DEF Kept, Marked
<1>10. ASSUME \/ ChildSweeps \/ Restart
              \/ \E p \in Pages : TabStep(p) \/ Drop(p) \/ \E j \in Jobs : Open(p, j)
       PROVE  UNCHANGED <<phase, lines, text>>
  BY <1>10 DEF ChildSweeps, Restart, TabStep, Render, Reload, Connect, Subscribe, Feed,
               Drop, Open, ReadRow
<1>11. ASSUME NEW j \in Jobs, Output(j) \/ \E failure \in {<<>>, <<"error">>} : Finalize(j, failure)
       PROVE  Kept' /\ Marked'
  BY <1>11, <1>4 DEF Output, Finalize
<1>12. CASE ChildPurges
  BY <1>12, <1>6 DEF ChildPurges
<1> QED
  BY <1>1, <1>2, <1>3, <1>5, <1>7, <1>8, <1>9, <1>10, <1>11, <1>12 DEF Next, JobStep

-----------------------------------------------------------------------------
(* Pages and streams *)

(* publish() by a job that is not over keeps every stream whole. *)
LEMMA PublishKeepsStreams ==
  ASSUME TypeOK, Streams, NEW j \in Jobs, NEW ls \in Text, Publish(j, ls), phase[j] # "over",
         UNCHANGED <<view, job>>, \A i \in Jobs : phase[i] = "over" => phase'[i] = "over"
  PROVE  Streams'
<1>1. /\ lines'[j] = lines[j] \o ls /\ \A i \in Jobs : i # j => lines'[i] = lines[i]
      /\ \A p \in Pages : fifo'[p] = IF conn[p] = "fed" /\ job[p] = j THEN fifo[p] \o ls ELSE fifo[p]
      /\ UNCHANGED <<conn, got>>
  BY PublishTyped
<1>2. ASSUME NEW p \in Pages, conn[p] = "fed"
      PROVE  got'[p] \o fifo'[p] = lines'[job'[p]]
  <2>0. job[p] \in Jobs /\ got[p] \o fifo[p] = lines[job[p]]
    BY <1>2 DEF Streams
  <2>1. CASE job[p] = j
    <3>1. got[p] \in Text /\ fifo[p] \in Text
      BY DEF TypeOK
    <3>2. (got[p] \o fifo[p]) \o ls = got[p] \o (fifo[p] \o ls)
      BY <3>1, TextAssociative, Zenon
    <3> QED BY <1>1, <1>2, <2>0, <2>1, <3>2
  <2>2. CASE job[p] # j
    BY <1>1, <1>2, <2>0, <2>2
  <2> QED BY <2>1, <2>2
<1> HIDE DEF Publish
<1> QED BY <1>1, <1>2 DEF Streams

LEMMA StreamsPreserved ==
  ASSUME TypeOK, Streams, Marked, QueueIn, Told, Next
  PROVE  Streams'
<1> USE DEF jobvars, store, tabs, wires, faults
<1>1. ASSUME NEW j \in Jobs, OpenLog(j) \/ Output(j) \/ Over(j)
                             \/ \E failure \in {<<>>, <<"error">>} : Finalize(j, failure)
      PROVE  Streams'
  <2>1. /\ phase[j] # "over" /\ UNCHANGED <<view, job>>
        /\ \A i \in Jobs : phase[i] = "over" => phase'[i] = "over"
    BY <1>1 DEF TypeOK, OpenLog, Output, Over, Finalize
  <2>2. CASE UNCHANGED <<lines, wires>>
    BY <2>1, <2>2 DEF Streams
  <2> QED BY <1>1, <2>1, <2>2, Publishers, PublishKeepsStreams
<1>2. ASSUME UNCHANGED <<lines, conn, fifo, got, view, job>>,
             \A i \in Jobs : phase[i] = "over" => phase'[i] = "over"
      PROVE  Streams'
  BY <1>2 DEF Streams
<1>3. ASSUME NEW j \in Jobs,
             \/ Submit(j) \/ SubmitLeavesRow(j) \/ AbroadBegins(j) \/ AbroadEnds(j) \/ WriteRunning(j)
             \/ Sweep(j) \/ HousekeepingRaises(j) \/ Purge(j) \/ Cancel(j)
      PROVE  Streams'
  <2>1. UNCHANGED <<lines, conn, fifo, got, view, job>>
    BY <1>3 DEF Submit, SubmitLeavesRow, AbroadBegins, AbroadEnds, WriteRunning, Sweep,
                HousekeepingRaises, Purge, Cancel
  <2>2. ASSUME NEW i \in Jobs, phase[i] = "over"
        PROVE  phase'[i] = "over"
    <3>1. CASE Submit(j) \/ SubmitLeavesRow(j) \/ AbroadBegins(j)
      <4>1. status[j] = "none" /\ \A k \in Jobs : k # j => phase'[k] = phase[k]
        BY <3>1 DEF Submit, SubmitLeavesRow, AbroadBegins, NextRow, TypeOK
      <4>2. i # j
        BY <2>2, <4>1 DEF Told
      <4> QED BY <2>2, <4>1, <4>2
    <3>2. CASE Cancel(j)
      BY <2>2, <3>2 DEF Cancel, TypeOK, QueueIn
    <3> QED BY <1>3, <2>2, <3>1, <3>2 DEF AbroadEnds, WriteRunning, Sweep, HousekeepingRaises, Purge, TypeOK
  <2> QED BY <1>2, <2>1, <2>2
<1>4. CASE Promote
  <2>1. UNCHANGED <<lines, conn, fifo, got, view, job>>
    BY <1>4 DEF Promote
  <2>2. Head(queue) \in Jobs /\ phase[Head(queue)] = "queued" /\ phase' = [phase EXCEPT ![Head(queue)] = "promoted"]
    BY <1>4 DEF Promote, Promotable, QueueIn, TypeOK
  <2> QED BY <1>2, <2>1, <2>2 DEF TypeOK
<1>5. CASE Crash
  <2>1. \A p \in Pages : /\ conn'[p] = "none" /\ got'[p] = <<>> /\ job'[p] = job[p]
                         /\ view'[p] # "away" => view[p] # "away"
    BY <1>5 DEF Crash
  <2> QED BY <2>1 DEF Streams
<1>6. CASE Restart \/ ChildSweeps \/ ChildPurges
  BY <1>2, <1>6 DEF Restart, ChildSweeps, ChildPurges
<1>7. ASSUME NEW p \in Pages,
             UNCHANGED <<lines, phase, wires>>, conn[p] = "none",
             \A q \in Pages : q # p => view'[q] = view[q] /\ job'[q] = job[q],
             view'[p] # "finishing", view'[p] = "away" \/ job'[p] \in Jobs
      PROVE  Streams'
  BY <1>7 DEF Streams
<1>8. ASSUME NEW p \in Pages, Render(p) \/ Reload(p) \/ \E j \in Jobs : Open(p, j)
      PROVE  Streams'
  <2>1. /\ UNCHANGED <<lines, phase, wires>> /\ conn[p] = "none"
        /\ \A q \in Pages : q # p => view'[q] = view[q] /\ job'[q] = job[q]
    BY <1>8 DEF Render, Reload, Open, ReadRow, Streams, TypeOK
  <2>2. view'[p] # "finishing" /\ (view'[p] = "away" \/ job'[p] \in Jobs)
    BY <1>8 DEF Render, Reload, Open, ReadRow, Streams, TypeOK
  <2> QED BY <1>7, <2>1, <2>2
<1>9. ASSUME NEW p \in Pages, Connect(p)
      PROVE  Streams'
  BY <1>9 DEF Connect, Streams, TypeOK
<1>10. ASSUME NEW p \in Pages, Subscribe(p)
       PROVE  Streams'
  <2>1. /\ conn[p] = "asked" /\ conn' = [conn EXCEPT ![p] = "fed"] /\ view[p] = "live" /\ got[p] = <<>>
        /\ fifo' = [fifo EXCEPT ![p] = lines[job[p]]] /\ job[p] \in Jobs
        /\ UNCHANGED <<lines, phase, view, job, got>>
    BY <1>10 DEF Subscribe, Backlog, Streams
  <2>2. <<>> \o lines[job[p]] = lines[job[p]]
    BY <2>1, ConcatEmptySeq DEF TypeOK, Text
  <2> QED BY <2>1, <2>2 DEF Streams, TypeOK
<1>11. ASSUME NEW p \in Pages, Feed(p)
       PROVE  Streams'
  <2> DEFINE g == got[p]
             f == fifo[p]
  <2>1. /\ conn[p] = "fed" /\ f # <<>> /\ got' = [got EXCEPT ![p] = Append(g, Head(f))]
        /\ g \in Text /\ f \in Text /\ job[p] \in Jobs /\ view[p] = "live" /\ g \o f = lines[job[p]]
        /\ UNCHANGED <<lines, phase, job>>
    BY <1>11 DEF Feed, Streams, TypeOK
  <2>2. /\ Append(g, Head(f)) \o Tail(f) = g \o f
        /\ Len(g \o f) = Len(g) + Len(f) /\ Len(g) \in Nat /\ Len(f) \in Nat /\ Len(f) >= 1
        /\ (g \o f)[Len(g) + 1] = Head(f)
        /\ Len(f) = 1 => Append(g, Head(f)) = g \o f
    BY <2>1, HeadMoves
  <2>3. CASE Head(f) # "DONE"
    <3>1. fifo' = [fifo EXCEPT ![p] = Tail(f)] /\ UNCHANGED <<conn, view>>
      BY <1>11, <2>3 DEF Feed
    <3>2. got'[p] \o fifo'[p] = lines'[job'[p]]
      BY <2>1, <2>2, <3>1 DEF TypeOK
    <3>3. \A q \in Pages : q # p => got'[q] = got[q] /\ fifo'[q] = fifo[q]
      BY <2>1, <3>1 DEF TypeOK
    <3> HIDE DEF f, g
    <3> QED BY <2>1, <3>1, <3>2, <3>3 DEF Streams
  <2>4. CASE Head(f) = "DONE"
    <3>1. /\ conn' = [conn EXCEPT ![p] = "none"] /\ view' = [view EXCEPT ![p] = "finishing"]
          /\ fifo' = [fifo EXCEPT ![p] = <<>>]
      BY <1>11, <2>4 DEF Feed
    <3>2. phase[job[p]] = "over" /\ Len(g) + 1 = Len(lines[job[p]])
      <4>1. lines[job[p]] \in Text /\ lines[job[p]][Len(g) + 1] = "DONE"
        BY <2>1, <2>2, <2>4 DEF TypeOK
      <4>2. Len(g) + 1 \in DOMAIN lines[job[p]]
        <5>1. DOMAIN lines[job[p]] = 1..Len(lines[job[p]])
          BY <4>1, LenProperties DEF Text
        <5>2. Len(lines[job[p]]) = Len(g) + Len(f)
          BY <2>1, <2>2
        <5> HIDE DEF f, g
        <5> QED BY <2>2, <5>1, <5>2
      <4> QED BY <2>1, <4>1, <4>2 DEF Marked
    <3>3. Append(g, Head(f)) = lines[job[p]]
      <4>1. Len(f) = 1
        <5>1. Len(lines[job[p]]) = Len(g) + Len(f)
          BY <2>1, <2>2
        <5>2. Len(g) + 1 = Len(g) + Len(f)
          BY <3>2, <5>1
        <5>3. \A a, b \in Nat : a + 1 = a + b => b = 1
          OBVIOUS
        <5>4. Len(g) \in Nat /\ Len(f) \in Nat
          BY <2>2
        <5> HIDE DEF f, g
        <5> QED BY <5>2, <5>3, <5>4, Zenon
      <4> QED BY <2>1, <2>2, <4>1
    <3>4. got'[p] = lines'[job'[p]] /\ job'[p] \in Jobs /\ view'[p] = "finishing" /\ conn'[p] = "none"
      BY <2>1, <3>1, <3>3 DEF TypeOK
    <3>5. \A q \in Pages : q # p => /\ got'[q] = got[q] /\ fifo'[q] = fifo[q]
                                   /\ conn'[q] = conn[q] /\ view'[q] = view[q]
      BY <2>1, <3>1 DEF TypeOK
    <3>6. job[p] \in Jobs /\ UNCHANGED <<lines, phase, job>>
      BY <2>1
    <3> HIDE DEF f, g
    <3> SUFFICES ASSUME NEW q \in Pages
                 PROVE  /\ view'[q] # "away" => job'[q] \in Jobs
                        /\ conn'[q] # "none" => view'[q] = "live"
                        /\ conn'[q] = "asked" => got'[q] = <<>>
                        /\ conn'[q] = "fed" => got'[q] \o fifo'[q] = lines'[job'[q]]
                        /\ view'[q] = "finishing" /\ got'[q] # <<>> =>
                             got'[q] = lines'[job'[q]] /\ phase'[job'[q]] = "over"
      BY DEF Streams
    <3>7. CASE q = p
      BY <3>2, <3>4, <3>6, <3>7
    <3>8. CASE q # p
      BY <3>5, <3>6, <3>8 DEF Streams
    <3> QED BY <3>7, <3>8
  <2> QED BY <2>3, <2>4
<1>12. ASSUME NEW p \in Pages, Drop(p)
       PROVE  Streams'
  BY <1>12 DEF Drop, Streams, TypeOK
<1> QED
  BY <1>1, <1>3, <1>4, <1>5, <1>6, <1>8, <1>9, <1>10, <1>11, <1>12 DEF Next, JobStep, TabStep

(* A row goes from none to queued, running and ended, and never back. *)
LEMMA StatusMoves ==
  ASSUME TypeOK, QueueIn, Told, Next, NEW j \in Jobs
  PROVE  \/ status'[j] = status[j]
         \/ status[j] = "none" /\ status'[j] \in {"queued", "running"}
         \/ status[j] = "queued" /\ status'[j] \in {"running", "ended"}
         \/ status[j] = "running" /\ status'[j] = "ended"
<1> USE DEF TypeOK, jobvars, store, tabs, wires, faults
<1>1. ASSUME NEW i \in Jobs, Submit(i) \/ SubmitLeavesRow(i) \/ AbroadBegins(i)
      PROVE  /\ status[i] = "none"
             /\ \E s \in {"queued", "running"} : status' = [status EXCEPT ![i] = s]
  BY <1>1 DEF Submit, SubmitLeavesRow, AbroadBegins, NextRow
<1>2. ASSUME NEW i \in Jobs, WriteRunning(i)
      PROVE  status[i] = "queued" /\ status' = [status EXCEPT ![i] = "running"]
  BY <1>2 DEF WriteRunning, Told
<1>3. ASSUME NEW i \in Jobs, NEW failure, Finalize(i, failure)
      PROVE  status[i] \in {"running", "ended"} /\ status' = [status EXCEPT ![i] = "ended"]
  BY <1>3 DEF Finalize, Told
<1>4. ASSUME NEW i \in Jobs, Cancel(i)
      PROVE  status[i] \in {"queued", "running"} /\ status' = [status EXCEPT ![i] = "ended"]
  BY <1>4 DEF Cancel, Told, QueueIn
<1>5. ASSUME Restart
      PROVE  status'[j] = IF status[j] \in {"queued", "running"} THEN "ended" ELSE status[j]
  BY <1>5 DEF Restart
<1>6. ASSUME NEW i \in Jobs, \/ OpenLog(i) \/ Output(i) \/ Sweep(i) \/ HousekeepingRaises(i)
                              \/ Purge(i) \/ Over(i)
      PROVE  status' = status
  BY <1>6 DEF OpenLog, Output, Sweep, HousekeepingRaises, Purge, Over
<1>7. ASSUME \/ Promote \/ Crash \/ ChildSweeps \/ ChildPurges
             \/ \E p \in Pages : TabStep(p) \/ Drop(p) \/ \E i \in Jobs : Open(p, i)
      PROVE  status' = status
  BY <1>7 DEF Promote, Crash, ChildSweeps, ChildPurges, TabStep, Render, Reload, Connect, Subscribe,
              Feed, Drop, Open, ReadRow
<1>8. ASSUME NEW i \in Jobs, AbroadEnds(i)
      PROVE  status[i] = "running" /\ status' = [status EXCEPT ![i] = "ended"]
  BY <1>8 DEF AbroadEnds
<1> QED BY <1>1, <1>2, <1>3, <1>4, <1>5, <1>6, <1>7, <1>8 DEF Next, JobStep

(* A run of the scheduler stays one. *)
LEMMA AbroadStays ==
  ASSUME TypeOK, QueueIn, Told, Next, NEW j \in Jobs, phase[j] = "abroad"
  PROVE  phase'[j] = "abroad"
<1> USE DEF TypeOK, jobvars, store, tabs, wires, faults
<1>1. ASSUME NEW i \in Jobs, Submit(i) \/ SubmitLeavesRow(i) \/ AbroadBegins(i)
      PROVE  phase'[j] = phase[j]
  <2>1. phase[i] = "none" /\ \A k \in Jobs : k # i => phase'[k] = phase[k]
    BY <1>1 DEF Submit, SubmitLeavesRow, AbroadBegins, NextRow, Told
  <2> QED BY <2>1
<1>2. ASSUME NEW i \in Jobs, \/ WriteRunning(i) \/ OpenLog(i) \/ Sweep(i) \/ HousekeepingRaises(i)
                              \/ Purge(i) \/ Over(i)
                              \/ \E failure \in {<<>>, <<"error">>} : Finalize(i, failure)
      PROVE  phase'[j] = phase[j]
  <2>1. phase[i] # "abroad" /\ \A k \in Jobs : k # i => phase'[k] = phase[k]
    BY <1>2 DEF WriteRunning, OpenLog, Sweep, HousekeepingRaises, Purge, Over, Finalize
  <2> QED BY <2>1
<1>3. ASSUME NEW i \in Jobs, Cancel(i)
      PROVE  phase'[j] = phase[j]
  BY <1>3 DEF Cancel, QueueIn
<1>4. ASSUME Promote
      PROVE  phase'[j] = phase[j]
  <2>1. /\ Head(queue) \in Jobs /\ phase[Head(queue)] = "queued"
        /\ phase' = [phase EXCEPT ![Head(queue)] = "promoted"]
    BY <1>4 DEF Promote, Promotable, QueueIn
  <2> QED BY <2>1
<1>5. ASSUME Crash
      PROVE  phase'[j] = phase[j]
  BY <1>5 DEF Crash, Active, RuntimePhases
<1>6. ASSUME \/ Restart \/ ChildSweeps \/ ChildPurges \/ \E i \in Jobs : Output(i) \/ AbroadEnds(i)
             \/ \E p \in Pages : TabStep(p) \/ Drop(p) \/ \E i \in Jobs : Open(p, i)
      PROVE  phase' = phase
  BY <1>6 DEF Restart, ChildSweeps, ChildPurges, Output, AbroadEnds, TabStep, Render, Reload, Connect,
              Subscribe, Feed, Drop, Open, ReadRow
<1> QED BY <1>1, <1>2, <1>3, <1>4, <1>5, <1>6 DEF Next, JobStep

LEMMA ShownPreserved ==
  ASSUME TypeOK, QueueIn, Told, Streams, Shown, Next
  PROVE  Shown'
<1> USE DEF jobvars, store, tabs, wires, faults
<1>1. \A j \in Jobs : \/ status'[j] = status[j]
                      \/ status[j] = "none" /\ status'[j] \in {"queued", "running"}
                      \/ status[j] = "queued" /\ status'[j] \in {"running", "ended"}
                      \/ status[j] = "running" /\ status'[j] = "ended"
  BY StatusMoves
<1>2. CASE UNCHANGED <<view, job, seen, up>>
  <2>1. \A q \in Pages : view[q] # "away" => job[q] \in Jobs
    BY DEF Streams
  <2>2. /\ \A q \in Pages : view'[q] = view[q] /\ job'[q] = job[q] /\ seen'[q] = seen[q]
        /\ up' = up
    BY <1>2
  <2>3. \A j \in Jobs : /\ status[j] # "none" => status'[j] # "none"
                        /\ status[j] = "ended" => status'[j] = "ended"
                        /\ status[j] \in {"running", "ended"} => status'[j] \in {"running", "ended"}
                        /\ phase[j] = "abroad" => phase'[j] = "abroad"
    BY <1>1, AbroadStays
  <2> QED BY <2>1, <2>2, <2>3 DEF Shown
<1>3. ASSUME NEW j \in Jobs, \/ Submit(j) \/ Output(j) \/ Cancel(j) \/ JobStep(j)
                              \/ SubmitLeavesRow(j) \/ AbroadBegins(j) \/ AbroadEnds(j)
                              \/ HousekeepingRaises(j)
      PROVE  UNCHANGED <<view, job, seen, up>>
  BY <1>3 DEF Submit, SubmitLeavesRow, AbroadBegins, AbroadEnds, Output, Cancel, JobStep, WriteRunning,
              OpenLog, Sweep, HousekeepingRaises, Purge, Over, Finalize
<1>4. ASSUME \/ Promote \/ ChildSweeps \/ ChildPurges \/ \E p \in Pages : Subscribe(p) \/ Drop(p)
      PROVE  UNCHANGED <<view, job, seen, up>>
  BY <1>4 DEF Promote, ChildSweeps, ChildPurges, Subscribe, Drop
<1>5. CASE Restart
  <2>1. ~up /\ \A q \in Pages : view'[q] = view[q] /\ job'[q] = job[q] /\ seen'[q] = seen[q]
    BY <1>5 DEF Restart
  <2>2. \A q \in Pages : view[q] # "away" => job[q] \in Jobs
    BY DEF Streams
  <2>3. \A j \in Jobs : /\ status[j] # "none" => status'[j] # "none"
                        /\ status[j] = "ended" => status'[j] = "ended"
                        /\ phase[j] = "abroad" => phase'[j] = "abroad"
    BY <1>1, AbroadStays
  <2>4. \A q \in Pages : view'[q] # "row"
    BY <2>1 DEF Shown
  <2> QED BY <2>1, <2>2, <2>3, <2>4 DEF Shown
<1>6. CASE Crash
  <2>1. /\ \A p \in Pages : /\ view'[p] # "row" /\ (view'[p] = "static" => view[p] = "static")
                            /\ view'[p] # "away" => view[p] # "away"
        /\ UNCHANGED <<job, seen, status>>
    BY <1>6 DEF Crash
  <2>2. /\ \A q \in Pages : view[q] # "away" => job[q] \in Jobs
        /\ \A j \in Jobs : phase[j] = "abroad" => phase'[j] = "abroad"
    BY AbroadStays DEF Streams
  <2> QED BY <2>1, <2>2 DEF Shown
<1>7. ASSUME NEW p \in Pages, NEW j \in Jobs, ReadRow(p, j), up, status[j] # "none"
      PROVE  Shown'
  <2>1. /\ \A q \in Pages : q # p => view'[q] = view[q] /\ job'[q] = job[q] /\ seen'[q] = seen[q]
        /\ view'[p] = "row" /\ job'[p] = j /\ seen'[p] = status[j] /\ UNCHANGED <<up, status, phase>>
    BY <1>7 DEF ReadRow, TypeOK
  <2> QED BY <1>7, <2>1 DEF Shown
<1>8. ASSUME NEW p \in Pages, NEW j \in Jobs, Open(p, j)
      PROVE  Shown'
  BY <1>7, <1>8 DEF Open, Rows
<1>9. ASSUME NEW p \in Pages, Render(p)
      PROVE  Shown'
  <2>1. /\ \A q \in Pages : q # p => view'[q] = view[q]
        /\ view[p] = "row" /\ up /\ UNCHANGED <<job, seen, up, status, phase>>
        /\ view'[p] \in {"live", "queued", "static"}
        /\ view'[p] = "static" => ~Active(job[p]) /\ seen[p] # "queued"
    BY <1>9 DEF Render, TypeOK
  <2>2. job[p] \in Jobs /\ status[job[p]] \in {"none", "queued", "running", "ended"}
    BY <2>1 DEF Streams, TypeOK
  <2>3. ~Active(job[p]) => status[job[p]] # "running" \/ phase[job[p]] = "abroad"
    BY <2>1, <2>2 DEF Told, Active, RuntimePhases, TypeOK, Phases
  <2>4. view'[p] = "static" => status[job[p]] = "ended" \/ phase[job[p]] = "abroad"
    BY <2>1, <2>2, <2>3 DEF Shown, TypeOK
  <2>5. status[job[p]] # "none"
    BY <2>1 DEF Shown
  <2> QED BY <2>1, <2>4, <2>5 DEF Shown
<1>10. ASSUME NEW p \in Pages, Reload(p)
       PROVE  Shown'
  <2>1. CASE view' = [view EXCEPT ![p] = "away"] /\ UNCHANGED <<jobvars, store, job, seen, wires, up, faults>>
    BY <2>1 DEF Shown, TypeOK
  <2>2. CASE up /\ ReadRow(p, job[p]) /\ view[p] \in {"queued", "finishing"}
    <3>1. job[p] \in Jobs /\ status[job[p]] # "none"
      BY <2>2 DEF Streams, Shown
    <3> QED BY <1>7, <2>2, <3>1
  <2> QED BY <1>10, <2>1, <2>2 DEF Reload
<1>11. ASSUME NEW p \in Pages, Connect(p) \/ Feed(p)
       PROVE  Shown'
  <2>1. /\ \A q \in Pages : view'[q] = view[q] \/ (view'[q] = "finishing" /\ view[q] = "live")
        /\ UNCHANGED <<job, seen, up, status, phase>>
    BY <1>11 DEF Connect, Feed, TypeOK, Streams
  <2> QED BY <2>1 DEF Shown
<1> QED
  BY <1>2, <1>3, <1>4, <1>5, <1>6, <1>8, <1>9, <1>10, <1>11 DEF Next, TabStep

-----------------------------------------------------------------------------
(* Logs in the rows *)

Ends == {"saved", "swept", "stuck", "purged", "over"}
Unswept == {"saved", "swept", "stuck", "lost"}

(* What a step may do to the log in the row of a job.  *)
LEMMA TextMoves ==
  ASSUME TypeOK, QueueIn, Told, Next, NEW j \in Jobs
  PROVE  \/ phase[j] = "running" /\ phase'[j] = "saved" /\ text'[j] = lines'[j]
         \/ /\ text'[j] = text[j] \/ text'[j] = IF Recent(j) THEN text[j] ELSE <<>>
            /\ phase'[j] \in Ends => phase[j] \in Ends
            /\ phase[j] \in Unswept /\ phase'[j] \notin Unswept => text' = PurgedTexts
<1> USE DEF TypeOK, jobvars, store, tabs, wires, faults, Ends, Unswept
<1>1. ASSUME NEW i \in Jobs, NEW failure, Finalize(i, failure)
      PROVE  /\ phase[i] = "running" /\ phase' = [phase EXCEPT ![i] = "saved"]
             /\ text' = [text EXCEPT ![i] = lines'[i]]
  BY <1>1 DEF Finalize
<1>2. ASSUME NEW i \in Jobs,
             \/ Submit(i) \/ SubmitLeavesRow(i) \/ AbroadBegins(i) \/ AbroadEnds(i)
             \/ WriteRunning(i) \/ OpenLog(i) \/ Output(i) \/ Cancel(i)
      PROVE  /\ text' = text
             /\ \/ phase'[j] = phase[j]
                \/ phase'[j] \notin Ends /\ phase[j] \notin Unswept
  <2>1. CASE Submit(i) \/ SubmitLeavesRow(i) \/ AbroadBegins(i)
    BY <2>1 DEF Submit, SubmitLeavesRow, AbroadBegins, NextRow, Told
  <2>2. CASE Cancel(i)
    BY <2>2 DEF Cancel, QueueIn
  <2> QED BY <1>2, <2>1, <2>2 DEF AbroadEnds, WriteRunning, OpenLog, Output
<1>3. ASSUME NEW i \in Jobs, Sweep(i) \/ HousekeepingRaises(i) \/ Over(i)
      PROVE  /\ text' = text /\ (phase'[j] \in Ends => phase[j] \in Ends)
             /\ phase[j] \in Unswept => phase'[j] \in Unswept
  BY <1>3 DEF Sweep, HousekeepingRaises, Over
<1>4. ASSUME NEW i \in Jobs, Purge(i)
      PROVE  text' = PurgedTexts /\ (phase'[j] \in Ends => phase[j] \in Ends)
  BY <1>4 DEF Purge
<1>5. CASE Promote
  <2>1. Head(queue) \in Jobs /\ phase[Head(queue)] = "queued"
    BY <1>5 DEF Promote, Promotable, QueueIn
  <2> QED BY <1>5, <2>1 DEF Promote
<1>6. CASE Crash
  BY <1>6 DEF Crash, Active, RuntimePhases
<1>7. ASSUME ChildPurges
      PROVE  text' = PurgedTexts /\ phase' = phase
  BY <1>7 DEF ChildPurges
<1>8. ASSUME \/ Restart \/ ChildSweeps
             \/ \E p \in Pages : TabStep(p) \/ Drop(p) \/ \E i \in Jobs : Open(p, i)
      PROVE  UNCHANGED <<phase, text>>
  BY <1>8 DEF Restart, ChildSweeps, TabStep, Render, Reload, Connect, Subscribe,
              Feed, Drop, Open, ReadRow
<1>9. PurgedTexts[j] = IF Recent(j) THEN text[j] ELSE <<>>
  BY PurgedTextsTyped
<1> HIDE DEF PurgedTexts, Recent
<1>10. CASE \E i \in Jobs : \E failure \in {<<>>, <<"error">>} : Finalize(i, failure)
  <2>1. PICK i \in Jobs : \E failure \in {<<>>, <<"error">>} : Finalize(i, failure)
    BY <1>10
  <2>2. /\ phase[i] = "running" /\ phase' = [phase EXCEPT ![i] = "saved"]
        /\ text' = [text EXCEPT ![i] = lines'[i]]
    BY <1>1, <2>1
  <2> QED BY <2>2
<1>11. CASE \E i \in Jobs : \/ Submit(i) \/ SubmitLeavesRow(i) \/ AbroadBegins(i) \/ AbroadEnds(i)
                            \/ WriteRunning(i) \/ OpenLog(i) \/ Output(i) \/ Cancel(i)
                            \/ Sweep(i) \/ HousekeepingRaises(i) \/ Over(i)
  BY <1>2, <1>3, <1>11
<1>12. CASE ChildPurges \/ \E i \in Jobs : Purge(i)
  BY <1>4, <1>7, <1>9, <1>12
<1> QED
  BY <1>5, <1>6, <1>8, <1>10, <1>11, <1>12 DEF Next, JobStep

(* Rows are added, so a job is among the newest only if it was.            *)
LEMMA NewestWere ==
  ASSUME TypeOK, QueueIn, Told, Next, NEW j \in Jobs, Recent(j)'
  PROVE  Recent(j)
<1> DEFINE was == {i \in Rows : i > j}
           is == {i \in Rows' : i > j}
<1>1. is \in SUBSET Jobs /\ IsFiniteSet(Jobs)
  BY LogAssumption, FS_Interval DEF Jobs, Rows
<1>2. Rows \in SUBSET Rows'
  BY StatusMoves DEF Rows
<1>3. was \in SUBSET is
  BY <1>2
<1> HIDE DEF was, is
<1>4. IsFiniteSet(is) /\ IsFiniteSet(was) /\ Cardinality(was) <= Cardinality(is)
  BY <1>1, <1>3, FS_Subset
<1>5. Cardinality(was) \in Nat /\ Cardinality(is) \in Nat
  BY <1>4, FS_CardinalityType
<1>6. Cardinality(is) < Keep
  BY DEF Recent, is
<1>7. Cardinality(was) < Keep
  BY <1>4, <1>5, <1>6, LogAssumption
<1> QED BY <1>7 DEF Recent, was

LEMMA RecentPreserved ==
  ASSUME TypeOK, QueueIn, Told, RecentLogsStored, Kept', Next
  PROVE  RecentLogsStored'
<1> SUFFICES ASSUME NEW j \in Jobs, phase'[j] \in Ends, Recent(j)'
             PROVE  /\ text'[j] # <<>>
                    /\ lines'[j] \in {<<>>, text'[j], text'[j] \o <<"finished", "DONE">>}
  BY Zenon DEF RecentLogsStored, Recent, Ends
<1>1. Recent(j)
  BY NewestWere
<1>2. text'[j] # <<>>
  <2>1. CASE phase'[j] = "saved" /\ text'[j] = lines'[j]
    BY <2>1 DEF Kept
  <2>2. CASE phase[j] \in Ends /\ (text'[j] = text[j] \/ text'[j] = IF Recent(j) THEN text[j] ELSE <<>>)
    <3>1. text[j] # <<>>
      BY <2>2, <1>1 DEF RecentLogsStored, Recent, Ends
    <3> QED BY <3>1, <2>2, <1>1
  <2> HIDE DEF Recent
  <2> QED BY <2>1, <2>2, TextMoves
<1>3. lines'[j] \in {<<>>, text'[j], text'[j] \o Marks}
  BY <1>2 DEF Kept, Ends
<1> QED BY <1>2, <1>3 DEF Marks

LEMMA BoundedPreserved ==
  ASSUME TypeOK, QueueIn, Told, Kept, StoredLogsBounded, Next
  PROVE  StoredLogsBounded'
<1> DEFINE was == {j \in Jobs : text[j] # <<>> /\ phase[j] \notin Unswept}
           is == {j \in Jobs : text'[j] # <<>> /\ phase'[j] \notin Unswept}
           top == {j \in Rows : Cardinality({i \in Rows : i > j}) < Keep}
<1>0. IsFiniteSet(Jobs) /\ Keep \in Nat \ {0}
  BY LogAssumption, FS_Interval DEF Jobs
<1>1. Cardinality(was) <= Keep
  BY DEF StoredLogsBounded, Unswept
<1>2. IsFiniteSet(top) /\ Cardinality(top) <= Keep
  <2>1. Rows \in SUBSET Jobs
    BY DEF Rows
  <2> QED BY <1>0, <2>1, Newest
<1>3. CASE text' = PurgedTexts
  <2>1. ASSUME NEW j \in is
        PROVE  j \in top
    <3>1. Recent(j) /\ text[j] # <<>>
      BY <1>3, PurgedTextsTyped
    <3>2. phase[j] # "none"
      BY <3>1 DEF Kept
    <3>3. j \in Rows
      BY <3>2 DEF Told, Rows
    <3> QED BY <3>1, <3>3 DEF Recent
  <2>2. is \in SUBSET top
    BY <2>1
  <2>3. is \in SUBSET Jobs
    OBVIOUS
  <2> HIDE DEF is, top
  <2>4. IsFiniteSet(is) /\ Cardinality(is) <= Cardinality(top)
    BY <1>2, <2>2, FS_Subset
  <2>5. Cardinality(is) \in Nat /\ Cardinality(top) \in Nat
    BY <1>2, <2>4, FS_CardinalityType
  <2>6. Cardinality(is) <= Keep
    BY <1>0, <1>2, <2>4, <2>5
  <2> QED BY <2>6 DEF is, StoredLogsBounded, Unswept
<1>4. CASE text' # PurgedTexts
  <2>1. ASSUME NEW j \in is
        PROVE  j \in was
    <3>1. text'[j] # <<>> /\ phase'[j] \notin Unswept /\ j \in Jobs
      OBVIOUS
    <3>2. /\ text'[j] = text[j] \/ text'[j] = IF Recent(j) THEN text[j] ELSE <<>>
          /\ phase[j] \notin Unswept
      <4> HIDE DEF Recent
      <4>1. phase'[j] # "saved"
        BY <3>1 DEF Unswept
      <4> QED BY <1>4, <3>1, <4>1, TextMoves
    <3> QED BY <3>1, <3>2
  <2>2. is \in SUBSET was /\ was \in SUBSET Jobs
    BY <2>1
  <2> HIDE DEF is, was
  <2>3. IsFiniteSet(was)
    BY <1>0, <2>2, FS_Subset
  <2>4. IsFiniteSet(is) /\ Cardinality(is) <= Cardinality(was)
    BY <2>2, <2>3, FS_Subset
  <2>5. Cardinality(is) \in Nat /\ Cardinality(was) \in Nat
    BY <2>3, <2>4, FS_CardinalityType
  <2>6. Cardinality(is) <= Keep
    BY <1>0, <1>1, <2>4, <2>5
  <2> QED BY <2>6 DEF is, StoredLogsBounded, Unswept
<1> QED BY <1>3, <1>4

-----------------------------------------------------------------------------
LEMMA NextPreserves ==
  ASSUME IInv, Next
  PROVE  IInv'
<1>1. TypeOK /\ QueueIn /\ Told /\ Kept /\ Marked /\ Streams /\ Shown
      /\ RecentLogsStored /\ StoredLogsBounded
  BY DEF IInv
<1>2. TypeOK'
  BY <1>1, TypePreserved
<1>3. QueueIn' /\ Told'
  BY <1>1, RowsPreserved
<1>4. Kept' /\ Marked'
  BY <1>1, LogsPreserved
<1>5. Streams'
  BY <1>1, StreamsPreserved
<1>6. Shown'
  BY <1>1, ShownPreserved
<1>7. RecentLogsStored'
  BY <1>1, <1>4, RecentPreserved
<1>8. StoredLogsBounded'
  BY <1>1, BoundedPreserved
<1> QED BY <1>2, <1>3, <1>4, <1>5, <1>6, <1>7, <1>8 DEF IInv

LEMMA StutterPreserves ==
  ASSUME IInv, UNCHANGED vars
  PROVE  IInv'
<1> USE DEF vars, jobvars, store, tabs, wires, faults
<1>1. TypeOK' /\ QueueIn' /\ Told' /\ Kept' /\ Marked'
  BY DEF IInv, TypeOK, QueueIn, Told, Kept, Marked
<1>2. Streams' /\ Shown'
  BY DEF IInv, Streams, Shown
<1>3. RecentLogsStored' /\ StoredLogsBounded'
  BY DEF IInv, RecentLogsStored, StoredLogsBounded, Rows
<1> QED BY <1>1, <1>2, <1>3 DEF IInv

-----------------------------------------------------------------------------
(* The inductive invariant: where a job is tells what its row says and what*)
(* memory and row hold of its log, and ties every stream, and every page,  *)
(* to the job it is about.                                                 *)
THEOREM Invariance == Spec => []IInv
<1>1. IInv /\ [Next]_vars => IInv'
  BY NextPreserves, StutterPreserves
<1> QED BY InitEstablishes, <1>1, PTL DEF Spec

(* Every variable keeps its type. *)
THEOREM TypeCorrect == Spec => []TypeOK
<1>1. IInv => TypeOK
  BY DEF IInv
<1> QED BY Invariance, <1>1, PTL

(* A page that subscribed to a job at any moment is sent the whole of its  *)
(* log, each line once and in order, whatever the number of pages and the  *)
(* length of the log; and has all of it when it is told the end.           *)
THEOREM StreamsAreWhole == Spec => []StreamIsWhole
<1>1. IInv => StreamIsWhole
  BY DEF IInv, Streams, StreamIsWhole
<1> QED BY Invariance, <1>1, PTL

(* No purge, of the panel or of the scheduler child, takes the stored log  *)
(* of a job that is among the Keep newest.                                 *)
THEOREM RecentLogsAreStored == Spec => []RecentLogsStored
<1>1. IInv => RecentLogsStored
  BY DEF IInv
<1> QED BY Invariance, <1>1, PTL

(* In whatever order jobs finish, no more than Keep logs stay in the rows. *)
THEOREM LogsAreBounded == Spec => []StoredLogsBounded
<1>1. IInv => StoredLogsBounded
  BY DEF IInv
<1> QED BY Invariance, <1>1, PTL

(* A page that neither streams nor reloads is that of a job that has ended,*)
(* or of a run of the scheduler: no page of a job that the panel has to    *)
(* start or is running is left without either.                             *)
THEOREM StaticPagesEnded == Spec => []StaticPagesAreOfEndedJobs
<1>1. IInv => StaticPagesAreOfEndedJobs
  BY DEF IInv, Shown, StaticPagesAreOfEndedJobs
<1> QED BY Invariance, <1>1, PTL

-----------------------------------------------------------------------------
(* Refinement of LogStream *)

(* A step that concerns one page moves that page only. *)
LEMMA PageMoves ==
  ASSUME NEW p \in Pages,
         \A q \in Pages : q # p => /\ conn'[q] = conn[q] /\ view'[q] = view[q]
                                   /\ got'[q] = got[q] /\ job'[q] = job[q]
  PROVE  /\ stageBar' = [stageBar EXCEPT ![p] = Stage(p)']
         /\ ofBar' = [ofBar EXCEPT ![p] = IF Stage(p)' = "away" THEN NoJob ELSE job'[p]]
         /\ sentBar' = [sentBar EXCEPT ![p] = IF Stage(p)' = "away" THEN <<>> ELSE got'[p]]
<1>1. \A q \in Pages : q # p => Stage(q)' = Stage(q)
  BY DEF Stage
<1>2. stageBar' = [stageBar EXCEPT ![p] = Stage(p)']
  <2>1. \A q \in Pages : stageBar'[q] = Stage(q)' /\ stageBar[q] = Stage(q)
    BY DEF stageBar
  <2> QED BY <1>1, <2>1 DEF stageBar
<1>3. ofBar' = [ofBar EXCEPT ![p] = IF Stage(p)' = "away" THEN NoJob ELSE job'[p]]
  BY <1>1 DEF ofBar
<1>4. sentBar' = [sentBar EXCEPT ![p] = IF Stage(p)' = "away" THEN <<>> ELSE got'[p]]
  BY <1>1 DEF sentBar
<1> QED BY <1>2, <1>3, <1>4

bars == <<lines, stageBar, ofBar, sentBar>>

(* A page that is away afterwards has left, or was away. *)
LEMMA PageEnds ==
  ASSUME NEW p \in Pages, UNCHANGED lines, Stage(p)' = "away",
         \A q \in Pages : q # p => /\ conn'[q] = conn[q] /\ view'[q] = view[q]
                                   /\ got'[q] = got[q] /\ job'[q] = job[q]
  PROVE  LogStream!Leave(p) \/ UNCHANGED bars
<1>1. /\ stageBar' = [stageBar EXCEPT ![p] = "away"]
      /\ ofBar' = [ofBar EXCEPT ![p] = NoJob]
      /\ sentBar' = [sentBar EXCEPT ![p] = <<>>]
  BY PageMoves
<1>2. CASE Stage(p) # "away"
  <2>1. stageBar[p] # "away"
    BY <1>2 DEF stageBar
  <2> QED BY <1>1, <2>1 DEF LogStream!Leave
<1>3. CASE Stage(p) = "away"
  <2>1. stageBar[p] = "away" /\ ofBar[p] = NoJob /\ sentBar[p] = <<>>
    BY <1>3 DEF stageBar, ofBar, sentBar
  <2> QED BY <1>1, <2>1 DEF bars, stageBar, ofBar, sentBar
<1> QED BY <1>2, <1>3

LEMMA PagesStay ==
  ASSUME UNCHANGED <<conn, view, got, job>>
  PROVE  UNCHANGED <<stageBar, ofBar, sentBar>>
BY DEF stageBar, ofBar, sentBar, Stage

(* What a job publishes it writes to a log that has not ended. *)
LEMMA PublishWrites ==
  ASSUME TypeOK, Marked, NEW j \in Jobs, NEW ls \in Batches,
         Publish(j, ls), phase[j] # "over", UNCHANGED <<view, job>>
  PROVE  LogStream!Write(j, ls)
<1>1. ls \in Text
  BY Texts DEF Batches, Marks
<1>2. ~LogStream!Ended(j)
  BY DEF LogStream!Ended, Marked
<1>3. lines' = [lines EXCEPT ![j] = lines[j] \o ls] /\ UNCHANGED <<conn, got>>
  BY DEF Publish, KeptLines
<1>4. UNCHANGED <<stageBar, ofBar, sentBar>>
  BY <1>3, PagesStay
<1> QED BY <1>2, <1>3, <1>4 DEF LogStream!Write

LEMMA JobImplements ==
  ASSUME TypeOK, Marked, NEW j \in Jobs,
         OpenLog(j) \/ Output(j) \/ Over(j) \/ \E failure \in {<<>>, <<"error">>} : Finalize(j, failure)
  PROVE  (\E ls \in Batches : LogStream!Write(j, ls)) \/ UNCHANGED bars
<1> USE DEF tabs, wires
<1>1. phase[j] # "over" /\ UNCHANGED <<view, job>>
  BY DEF OpenLog, Output, Over, Finalize
<1>2. \/ \E ls \in Batches : Publish(j, ls)
      \/ Publish(j, <<>>)
      \/ UNCHANGED <<lines, conn, got>>
  BY DEF OpenLog, Output, Over, Finalize, Batches
<1>3. CASE UNCHANGED <<lines, conn, got>>
  BY <1>1, <1>3, PagesStay DEF bars
<1>4. CASE Publish(j, <<>>)
  <2>1. lines[j] \o <<>> = lines[j] /\ lines \in [Jobs -> Text]
    BY ConcatEmptySeq DEF TypeOK, Text
  <2>2. lines' = [lines EXCEPT ![j] = lines[j] \o <<>>] /\ UNCHANGED <<conn, got>>
    BY <1>4 DEF Publish, KeptLines
  <2>3. UNCHANGED lines
    BY <2>1, <2>2
  <2> QED BY <1>1, <2>2, <2>3, PagesStay DEF bars
<1> QED BY <1>1, <1>2, <1>3, <1>4, PublishWrites

(* The next line of a subscriber's queue is the next one of the log. *)
LEMMA FeedSends ==
  ASSUME TypeOK, Streams, NEW p \in Pages, Feed(p)
  PROVE  LogStream!Send(p)
<1> DEFINE g == got[p]
           f == fifo[p]
           line == Head(f)
<1>1. /\ conn[p] = "fed" /\ f # <<>> /\ got' = [got EXCEPT ![p] = Append(g, line)]
      /\ g \in Text /\ f \in Text /\ g \o f = lines[job[p]]
      /\ UNCHANGED <<lines, job>> /\ line \in Line
  <2>1. f \in Seq(Line) /\ f # <<>> => line \in Line
    BY HeadTailProperties
  <2> QED BY <2>1 DEF Feed, Streams, TypeOK, Text, jobvars
<1>2. /\ Len(g) < Len(lines[job[p]]) /\ lines[job[p]][Len(g) + 1] = line
  <2>1. /\ Len(g \o f) = Len(g) + Len(f) /\ Len(g) \in Nat /\ Len(f) \in Nat /\ Len(f) >= 1
        /\ (g \o f)[Len(g) + 1] = line
    BY <1>1, HeadMoves
  <2> HIDE DEF g, f, line
  <2> QED BY <1>1, <2>1
<1>3. stageBar[p] = "following" /\ ofBar[p] = job[p] /\ sentBar[p] = g
  BY <1>1 DEF stageBar, ofBar, sentBar, Stage
<1>4. Append(g, line) # <<>>
  <2>1. g \in Seq(Line) /\ line \in Line
    BY <1>1 DEF Text
  <2> HIDE DEF g, line
  <2>2. Len(Append(g, line)) = Len(g) + 1 /\ Len(g) \in Nat
    BY <2>1, AppendProperties
  <2> QED BY <2>2
<1>5. Stage(p)' = IF line = "DONE" THEN "told" ELSE "following"
  <2>1. got'[p] # <<>>
    BY <1>1, <1>4 DEF TypeOK
  <2>2. CASE line = "DONE"
    <3>1. conn' = [conn EXCEPT ![p] = "none"] /\ view' = [view EXCEPT ![p] = "finishing"]
      BY <2>2 DEF Feed
    <3> QED BY <2>1, <2>2, <3>1 DEF Stage, TypeOK
  <2>3. CASE line # "DONE"
    <3>1. UNCHANGED conn
      BY <2>3 DEF Feed
    <3> QED BY <1>1, <2>3, <3>1 DEF Stage
  <2> QED BY <2>2, <2>3
<1>6. \A q \in Pages : q # p => /\ conn'[q] = conn[q] /\ view'[q] = view[q]
                                /\ got'[q] = got[q] /\ job'[q] = job[q]
  BY DEF Feed, TypeOK
<1>7. /\ stageBar' = [stageBar EXCEPT ![p] = Stage(p)']
      /\ ofBar' = [ofBar EXCEPT ![p] = job[p]]
      /\ sentBar' = [sentBar EXCEPT ![p] = Append(g, line)]
  <2>1. Stage(p)' # "away" /\ job'[p] = job[p] /\ got'[p] = Append(g, line)
    BY <1>1, <1>5 DEF TypeOK
  <2> QED BY <1>6, <2>1, PageMoves
<1>8. UNCHANGED <<lines, ofBar>>
  BY <1>1, <1>3, <1>7 DEF ofBar
<1> HIDE DEF g, line
<1> QED BY <1>2, <1>3, <1>5, <1>7, <1>8 DEF LogStream!Send

LEMMA SubscribeFollows ==
  ASSUME TypeOK, Streams, NEW p \in Pages, Subscribe(p)
  PROVE  job[p] \in Jobs /\ LogStream!Follow(p, job[p])
<1>1. /\ conn[p] = "asked" /\ conn' = [conn EXCEPT ![p] = "fed"] /\ view[p] = "live" /\ got[p] = <<>>
      /\ job[p] \in Jobs /\ UNCHANGED <<lines, view, job, got>>
  BY DEF Subscribe, Streams, jobvars, tabs
<1>2. stageBar[p] = "away" /\ sentBar[p] = <<>>
  BY <1>1 DEF stageBar, sentBar, Stage
<1>3. Stage(p)' = "following"
  BY <1>1 DEF Stage, TypeOK
<1>4. \A q \in Pages : q # p => conn'[q] = conn[q]
  BY <1>1 DEF TypeOK
<1>5. /\ stageBar' = [stageBar EXCEPT ![p] = "following"]
      /\ ofBar' = [ofBar EXCEPT ![p] = job[p]]
      /\ sentBar' = [sentBar EXCEPT ![p] = <<>>]
  BY <1>1, <1>3, <1>4, PageMoves
<1>6. UNCHANGED sentBar
  BY <1>2, <1>5 DEF sentBar
<1> QED BY <1>1, <1>2, <1>5, <1>6 DEF LogStream!Follow

LEMMA CrashLoses ==
  ASSUME Crash
  PROVE  LogStream!Lose
<1>1. \A p \in Pages : Stage(p)' = "away"
  BY DEF Crash, Stage
<1>2. /\ stageBar' = [p \in Pages |-> "away"]
      /\ ofBar' = [p \in Pages |-> NoJob]
      /\ sentBar' = [p \in Pages |-> <<>>]
  BY <1>1 DEF stageBar, ofBar, sentBar
<1> QED BY <1>2 DEF Crash, LogStream!Lose

LEMMA StepImplements ==
  ASSUME TypeOK, Marked, Streams, Next
  PROVE  LogStream!Next \/ UNCHANGED bars
<1> USE DEF jobvars, store, tabs, wires, faults
<1>1. ASSUME NEW j \in Jobs,
             OpenLog(j) \/ Output(j) \/ Over(j) \/ \E failure \in {<<>>, <<"error">>} : Finalize(j, failure)
      PROVE  LogStream!Next \/ UNCHANGED bars
  BY <1>1, JobImplements DEF LogStream!Next
<1>2. ASSUME UNCHANGED <<lines, conn, view, got, job>>
      PROVE  UNCHANGED bars
  BY <1>2, PagesStay DEF bars
<1>3. ASSUME NEW j \in Jobs,
             \/ Submit(j) \/ SubmitLeavesRow(j) \/ AbroadBegins(j) \/ AbroadEnds(j) \/ WriteRunning(j)
             \/ Sweep(j) \/ HousekeepingRaises(j) \/ Purge(j) \/ Cancel(j)
      PROVE  UNCHANGED bars
  BY <1>2, <1>3 DEF Submit, SubmitLeavesRow, AbroadBegins, AbroadEnds, WriteRunning, Sweep,
                    HousekeepingRaises, Purge, Cancel
<1>4. CASE Promote \/ Restart \/ ChildSweeps \/ ChildPurges
  BY <1>2, <1>4 DEF Promote, Restart, ChildSweeps, ChildPurges
<1>5. CASE Crash
  BY <1>5, CrashLoses DEF LogStream!Next
<1>6. ASSUME NEW p \in Pages,
             Render(p) \/ Reload(p) \/ (\E j \in Jobs : Open(p, j)) \/ Connect(p) \/ Drop(p)
      PROVE  LogStream!Next \/ UNCHANGED bars
  <2>1. /\ UNCHANGED lines
        /\ \A q \in Pages : q # p => /\ conn'[q] = conn[q] /\ view'[q] = view[q]
                                     /\ got'[q] = got[q] /\ job'[q] = job[q]
    BY <1>6 DEF Render, Reload, Open, ReadRow, Connect, Drop, TypeOK
  <2>2. CASE Render(p) \/ Reload(p) \/ \E j \in Jobs : Open(p, j)
    <3>1. conn'[p] = "none" /\ view'[p] # "finishing"
      BY <2>2 DEF Render, Reload, Open, ReadRow, Streams, TypeOK
    <3> QED BY <2>1, <3>1, PageEnds DEF Stage, LogStream!Next
  <2>3. CASE Connect(p) \/ Drop(p)
    <3>1. conn'[p] # "fed" /\ got'[p] = <<>>
      BY <2>3 DEF Connect, Drop, TypeOK
    <3> QED BY <2>1, <3>1, PageEnds DEF Stage, LogStream!Next
  <2> QED BY <1>6, <2>2, <2>3
<1>7. ASSUME NEW p \in Pages, Subscribe(p)
      PROVE  LogStream!Next
  BY <1>7, SubscribeFollows DEF LogStream!Next
<1>8. ASSUME NEW p \in Pages, Feed(p)
      PROVE  LogStream!Next
  BY <1>8, FeedSends DEF LogStream!Next
<1> QED BY <1>1, <1>3, <1>4, <1>5, <1>6, <1>7, <1>8 DEF Next, JobStep, TabStep

(* The queues of the subscribers, filled by the backlog and by publish()   *)
(* between the awaits of the streams, keep the promise of LogStream: every *)
(* line of the job once, in order, and the end last, for any number of     *)
(* jobs, pages and lines, through lost connections and crashes.            *)
THEOREM Refinement == Spec => ImplementsLogStream
<1>1. Init => LogStream!Init
  <2> SUFFICES ASSUME Init PROVE LogStream!Init
    OBVIOUS
  <2>1. \A p \in Pages : Stage(p) = "away"
    BY DEF Init, Stage
  <2> QED BY <2>1 DEF Init, LogStream!Init, stageBar, ofBar, sentBar
<1>2. IInv /\ [Next]_vars => [LogStream!Next]_<<lines, stageBar, ofBar, sentBar>>
  <2> SUFFICES ASSUME IInv, [Next]_vars PROVE LogStream!Next \/ UNCHANGED bars
    BY DEF bars
  <2>1. CASE Next
    BY <2>1, StepImplements DEF IInv
  <2>2. CASE UNCHANGED vars
    BY <2>2, PagesStay DEF bars, vars, jobvars, tabs, wires
  <2> QED BY <2>1, <2>2
<1> QED BY <1>1, <1>2, Invariance, PTL DEF Spec, ImplementsLogStream, LogStream!Spec
=============================================================================
