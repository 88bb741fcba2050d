----------------------------- MODULE SseProofs -----------------------------
(***************************************************************************)
(* Safety of the server-sent-events extension, for every page: any forest  *)
(* of elements, any attributes, any number of sources, retries and faults. *)
(***************************************************************************)
EXTENDS Sse, TLAPS

(* Sources are opened in order, only for elements with sse-connect. *)
Counted ==
  /\ \A e \in Elements : recorded[e] <= opened[e] /\ (opened[e] # 0 => e \in SseConnect)
  /\ \A s \in Sources : state[s] = "none" <=> s[2] > opened[s[1]]

(* What no message has brought yet is in no page and has no source. *)
Outside ==
  /\ unused \subseteq Later
  /\ unused \cap (linked \cup settling \cup todo) = {}
  /\ \A e \in Elements : \A a \in Above[e] : a \in unused => e \in unused
  /\ \A e \in unused : opened[e] = 0

(* A pass of htmx comes to new or processed elements only, and to one that *)
(* stands alone but once.                                                  *)
Visits ==
  /\ settling \subseteq Later
  /\ todo \subseteq Processed \cup Later
  /\ settling \cap todo \cap {e \in Elements : Alone(e)} = {}
  /\ \A e \in settling \cup todo : Alone(e) => opened[e] = 0

(* A source with a timer is closed; while an element that stands alone     *)
(* waits for a timer it has no live source and no other timer.             *)
Timers ==
  /\ \A s \in retry : state[s] = "closed"
  /\ \A s \in retry : \A t \in Sources :
       Alone(s[1]) /\ t[1] = s[1] => ~Live(t) /\ (t \in retry => t = s)

(* The event being dispatched is one of a source that had no timer. *)
Dispatched == calls # Quiet => from \in Sources \ retry /\ state[from] # "none"

IInv ==
  /\ TypeOK
  /\ Counted
  /\ Outside
  /\ Visits
  /\ Timers
  /\ Dispatched
  /\ LiveSourceIsRecorded
  /\ BrokenStreamIsRetried

-----------------------------------------------------------------------------
(* The page *)

LEMMA UnderSelf ==
  ASSUME NEW r \in Elements
  PROVE  r \in Under(r)
BY PageAssumption DEF Under, Path

LEMMA UnderLinked ==
  ASSUME NEW r \in Elements, NEW d \in Under(r)
  PROVE  d \in Elements /\ r \in Above[d] /\ (d # r => d \in linked)
BY PageAssumption DEF Under, Path

(* An element that stands alone is opened by nothing but itself. *)
LEMMA AloneUnder ==
  ASSUME NEW r \in SseConnect \cup Processed \cup Later, r \in Elements,
         NEW e \in Under(r), Alone(e)
  PROVE  r = e
BY UnderLinked DEF Alone

LEMMA SourceParts ==
  ASSUME NEW s \in Sources
  PROVE  s[1] \in Elements /\ s[2] \in 1..MaxSources /\ s = <<s[1], s[2]>>
BY DEF Sources

LEMMA Successor ==
  ASSUME NEW e \in Elements, NEW n \in Nat, n < MaxSources
  PROVE  <<e, n + 1>> \in Sources
BY BoundAssumption DEF Sources

-----------------------------------------------------------------------------
(* Init *)

LEMMA InitEstablishes == Init => IInv
<1> SUFFICES ASSUME Init PROVE IInv
  OBVIOUS
<1> USE DEF Init
<1>1. TypeOK
  <2>1. /\ hears \in [Sources -> [Slots -> Nat]] /\ calls \in [Slots -> Nat]
    BY DEF Quiet
  <2>2. /\ recorded \in [Elements -> 0..MaxSources] /\ opened \in [Elements -> 0..MaxSources]
        /\ tries \in [Sources -> 0..MaxTries] /\ faults \in 0..MaxFaults
    BY BoundAssumption
  <2>3. state \in [Sources -> {"none", "connecting", "open", "closed"}]
    OBVIOUS
  <2> QED BY <2>1, <2>2, <2>3, PageAssumption DEF TypeOK
<1>2. Counted
  BY SourceParts DEF Counted
<1>3. Outside
  BY PageAssumption DEF Outside
<1>4. Visits
  BY PageAssumption DEF Visits, Alone
<1>5. Timers /\ Dispatched
  BY DEF Timers, Dispatched
<1>6. LiveSourceIsRecorded /\ BrokenStreamIsRetried
  BY DEF LiveSourceIsRecorded, BrokenStreamIsRetried, Live
<1> QED BY <1>1, <1>2, <1>3, <1>4, <1>5, <1>6 DEF IInv

-----------------------------------------------------------------------------
(* Opening sources *)

LEMMA ClosedType ==
  ASSUME TypeOK, NEW es
  PROVE  Closed(es) \in [Sources -> {"none", "connecting", "open", "closed"}]
BY DEF TypeOK, Closed

LEMMA ClosedStates ==
  ASSUME NEW es, NEW s \in Sources
  PROVE  /\ Closed(es)[s] \in {state[s], "closed"}
         /\ s[1] \notin es => Closed(es)[s] = state[s]
         /\ s[1] \in es /\ recorded[s[1]] = s[2] => Closed(es)[s] = "closed"
         /\ ~(s[1] \in es /\ recorded[s[1]] = s[2]) => Closed(es)[s] = state[s]
BY DEF Closed

(* What a pass over r opens and hears, typed and counted. *)
LEMMA EnsureTyped ==
  ASSUME TypeOK, Counted, NEW r \in Elements, NEW n \in 0..MaxTries,
         NEW st \in [Sources -> {"none", "connecting", "open", "closed"}],
         NEW rec \in [Elements -> 0..MaxSources],
         \A s \in Sources : st[s] = "none" <=> state[s] = "none",
         \A e \in Elements : rec[e] <= opened[e],
         Ensure(r, n, st, rec)
  PROVE  /\ recorded' \in [Elements -> 0..MaxSources]
         /\ opened' \in [Elements -> 0..MaxSources]
         /\ state' \in [Sources -> {"none", "connecting", "open", "closed"}]
         /\ tries' \in [Sources -> 0..MaxTries]
         /\ hears' \in [Sources -> [Slots -> Nat]]
         /\ Counted'
<1> DEFINE new == Under(r) \cap SseConnect
<1>1. /\ \A e \in new : opened[e] < MaxSources
      /\ opened' = [e \in Elements |-> IF e \in new THEN opened[e] + 1 ELSE opened[e]]
      /\ recorded' = [e \in Elements |-> IF e \in new THEN opened[e] + 1 ELSE rec[e]]
      /\ state' = [s \in Sources |->
                     IF s[1] \in new /\ s[2] = opened[s[1]] + 1 THEN "connecting" ELSE st[s]]
      /\ tries' = [s \in Sources |->
                     IF s[1] \in new /\ s[2] = opened[s[1]] + 1 THEN n ELSE tries[s]]
      /\ hears' = [s \in Sources |-> [x \in Slots |-> hears[s][x] + Registered(r, recorded', s, x)]]
  BY DEF Ensure, Opening
<1>2. MaxSources \in Nat /\ MaxTries \in Nat
  BY BoundAssumption
<1>3. \A e \in Elements : opened[e] \in 0..MaxSources
  BY DEF TypeOK
<1>4. \A e \in Elements : opened'[e] \in 0..MaxSources /\ recorded'[e] \in 0..MaxSources
  BY <1>1, <1>2, <1>3
<1>5. state' \in [Sources -> {"none", "connecting", "open", "closed"}]
  BY <1>1
<1>6. tries' \in [Sources -> 0..MaxTries]
  BY <1>1 DEF TypeOK
<1>7. hears' \in [Sources -> [Slots -> Nat]]
  <2>1. \A s \in Sources, x \in Slots : Registered(r, recorded', s, x) \in {0, 1}
    BY DEF Registered
  <2>2. \A s \in Sources, x \in Slots : hears[s][x] + Registered(r, recorded', s, x) \in Nat
    <3>1. \A s \in Sources, x \in Slots : hears[s][x] \in Nat
      BY DEF TypeOK
    <3> QED BY <3>1, <2>1
  <2>3. hears' = [s \in Sources |-> [x \in Slots |-> hears[s][x] + Registered(r, recorded', s, x)]]
    BY <1>1
  <2> QED BY <2>2, <2>3
<1>8. Counted'
  <2>1. \A e \in Elements : recorded'[e] <= opened'[e] /\ (opened'[e] # 0 => e \in SseConnect)
    BY <1>1, <1>3, <1>2 DEF Counted
  <2>2. ASSUME NEW s \in Sources
        PROVE  state'[s] = "none" <=> s[2] > opened'[s[1]]
    <3>1. s[1] \in Elements /\ s[2] \in 1..MaxSources
      BY SourceParts
    <3>2. CASE s[1] \in new
      BY <3>1, <3>2, <1>1, <1>2, <1>3 DEF Counted
    <3>3. CASE s[1] \notin new
      BY <3>1, <3>3, <1>1, <1>2, <1>3 DEF Counted
    <3> QED BY <3>2, <3>3
  <2> QED BY <2>1, <2>2 DEF Counted
<1>9. recorded' \in [Elements -> 0..MaxSources] /\ opened' \in [Elements -> 0..MaxSources]
  BY <1>1, <1>4
<1> QED BY <1>5, <1>6, <1>7, <1>8, <1>9

(* The states a pass over r leaves behind. *)
LEMMA EnsureStates ==
  ASSUME TypeOK, NEW r \in Elements, NEW n, NEW st, NEW rec, Ensure(r, n, st, rec)
  PROVE  /\ \A e \in Elements :
              /\ e \in Under(r) \cap SseConnect =>
                    recorded'[e] = opened[e] + 1 /\ opened'[e] = opened[e] + 1
              /\ e \notin Under(r) \cap SseConnect =>
                    recorded'[e] = rec[e] /\ opened'[e] = opened[e]
         /\ \A s \in Sources :
              /\ s[1] \in Under(r) \cap SseConnect /\ s[2] = opened[s[1]] + 1
                    => state'[s] = "connecting"
              /\ ~(s[1] \in Under(r) \cap SseConnect /\ s[2] = opened[s[1]] + 1)
                    => state'[s] = st[s]
BY DEF Ensure, Opening

-----------------------------------------------------------------------------
(* htmx's pass and the timer *)

LEMMA ProcessNodePreserves ==
  ASSUME IInv, NEW e \in Elements, ProcessNode(e)
  PROVE  IInv'
<1> DEFINE st == Closed({e})
           rec == [recorded EXCEPT ![e] = 0]
<1> USE DEF IInv
<1>1. /\ e \in todo /\ todo' = todo \ {e} /\ hashed' = hashed \cup {e}
      /\ UNCHANGED <<linked, unused, settling, retry, calls, from, faults>>
  BY DEF ProcessNode
<1>2. \/ Ensure(e, 0, st, rec)
      \/ state' = st /\ recorded' = rec /\ UNCHANGED <<opened, tries, hears>>
  BY DEF ProcessNode
<1>3. /\ st \in [Sources -> {"none", "connecting", "open", "closed"}]
      /\ rec \in [Elements -> 0..MaxSources]
      /\ \A d \in Elements : rec[d] = IF d = e THEN 0 ELSE recorded[d]
  BY ClosedType, BoundAssumption DEF TypeOK
<1>4. \A s \in Sources : st[s] = "none" <=> state[s] = "none"
  <2> SUFFICES ASSUME NEW s \in Sources PROVE st[s] = "none" <=> state[s] = "none"
    OBVIOUS
  <2>1. CASE s[1] = e /\ recorded[s[1]] = s[2]
    <3>1. s[1] \in Elements /\ s[2] \in 1..MaxSources
      BY SourceParts
    <3>2. recorded[s[1]] \in 0..MaxSources /\ opened[s[1]] \in 0..MaxSources
      BY <3>1 DEF TypeOK
    <3>3. state[s] # "none"
      BY <2>1, <3>1, <3>2, BoundAssumption DEF Counted
    <3> QED BY <2>1, <3>3, ClosedStates
  <2>2. CASE ~(s[1] = e /\ recorded[s[1]] = s[2])
    BY <2>2, ClosedStates
  <2> QED BY <2>1, <2>2
<1>5. \A d \in Elements : rec[d] <= opened[d]
  BY <1>3, BoundAssumption DEF TypeOK, Counted
<1>c. \A s \in Sources :
        /\ st[s] \in {state[s], "closed"}
        /\ s[1] # e => st[s] = state[s]
        /\ s[1] = e /\ recorded[s[1]] = s[2] => st[s] = "closed"
        /\ ~(s[1] = e /\ recorded[s[1]] = s[2]) => st[s] = state[s]
  BY ClosedStates
<1> HIDE DEF st, rec
<1>6. /\ recorded' \in [Elements -> 0..MaxSources] /\ opened' \in [Elements -> 0..MaxSources]
      /\ state' \in [Sources -> {"none", "connecting", "open", "closed"}]
      /\ tries' \in [Sources -> 0..MaxTries] /\ hears' \in [Sources -> [Slots -> Nat]]
      /\ Counted'
  <2>1. CASE Ensure(e, 0, st, rec)
    <3>1. 0 \in 0..MaxTries
      BY BoundAssumption
    <3> QED BY <2>1, <3>1, <1>3, <1>4, <1>5, EnsureTyped
  <2>2. CASE state' = st /\ recorded' = rec /\ UNCHANGED <<opened, tries, hears>>
    BY <2>2, <1>3, <1>4, <1>5 DEF Counted, TypeOK
  <2> QED BY <1>2, <2>1, <2>2
<1>7. \A d \in Elements :
        \/ d \in Under(e) \cap SseConnect /\ recorded'[d] = opened[d] + 1 /\ opened'[d] = opened[d] + 1
        \/ d # e /\ recorded'[d] = recorded[d] /\ opened'[d] = opened[d]
        \/ d = e /\ recorded'[d] = 0 /\ opened'[d] = opened[d]
  <2>1. CASE Ensure(e, 0, st, rec)
    <3> SUFFICES ASSUME NEW d \in Elements
                 PROVE  \/ d \in Under(e) \cap SseConnect /\ recorded'[d] = opened[d] + 1 /\ opened'[d] = opened[d] + 1
                        \/ d # e /\ recorded'[d] = recorded[d] /\ opened'[d] = opened[d]
                        \/ d = e /\ recorded'[d] = 0 /\ opened'[d] = opened[d]
      OBVIOUS
    <3> QED BY <2>1, <1>3, EnsureStates
  <2>2. CASE state' = st /\ recorded' = rec /\ UNCHANGED <<opened, tries, hears>>
    BY <2>2, <1>3
  <2> QED BY <1>2, <2>1, <2>2
<1>8. \A s \in Sources :
        \/ /\ s[1] \in Under(e) \cap SseConnect /\ s[2] = opened[s[1]] + 1
           /\ state'[s] = "connecting" /\ recorded'[s[1]] = s[2]
        \/ /\ ~(s[1] \in Under(e) \cap SseConnect /\ s[2] = opened[s[1]] + 1 /\ recorded'[s[1]] = s[2])
           /\ state'[s] = st[s]
  <2> SUFFICES ASSUME NEW s \in Sources
               PROVE  \/ /\ s[1] \in Under(e) \cap SseConnect /\ s[2] = opened[s[1]] + 1
                         /\ state'[s] = "connecting" /\ recorded'[s[1]] = s[2]
                      \/ /\ ~(s[1] \in Under(e) \cap SseConnect /\ s[2] = opened[s[1]] + 1
                             /\ recorded'[s[1]] = s[2])
                         /\ state'[s] = st[s]
    OBVIOUS
  <2>1. s[1] \in Elements /\ s[2] \in 1..MaxSources
    BY SourceParts
  <2>2. CASE Ensure(e, 0, st, rec)
    BY <2>1, <2>2, EnsureStates
  <2>3. CASE state' = st /\ recorded' = rec /\ UNCHANGED <<opened, tries, hears>>
    <3>1. recorded[s[1]] <= opened[s[1]] /\ opened[s[1]] \in Nat /\ recorded[s[1]] \in Nat
      BY <2>1, BoundAssumption DEF Counted, TypeOK
    <3> QED BY <2>1, <2>3, <3>1, <1>3
  <2> QED BY <1>2, <2>2, <2>3
<1>9. TypeOK'
  BY <1>1, <1>6 DEF TypeOK
<1>10. Outside'
  <2>1. \A d \in unused : opened'[d] = 0
    <3> SUFFICES ASSUME NEW d \in unused PROVE opened'[d] = 0
      OBVIOUS
    <3>1. d \in Elements /\ opened[d] = 0 /\ d # e /\ d \notin linked
      BY <1>1 DEF Outside, TypeOK
    <3>2. d \notin Under(e)
      BY <3>1, UnderLinked
    <3> QED BY <3>1, <3>2, <1>7
  <2> QED BY <1>1, <2>1 DEF Outside
<1>11. \A d \in Under(e) : Alone(d) => d = e
  BY <1>1, AloneUnder DEF Visits
<1>12. Visits'
  <2>1. \A d \in settling' \cup todo' : Alone(d) => opened'[d] = 0
    <3> SUFFICES ASSUME NEW d \in settling' \cup todo', Alone(d) PROVE opened'[d] = 0
      OBVIOUS
    <3>1. d \in settling \cup todo /\ d \in Elements
      BY <1>1 DEF TypeOK
    <3>2. d # e
      BY <1>1, <3>1 DEF Visits
    <3>3. opened[d] = 0 /\ d \notin Under(e)
      BY <3>1, <3>2, <1>11 DEF Visits
    <3> QED BY <3>1, <3>2, <3>3, <1>7
  <2> QED BY <1>1, <2>1 DEF Visits
<1>13. Alone(e) => opened[e] = 0
  BY <1>1 DEF Visits
<1>14. LiveSourceIsRecorded'
  <2> SUFFICES ASSUME NEW s \in Sources, Alone(s[1]), Live(s)' PROVE recorded'[s[1]] = s[2]
    BY DEF LiveSourceIsRecorded
  <2>1. s[1] \in Elements /\ s[2] \in 1..MaxSources
    BY SourceParts
  <2>2. CASE state'[s] = "connecting" /\ recorded'[s[1]] = s[2]
    BY <2>2
  <2>3. CASE state'[s] = st[s] /\ ~(recorded'[s[1]] = s[2])
    <3>1. state[s] # "closed" /\ st[s] = state[s] /\ Live(s)
      BY <2>3, <1>c DEF Live
    <3>2. recorded[s[1]] = s[2] /\ opened[s[1]] # 0
      BY <3>1, <2>1, BoundAssumption DEF LiveSourceIsRecorded, Counted, TypeOK
    <3>3. s[1] # e
      BY <3>2, <1>13
    <3> QED BY <3>2, <3>3, <2>1, <2>3, <1>7, <1>11
  <2> QED BY <1>8, <2>2, <2>3
<1>15. Timers'
  <2>1. ASSUME NEW s \in retry PROVE state'[s] = "closed"
    <3>1. s \in Sources /\ state[s] = "closed" /\ s[1] \in Elements /\ s[2] \in 1..MaxSources
      BY SourceParts DEF Timers, TypeOK
    <3>2. st[s] = "closed"
      BY <3>1, <1>c
    <3>3. s[2] # opened[s[1]] + 1
      BY <3>1, BoundAssumption DEF Counted, TypeOK
    <3> QED BY <3>1, <3>2, <3>3, <1>8
  <2>2. ASSUME NEW s \in retry, NEW t \in Sources, Alone(s[1]), t[1] = s[1]
        PROVE  ~Live(t)' /\ (t \in retry => t = s)
    <3>1. s \in Sources /\ ~Live(t) /\ (t \in retry => t = s) /\ s[1] \in Elements
      BY <2>2, SourceParts DEF Timers, TypeOK
    <3>2. opened[s[1]] # 0
      BY <3>1, <2>2, SourceParts, BoundAssumption DEF Timers, Counted, TypeOK
    <3>3. s[1] \notin Under(e)
      BY <3>2, <2>2, <1>11, <1>13
    <3>4. state'[t] = st[t]
      BY <3>3, <2>2, <1>8
    <3> QED BY <3>1, <3>4, <1>c DEF Live
  <2> QED BY <1>1, <2>1, <2>2 DEF Timers
<1>16. Dispatched'
  <2>1. ASSUME from \in Sources, state[from] # "none" PROVE state'[from] # "none"
    <3>1. st[from] # "none"
      BY <2>1, <1>c
    <3> QED BY <3>1, <1>8, <2>1
  <2> QED BY <1>1, <2>1 DEF Dispatched
<1>17. BrokenStreamIsRetried'
  <2> SUFFICES ASSUME NEW s \in Sources, recorded'[s[1]] = s[2], state'[s] = "closed", InPage(s[1])'
               PROVE  s \in retry
    BY <1>1 DEF BrokenStreamIsRetried
  <2>1. s[1] \in Elements /\ s[2] \in 1..MaxSources
    BY SourceParts
  <2>2. state'[s] = st[s] /\ ~(s[1] \in Under(e) \cap SseConnect /\ s[2] = opened[s[1]] + 1)
    BY <1>8
  <2>3. s[1] # e /\ recorded[s[1]] = s[2]
    BY <2>1, <2>2, <1>7
  <2>4. state[s] = "closed"
    BY <2>2, <2>3, <1>c
  <2>5. InPage(s[1])
    BY <1>1 DEF InPage
  <2> QED BY <2>3, <2>4, <2>5 DEF BrokenStreamIsRetried
<1> QED BY <1>6, <1>9, <1>10, <1>12, <1>14, <1>15, <1>16, <1>17

LEMMA TimerPreserves ==
  ASSUME IInv, NEW z \in Sources, Timer(z)
  PROVE  IInv'
<1> DEFINE r == z[1]
<1> USE DEF IInv
<1>1. /\ z \in retry /\ retry' = retry \ {z}
      /\ UNCHANGED <<linked, unused, hashed, settling, todo, calls, from, faults>>
      /\ Ensure(r, NextTry(tries[z]), state, recorded)
  BY DEF Timer, dom
<1>2. r \in Elements /\ z[2] \in 1..MaxSources /\ r \in Under(r)
  BY SourceParts, UnderSelf
<1>3. NextTry(tries[z]) \in 0..MaxTries
  BY BoundAssumption DEF TypeOK, NextTry
<1>4. opened[r] # 0 /\ r \in SseConnect /\ state[z] = "closed"
  BY <1>1, <1>2, BoundAssumption DEF Timers, Counted, TypeOK
<1>5. /\ state \in [Sources -> {"none", "connecting", "open", "closed"}]
      /\ recorded \in [Elements -> 0..MaxSources]
      /\ \A d \in Elements : recorded[d] <= opened[d]
  BY DEF TypeOK, Counted
<1>6. /\ recorded' \in [Elements -> 0..MaxSources] /\ opened' \in [Elements -> 0..MaxSources]
      /\ state' \in [Sources -> {"none", "connecting", "open", "closed"}]
      /\ tries' \in [Sources -> 0..MaxTries] /\ hears' \in [Sources -> [Slots -> Nat]]
      /\ Counted'
  BY <1>1, <1>2, <1>3, <1>5, EnsureTyped
<1>7. \A d \in Elements :
        \/ d \in Under(r) \cap SseConnect /\ recorded'[d] = opened[d] + 1 /\ opened'[d] = opened[d] + 1
        \/ d # r /\ d \notin Under(r) \cap SseConnect /\ recorded'[d] = recorded[d] /\ opened'[d] = opened[d]
  BY <1>1, <1>2, <1>4, EnsureStates
<1>8. \A s \in Sources :
        \/ /\ s[1] \in Under(r) \cap SseConnect /\ s[2] = opened[s[1]] + 1
           /\ state'[s] = "connecting" /\ recorded'[s[1]] = s[2]
        \/ /\ ~(s[1] \in Under(r) \cap SseConnect /\ s[2] = opened[s[1]] + 1)
           /\ state'[s] = state[s]
  BY <1>1, <1>2, SourceParts, EnsureStates
<1>9. TypeOK'
  BY <1>1, <1>6 DEF TypeOK
<1>10. Outside'
  <2>1. ASSUME NEW d \in unused PROVE opened'[d] = 0
    <3>1. d \in Elements /\ opened[d] = 0 /\ d # r /\ d \notin linked
      BY <1>4 DEF Outside, TypeOK
    <3>2. d \notin Under(r)
      BY <1>2, <3>1, UnderLinked
    <3> QED BY <3>1, <3>2, <1>7
  <2> QED BY <1>1, <2>1 DEF Outside
<1>11. \A d \in Under(r) : Alone(d) => d = r
  BY <1>2, <1>4, AloneUnder
<1>12. Visits'
  <2>1. ASSUME NEW d \in settling \cup todo, Alone(d) PROVE opened'[d] = 0
    <3>1. opened[d] = 0 /\ d \in Elements /\ d # r
      BY <2>1, <1>4 DEF Visits, TypeOK
    <3> QED BY <2>1, <3>1, <1>7, <1>11
  <2> QED BY <1>1, <2>1 DEF Visits
<1>13. LiveSourceIsRecorded'
  <2> SUFFICES ASSUME NEW s \in Sources, Alone(s[1]), Live(s)' PROVE recorded'[s[1]] = s[2]
    BY DEF LiveSourceIsRecorded
  <2>1. s[1] \in Elements /\ s[2] \in 1..MaxSources
    BY SourceParts
  <2>2. CASE state'[s] = "connecting" /\ recorded'[s[1]] = s[2]
    BY <2>2
  <2>3. CASE state'[s] = state[s]
    <3>1. Live(s) /\ recorded[s[1]] = s[2]
      BY <2>3 DEF Live, LiveSourceIsRecorded
    <3>2. s[1] # r
      BY <3>1, <1>1 DEF Timers
    <3> QED BY <3>1, <3>2, <2>1, <1>7, <1>11
  <2> QED BY <1>8, <2>2, <2>3
<1>14. Timers'
  <2>1. ASSUME NEW s \in retry PROVE state'[s] = "closed"
    <3>1. s \in Sources /\ state[s] = "closed" /\ s[1] \in Elements /\ s[2] \in 1..MaxSources
      BY SourceParts DEF Timers, TypeOK
    <3>2. s[2] # opened[s[1]] + 1
      BY <3>1, BoundAssumption DEF Counted, TypeOK
    <3> QED BY <3>1, <3>2, <1>8
  <2>2. ASSUME NEW s \in retry \ {z}, NEW t \in Sources, Alone(s[1]), t[1] = s[1]
        PROVE  ~Live(t)' /\ (t \in retry => t = s)
    <3>1. s \in Sources /\ ~Live(t) /\ (t \in retry => t = s)
      BY <2>2 DEF Timers, TypeOK
    <3>2. s[1] # r
      BY <1>1, <2>2, <3>1 DEF Timers
    <3>3. s[1] \notin Under(r)
      BY <3>2, <2>2, <1>11
    <3> QED BY <3>1, <3>3, <2>2, <1>8 DEF Live
  <2> QED BY <1>1, <2>1, <2>2 DEF Timers
<1>15. Dispatched'
  BY <1>1, <1>8 DEF Dispatched
<1>16. BrokenStreamIsRetried'
  <2> SUFFICES ASSUME NEW s \in Sources, recorded'[s[1]] = s[2], state'[s] = "closed", InPage(s[1])'
               PROVE  s \in retry /\ s # z
    BY <1>1 DEF BrokenStreamIsRetried
  <2>1. s[1] \in Elements /\ s[2] \in 1..MaxSources
    BY SourceParts
  <2>2. state'[s] = state[s] /\ ~(s[1] \in Under(r) \cap SseConnect /\ s[2] = opened[s[1]] + 1)
    BY <1>8
  <2>3. s[1] # r /\ recorded[s[1]] = s[2]
    BY <2>1, <2>2, <1>2, <1>4, <1>7
  <2>4. InPage(s[1])
    BY <1>1 DEF InPage
  <2> QED BY <2>2, <2>3, <2>4 DEF BrokenStreamIsRetried
<1> QED BY <1>6, <1>9, <1>10, <1>12, <1>13, <1>14, <1>15, <1>16

-----------------------------------------------------------------------------
(* Elements that leave *)

(* A step that closes the recorded sources of some elements, forgets them, *)
(* and brings into the page at most what was unused.                       *)
LEMMA CleaningPreserves ==
  ASSUME IInv, NEW nodes, NEW brought \in SUBSET unused,
         state' = Closed(nodes),
         recorded' = [e \in Elements |-> IF e \in nodes THEN 0 ELSE recorded[e]],
         linked' \subseteq linked \cup brought,
         UNCHANGED <<opened, retry>>
  PROVE  /\ state' \in [Sources -> {"none", "connecting", "open", "closed"}]
         /\ recorded' \in [Elements -> 0..MaxSources]
         /\ Counted'
         /\ Timers'
         /\ LiveSourceIsRecorded'
         /\ BrokenStreamIsRetried'
         /\ \A s \in Sources : state'[s] = "none" => state[s] = "none"
<1> USE DEF IInv
<1>1. /\ state' \in [Sources -> {"none", "connecting", "open", "closed"}]
      /\ recorded' \in [Elements -> 0..MaxSources]
  BY ClosedType, BoundAssumption DEF TypeOK
<1>2. \A s \in Sources : /\ state'[s] \in {state[s], "closed"}
                         /\ s[1] \notin nodes => state'[s] = state[s]
                         /\ s[1] \in nodes /\ recorded[s[1]] = s[2] => state'[s] = "closed"
                         /\ ~(s[1] \in nodes /\ recorded[s[1]] = s[2]) => state'[s] = state[s]
  BY ClosedStates
<1>3. Counted'
  <2>1. \A e \in Elements : recorded'[e] <= opened'[e] /\ (opened'[e] # 0 => e \in SseConnect)
    BY BoundAssumption DEF Counted, TypeOK
  <2>2. ASSUME NEW s \in Sources PROVE state'[s] = "none" <=> s[2] > opened'[s[1]]
    <3>1. s[1] \in Elements /\ s[2] \in 1..MaxSources
      BY SourceParts
    <3>2. recorded[s[1]] <= opened[s[1]] /\ opened[s[1]] \in Nat /\ recorded[s[1]] \in Nat
      BY <3>1, BoundAssumption DEF Counted, TypeOK
    <3>3. state[s] = "none" <=> s[2] > opened[s[1]]
      BY DEF Counted
    <3>4. CASE s[1] \in nodes /\ recorded[s[1]] = s[2]
      BY <3>1, <3>2, <3>4, <1>2
    <3>5. CASE ~(s[1] \in nodes /\ recorded[s[1]] = s[2])
      BY <3>3, <3>5, <1>2
    <3> QED BY <3>4, <3>5
  <2> QED BY <2>1, <2>2 DEF Counted
<1>4. Timers'
  BY <1>2 DEF Timers, Live, TypeOK
<1>5. LiveSourceIsRecorded'
  BY <1>2, SourceParts DEF LiveSourceIsRecorded, Live
<1>6. BrokenStreamIsRetried'
  <2> SUFFICES ASSUME NEW s \in Sources, recorded'[s[1]] = s[2], state'[s] = "closed", InPage(s[1])'
               PROVE  s \in retry
    BY DEF BrokenStreamIsRetried
  <2>1. s[1] \in Elements /\ s[2] \in 1..MaxSources
    BY SourceParts
  <2>2. s[1] \notin nodes /\ recorded[s[1]] = s[2] /\ state[s] = "closed"
    BY <2>1, <1>2
  <2>3. s[1] \notin unused
    BY <2>1, <2>2, BoundAssumption DEF Outside, Counted, TypeOK
  <2>4. Above[s[1]] \cap brought = {}
    BY <2>1, <2>3 DEF Outside
  <2>5. InPage(s[1])
    BY <2>4 DEF InPage
  <2> QED BY <2>2, <2>5 DEF BrokenStreamIsRetried
<1>7. \A s \in Sources : state'[s] = "none" => state[s] = "none"
  BY <1>2
<1> QED BY <1>1, <1>3, <1>4, <1>5, <1>6, <1>7

LEMMA RemovedPreserves ==
  ASSUME IInv, NEW e \in Elements, Removed(e)
  PROVE  IInv'
<1> DEFINE nodes == UNION {Under(r) : r \in {e}}
<1> USE DEF IInv
<1>1. /\ state' = Closed(nodes)
      /\ recorded' = [d \in Elements |-> IF d \in nodes THEN 0 ELSE recorded[d]]
      /\ hashed' = hashed \ nodes /\ linked' = linked \ {e}
      /\ UNCHANGED <<unused, settling, opened, tries, hears, retry, todo, calls, from, faults>>
  BY DEF Removed, CleanedUp
<1> HIDE DEF nodes
<1>2. {} \in SUBSET unused /\ linked' \subseteq linked \cup {}
  BY <1>1
<1>3. /\ state' \in [Sources -> {"none", "connecting", "open", "closed"}]
      /\ recorded' \in [Elements -> 0..MaxSources]
      /\ Counted' /\ Timers' /\ LiveSourceIsRecorded' /\ BrokenStreamIsRetried'
      /\ \A s \in Sources : state'[s] = "none" => state[s] = "none"
  BY <1>1, <1>2, CleaningPreserves
<1>4. TypeOK'
  BY <1>1, <1>3 DEF TypeOK
<1>5. Outside' /\ Visits'
  BY <1>1 DEF Outside, Visits
<1>6. Dispatched'
  BY <1>1, <1>3 DEF Dispatched
<1> QED BY <1>3, <1>4, <1>5, <1>6

LEMMA DetachedPreserves ==
  ASSUME IInv, NEW e \in Elements, Detached(e)
  PROVE  IInv'
<1> USE DEF IInv
<1>1. /\ linked' = linked \ {e}
      /\ UNCHANGED <<unused, hashed, settling, recorded, opened, state, tries, hears,
                     retry, todo, calls, from, faults>>
  BY DEF Detached, streams
<1>2. TypeOK' /\ Outside' /\ Visits' /\ Dispatched'
  BY <1>1 DEF TypeOK, Outside, Visits, Dispatched
<1>3. Counted' /\ Timers' /\ LiveSourceIsRecorded'
  BY <1>1 DEF Counted, Timers, LiveSourceIsRecorded, Live
<1>4. BrokenStreamIsRetried'
  BY <1>1 DEF BrokenStreamIsRetried, InPage
<1> QED BY <1>2, <1>3, <1>4

LEMMA SettlePreserves ==
  ASSUME IInv, NEW n \in Elements, Settle(n)
  PROVE  IInv'
<1> USE DEF IInv
<1>1. /\ n \in settling /\ settling' = settling \ {n} /\ todo = {} /\ todo' = Nodes(n)
      /\ UNCHANGED <<linked, unused, hashed, recorded, opened, state, tries, hears,
                     retry, calls, from, faults>>
  BY DEF Settle, Idle, streams
<1>2. \A d \in todo' : d \in Elements /\ (d = n \/ (d \in Processed /\ d \in Under(n)))
  BY <1>1, UnderLinked DEF Nodes
<1>3. n \in Later /\ n \notin unused
  BY <1>1 DEF Visits, Outside
<1>4. \A d \in todo' : Alone(d) => d = n
  BY <1>2, <1>3, AloneUnder
<1>5. TypeOK'
  BY <1>1, <1>2 DEF TypeOK
<1>6. Outside'
  <2>1. todo' \cap unused = {}
    BY <1>2, <1>3, UnderLinked DEF Outside
  <2> QED BY <1>1, <2>1 DEF Outside
<1>7. Visits'
  <2>1. settling' \cap todo' \cap {e \in Elements : Alone(e)} = {}
    BY <1>1, <1>4
  <2>2. \A e \in settling' \cup todo' : Alone(e) => opened'[e] = 0
    BY <1>1, <1>4 DEF Visits
  <2>3. todo' \subseteq Processed \cup Later
    BY <1>2, <1>3
  <2> QED BY <1>1, <2>1, <2>2, <2>3 DEF Visits
<1>8. Counted' /\ Timers' /\ LiveSourceIsRecorded' /\ Dispatched'
  BY <1>1 DEF Counted, Timers, LiveSourceIsRecorded, Live, Dispatched
<1>9. BrokenStreamIsRetried'
  BY <1>1 DEF BrokenStreamIsRetried, InPage
<1> QED BY <1>5, <1>6, <1>7, <1>8, <1>9

-----------------------------------------------------------------------------
(* Messages *)

LEMMA MessagePreserves ==
  ASSUME IInv, NEW s \in Sources, NEW m, Message(s, m)
  PROVE  IInv'
<1> USE DEF IInv
<1>1. /\ state[s] = "open" /\ from' = s
      /\ calls' = [x \in Slots |-> IF SseSwap[x[1]][x[2]] = m THEN hears[s][x] ELSE 0]
      /\ UNCHANGED <<linked, unused, hashed, settling, recorded, opened, state, tries, hears,
                     retry, todo, faults>>
  BY DEF Message, streams, dom
<1>2. calls' \in [Slots -> Nat]
  <2>1. \A x \in Slots : hears[s][x] \in Nat
    BY DEF TypeOK
  <2> QED BY <1>1, <2>1
<1>3. TypeOK'
  BY <1>1, <1>2 DEF TypeOK
<1>4. Outside' /\ Visits' /\ Counted' /\ Timers'
  BY <1>1 DEF Outside, Visits, Counted, Timers, Live
<1>5. Dispatched'
  BY <1>1 DEF Dispatched, Timers
<1>6. LiveSourceIsRecorded' /\ BrokenStreamIsRetried'
  BY <1>1 DEF LiveSourceIsRecorded, Live, BrokenStreamIsRetried, InPage
<1> QED BY <1>3, <1>4, <1>5, <1>6

LEMMA OneListenerLess ==
  ASSUME NEW h \in [Slots -> Nat], NEW y
  PROVE  [h EXCEPT ![y] = IF @ > 0 THEN @ - 1 ELSE 0] \in [Slots -> Nat]
<1>1. \A n \in Nat : (IF n > 0 THEN n - 1 ELSE 0) \in Nat
  OBVIOUS
<1>2. CASE y \in Slots
  <2>1. h[y] \in Nat
    BY <1>2
  <2> DEFINE v == IF h[y] > 0 THEN h[y] - 1 ELSE 0
  <2>2. v \in Nat
    BY <1>1, <2>1
  <2> HIDE DEF v
  <2>3. [h EXCEPT ![y] = v] \in [Slots -> Nat]
    BY <2>2
  <2> QED BY <2>3 DEF v
<1>3. CASE y \notin Slots
  BY <1>3
<1> QED BY <1>2, <1>3

(* What every listener does to the dispatch. *)
LEMMA CallDispatches ==
  ASSUME IInv, NEW x \in Slots, Call(x)
  PROVE  /\ calls' \in [Slots -> Nat]
         /\ from \in Sources \ retry /\ state[from] # "none"
         /\ from' \in Sources \cup {NoSource}
         /\ calls' # Quiet => from' = from
         /\ todo = {}
         /\ UNCHANGED <<retry, faults>>
<1>1. /\ calls[x] > 0 /\ calls' = [calls EXCEPT ![x] = @ - 1] /\ todo = {}
      /\ from' = IF calls' = Quiet THEN NoSource ELSE from
      /\ UNCHANGED <<retry, faults>>
  BY DEF Call
<1>2. calls[x] \in Nat /\ calls \in [Slots -> Nat]
  BY DEF IInv, TypeOK
<1>3. calls # Quiet
  BY <1>1 DEF Quiet
<1> QED BY <1>1, <1>2, <1>3 DEF IInv, Dispatched

LEMMA SwapCallPreserves ==
  ASSUME IInv, NEW x \in Slots, Call(x), NEW c \in Elements, InPage(c), Swap(c), UNCHANGED <<opened, tries, hears>>
  PROVE  IInv'
<1> USE DEF IInv
<1>1. PICK new \in Brought(c) :
        LET nodes == {d \in unused : Above[d] \cap new # {}} IN
        /\ CleanedUp(Replaced(c))
        /\ linked' = (linked \ Replaced(c)) \cup nodes
        /\ unused' = unused \ nodes
        /\ settling' = IF SettleDelay > 0 THEN settling \cup new ELSE settling
        /\ todo' = IF SettleDelay > 0 THEN {} ELSE new \cup (Processed \cap nodes)
  BY DEF Swap
<1> DEFINE nodes == {d \in unused : Above[d] \cap new # {}}
           left == UNION {Under(r) : r \in Replaced(c)}
<1>2. /\ state' = Closed(left)
      /\ recorded' = [d \in Elements |-> IF d \in left THEN 0 ELSE recorded[d]]
      /\ hashed' = hashed \ left
  BY <1>1 DEF CleanedUp
<1>3. new \subseteq unused /\ nodes \subseteq unused /\ unused \subseteq Elements
  BY DEF Brought, TypeOK
<1>4. new \subseteq nodes
  BY <1>3, PageAssumption
<1>5. /\ linked' \subseteq linked \cup nodes /\ unused' = unused \ nodes
      /\ settling' \subseteq settling \cup new /\ settling \subseteq settling'
      /\ todo' \subseteq nodes /\ (todo' = {} \/ settling' = settling)
  BY <1>1, <1>4
<1> HIDE DEF nodes, left
<1>6. /\ calls' \in [Slots -> Nat] /\ from \in Sources \ retry /\ state[from] # "none"
      /\ from' \in Sources \cup {NoSource} /\ (calls' # Quiet => from' = from)
      /\ UNCHANGED <<retry, faults>>
  BY CallDispatches
<1>7. /\ state' \in [Sources -> {"none", "connecting", "open", "closed"}]
      /\ recorded' \in [Elements -> 0..MaxSources]
      /\ Counted' /\ Timers' /\ LiveSourceIsRecorded' /\ BrokenStreamIsRetried'
      /\ \A s \in Sources : state'[s] = "none" => state[s] = "none"
  <2>1. nodes \in SUBSET unused
    BY <1>3
  <2> QED BY <1>2, <1>5, <1>6, <2>1, CleaningPreserves
<1>8. TypeOK'
  BY <1>2, <1>3, <1>5, <1>6, <1>7 DEF TypeOK
<1>9. Outside'
  <2>1. \A e \in Elements : \A a \in Above[e] : a \in unused' => e \in unused'
    <3> SUFFICES ASSUME NEW e \in Elements, NEW a \in Above[e], a \in unused' PROVE e \in unused'
      OBVIOUS
    <3>1. a \in unused /\ e \in unused /\ a \in Elements
      BY <1>1, <1>3 DEF Outside
    <3>2. e \notin nodes
      <4> SUFFICES ASSUME e \in nodes PROVE FALSE
        OBVIOUS
      <4>1. PICK n \in new : n \in Above[e]
        BY DEF nodes
      <4>2. new = {n} /\ Above[n] \ {n} \subseteq Above[c] /\ n \in Elements
        BY <1>3, <4>1 DEF Brought
      <4>3. n \in Above[a] \/ a \in Above[n]
        BY <4>1, PageAssumption
      <4>4. n \notin Above[a]
        BY <3>1, <4>1, <1>5 DEF nodes
      <4>5. a \in Above[c] /\ a # n
        BY <4>2, <4>3, <4>4, PageAssumption
      <4>6. c \in unused
        BY <3>1, <4>5 DEF Outside
      <4>7. c \in linked
        BY PageAssumption DEF InPage
      <4> QED BY <4>6, <4>7 DEF Outside
    <3> QED BY <3>1, <3>2, <1>5
  <2>2. unused' \cap (linked' \cup settling' \cup todo') = {}
    BY <1>4, <1>5 DEF Outside
  <2>3. unused' \subseteq Later /\ \A e \in unused' : opened'[e] = 0
    BY <1>5 DEF Outside
  <2> QED BY <2>1, <2>2, <2>3 DEF Outside
<1>10. Visits'
  <2>1. settling' \subseteq Later /\ todo' \subseteq Processed \cup Later
    BY <1>3, <1>5 DEF Visits, Outside
  <2>2. settling' \cap todo' = {} \/ settling' \cap todo' \subseteq settling \cap unused
    BY <1>3, <1>5
  <2>3. settling' \cap todo' = {}
    BY <2>2 DEF Outside
  <2>4. \A e \in settling' \cup todo' : Alone(e) => opened'[e] = 0
    BY <1>3, <1>4, <1>5 DEF Visits, Outside
  <2> QED BY <2>1, <2>3, <2>4 DEF Visits
<1>11. Dispatched'
  BY <1>6, <1>7 DEF Dispatched
<1> QED BY <1>7, <1>8, <1>9, <1>10, <1>11

LEMMA CallPreserves ==
  ASSUME IInv, NEW x \in Slots, Call(x)
  PROVE  IInv'
<1> DEFINE c == x[1]
           last == <<c, Len(SseSwap[c])>>
<1> USE DEF IInv
<1>1. /\ calls' \in [Slots -> Nat] /\ from \in Sources \ retry /\ state[from] # "none"
      /\ from' \in Sources \cup {NoSource} /\ (calls' # Quiet => from' = from)
      /\ todo = {} /\ UNCHANGED <<retry, faults>>
  BY CallDispatches
<1>2. c \in Elements
  BY DEF Slots
<1>3. \/ Gone(from[1]) /\ state' = Closed({from[1]}) /\ UNCHANGED <<dom, recorded, opened, tries, hears, todo>>
      \/ /\ hears' = [hears EXCEPT ![from][last] = IF @ > 0 THEN @ - 1 ELSE 0]
         /\ UNCHANGED <<dom, recorded, opened, state, tries, todo>>
      \/ UNCHANGED <<dom, streams, todo>>
      \/ InPage(c) /\ Swap(c) /\ UNCHANGED <<opened, tries, hears>>
  BY DEF Call
<1>4. CASE Gone(from[1]) /\ state' = Closed({from[1]}) /\ UNCHANGED <<dom, recorded, opened, tries, hears, todo>>
  <2>1. UNCHANGED <<linked, unused, hashed, settling, recorded, opened, tries, hears, todo>>
    BY <1>4 DEF dom
  <2>2. from[1] \in Elements /\ ~InPage(from[1])
    BY <1>1, <1>4, SourceParts DEF Gone
  <2>3. /\ state' \in [Sources -> {"none", "connecting", "open", "closed"}]
        /\ \A s \in Sources : /\ state'[s] \in {state[s], "closed"}
                              /\ s[1] # from[1] => state'[s] = state[s]
                              /\ state'[s] = "none" <=> state[s] = "none"
    <3>1. ASSUME NEW s \in Sources, recorded[s[1]] = s[2] PROVE state[s] # "none"
      <4>1. s[1] \in Elements /\ s[2] \in 1..MaxSources
        BY SourceParts
      <4> QED BY <3>1, <4>1, BoundAssumption DEF Counted, TypeOK
    <3> QED BY <1>4, <3>1, ClosedType, ClosedStates
  <2>4. TypeOK' /\ Outside' /\ Visits'
    BY <1>1, <2>1, <2>3 DEF TypeOK, Outside, Visits
  <2>5. Counted' /\ Timers' /\ LiveSourceIsRecorded' /\ Dispatched'
    BY <1>1, <2>1, <2>3 DEF Counted, Timers, TypeOK, LiveSourceIsRecorded, Dispatched, Live
  <2>6. BrokenStreamIsRetried'
    BY <1>1, <2>1, <2>2, <2>3 DEF BrokenStreamIsRetried, InPage
  <2> QED BY <2>4, <2>5, <2>6
<1>5. CASE /\ hears' = [hears EXCEPT ![from][last] = IF @ > 0 THEN @ - 1 ELSE 0]
           /\ UNCHANGED <<dom, recorded, opened, state, tries, todo>>
  <2>1. UNCHANGED <<linked, unused, hashed, settling, recorded, opened, state, tries, todo>>
    BY <1>5 DEF dom
  <2>2. hears' \in [Sources -> [Slots -> Nat]]
    <3>1. hears[from] \in [Slots -> Nat]
      BY <1>1 DEF TypeOK
    <3>2. [hears[from] EXCEPT ![last] = IF @ > 0 THEN @ - 1 ELSE 0] \in [Slots -> Nat]
      BY <3>1, OneListenerLess
    <3>3. hears' = [hears EXCEPT ![from] = [hears[from] EXCEPT ![last] = IF @ > 0 THEN @ - 1 ELSE 0]]
      BY <1>5
    <3> QED BY <3>2, <3>3 DEF TypeOK
  <2>3. TypeOK' /\ Outside' /\ Visits'
    BY <1>1, <2>1, <2>2 DEF TypeOK, Outside, Visits
  <2>4. Counted' /\ Timers' /\ LiveSourceIsRecorded' /\ Dispatched' /\ BrokenStreamIsRetried'
    BY <1>1, <2>1 DEF Counted, Timers, LiveSourceIsRecorded, Dispatched, Live, BrokenStreamIsRetried, InPage
  <2> QED BY <2>3, <2>4
<1>6. CASE UNCHANGED <<dom, streams, todo>>
  <2>1. UNCHANGED <<linked, unused, hashed, settling, recorded, opened, state, tries, hears, todo>>
    BY <1>6 DEF dom, streams
  <2>2. TypeOK' /\ Outside' /\ Visits'
    BY <1>1, <2>1 DEF TypeOK, Outside, Visits
  <2>3. Counted' /\ Timers' /\ LiveSourceIsRecorded' /\ Dispatched' /\ BrokenStreamIsRetried'
    BY <1>1, <2>1 DEF Counted, Timers, LiveSourceIsRecorded, Dispatched, Live, BrokenStreamIsRetried, InPage
  <2> QED BY <2>2, <2>3
<1>7. CASE InPage(c) /\ Swap(c) /\ UNCHANGED <<opened, tries, hears>>
  BY <1>2, <1>7, SwapCallPreserves
<1> QED BY <1>3, <1>4, <1>5, <1>6, <1>7

-----------------------------------------------------------------------------
(* Connections *)

LEMMA OpensPreserves ==
  ASSUME IInv, NEW s \in Sources, Opens(s)
  PROVE  IInv'
<1> USE DEF IInv
<1>1. /\ state[s] = "connecting" /\ state' = [state EXCEPT ![s] = "open"]
      /\ UNCHANGED <<linked, unused, hashed, settling, recorded, opened, tries, hears,
                     retry, todo, calls, from, faults>>
  BY DEF Opens, dom
<1>2. /\ state' \in [Sources -> {"none", "connecting", "open", "closed"}]
      /\ \A t \in Sources : state'[t] = IF t = s THEN "open" ELSE state[t]
  BY <1>1 DEF TypeOK
<1>3. TypeOK' /\ Outside' /\ Visits'
  BY <1>1, <1>2 DEF TypeOK, Outside, Visits
<1>4. Counted' /\ Timers' /\ Dispatched'
  BY <1>1, <1>2 DEF Counted, Timers, Dispatched, Live, TypeOK
<1>5. LiveSourceIsRecorded' /\ BrokenStreamIsRetried'
  BY <1>1, <1>2 DEF LiveSourceIsRecorded, Live, BrokenStreamIsRetried, InPage
<1> QED BY <1>3, <1>4, <1>5

(* Both kinds of error, told apart by the state they leave s in.  Idle     *)
(* means that nothing is being dispatched.                                 *)
LEMMA ErrorPreserves ==
  ASSUME IInv, NEW s \in Sources, Live(s), Idle,
         NEW left \in {"connecting", "closed"},
         UNCHANGED <<linked, unused, hashed, settling, recorded, opened, tries, hears,
                     todo, calls, from>>,
         faults' \in 0..MaxFaults,
         state' \in [Sources -> {"none", "connecting", "open", "closed"}],
         \A t \in Sources : /\ Gone(s[1]) /\ t = <<s[1], recorded[s[1]]>> => state'[t] = "closed"
                            /\ ~(Gone(s[1]) /\ t = <<s[1], recorded[s[1]]>>) =>
                                  state'[t] = IF t = s THEN left ELSE state[t],
         IF left = "connecting" \/ Gone(s[1]) THEN retry' = retry ELSE retry' = retry \cup {s}
  PROVE  IInv'
<1> USE DEF IInv
<1>1. s[1] \in Elements /\ s[2] \in 1..MaxSources /\ s \notin retry
  BY SourceParts DEF Timers, Live
<1>2. \A t \in Sources : state'[t] = "none" <=> state[t] = "none"
  <2> SUFFICES ASSUME NEW t \in Sources PROVE state'[t] = "none" <=> state[t] = "none"
    OBVIOUS
  <2>1. t[1] \in Elements /\ t[2] \in 1..MaxSources /\ t = <<t[1], t[2]>>
    BY SourceParts
  <2>2. recorded[t[1]] = t[2] => state[t] # "none"
    BY <2>1, BoundAssumption DEF Counted, TypeOK
  <2> QED BY <2>1, <2>2 DEF Live
<1>3. TypeOK' /\ Outside' /\ Visits' /\ Counted'
  BY <1>2 DEF TypeOK, Outside, Visits, Counted
<1>4. Dispatched'
  BY DEF Idle, Dispatched
<1>5. \A t \in Sources : Live(t)' => Live(t)
  BY DEF Live
<1>6. LiveSourceIsRecorded'
  BY <1>5 DEF LiveSourceIsRecorded
<1>7. Timers'
  <2>1. \A t \in retry' : state'[t] = "closed"
    BY <1>1 DEF Timers, TypeOK
  <2>2. ASSUME NEW q \in retry', NEW t \in Sources, Alone(q[1]), t[1] = q[1]
        PROVE  ~Live(t)' /\ (t \in retry' => t = q)
    <3>1. CASE q \in retry
      <4>1. ~Live(t) /\ (t \in retry => t = q)
        BY <2>2, <3>1 DEF Timers
      <4> QED BY <4>1, <1>5
    <3>2. CASE q = s /\ ~Gone(s[1]) /\ left = "closed" /\ q \notin retry
      <4>1. recorded[s[1]] = s[2]
        BY <2>2, <3>2 DEF LiveSourceIsRecorded
      <4>2. Live(t) => t = s
        BY <2>2, <3>2, <4>1, SourceParts DEF LiveSourceIsRecorded
      <4>3. t \notin retry
        BY <2>2, <3>2 DEF Timers
      <4>4. state'[s] = "closed"
        BY <3>2
      <4> QED BY <3>2, <4>2, <4>3, <4>4, <1>5 DEF Live
    <3> QED BY <2>2, <3>1, <3>2
  <2> QED BY <2>1, <2>2 DEF Timers
<1>8. BrokenStreamIsRetried'
  <2> SUFFICES ASSUME NEW t \in Sources, recorded[t[1]] = t[2], state'[t] = "closed", InPage(t[1])
               PROVE  t \in retry'
    BY DEF BrokenStreamIsRetried, InPage
  <2>1. ~(Gone(s[1]) /\ t = <<s[1], recorded[s[1]]>>)
    BY DEF Gone
  <2>2. CASE t = s
    <3>1. ~Gone(s[1])
      BY <2>2 DEF Gone
    <3> QED BY <2>1, <2>2, <3>1
  <2>3. CASE t # s
    BY <2>1, <2>3 DEF BrokenStreamIsRetried
  <2> QED BY <2>2, <2>3
<1> QED BY <1>3, <1>4, <1>6, <1>7, <1>8

LEMMA NextPreserves ==
  ASSUME IInv, [Next]_vars
  PROVE  IInv'
<1>1. ASSUME NEW e \in Elements, ProcessNode(e) \/ Removed(e) \/ Detached(e) \/ Settle(e)
      PROVE  IInv'
  BY <1>1, ProcessNodePreserves, RemovedPreserves, DetachedPreserves, SettlePreserves
<1>2. ASSUME NEW s \in Sources, Opens(s)
      PROVE  IInv'
  BY <1>2, OpensPreserves
<1>3. ASSUME NEW s \in Sources, Drops(s)
      PROVE  IInv'
  <2>1. /\ Idle /\ Live(s)
        /\ state' = [t \in Sources |->
             IF Gone(s[1]) /\ t = <<s[1], recorded[s[1]]>> THEN "closed"
             ELSE IF t = s THEN "connecting" ELSE state[t]]
        /\ UNCHANGED <<linked, unused, hashed, settling, recorded, opened, tries, hears,
                       retry, todo, calls, from, faults>>
    BY <1>3 DEF Drops, dom
  <2>2. /\ state' \in [Sources -> {"none", "connecting", "open", "closed"}]
        /\ \A t \in Sources : /\ Gone(s[1]) /\ t = <<s[1], recorded[s[1]]>> => state'[t] = "closed"
                              /\ ~(Gone(s[1]) /\ t = <<s[1], recorded[s[1]]>>) =>
                                    state'[t] = IF t = s THEN "connecting" ELSE state[t]
    BY <2>1 DEF IInv, TypeOK
  <2>3. faults' \in 0..MaxFaults
    BY <2>1 DEF IInv, TypeOK
  <2> QED BY <2>1, <2>2, <2>3, ErrorPreserves
<1>4. ASSUME NEW s \in Sources, Fails(s)
      PROVE  IInv'
  <2>1. /\ Idle /\ Live(s) /\ faults < MaxFaults /\ faults' = faults + 1
        /\ state' = [t \in Sources |->
             IF t = s \/ (Gone(s[1]) /\ t = <<s[1], recorded[s[1]]>>) THEN "closed" ELSE state[t]]
        /\ retry' = retry \cup Retries(s)
        /\ UNCHANGED <<linked, unused, hashed, settling, recorded, opened, tries, hears,
                       todo, calls, from>>
    BY <1>4 DEF Fails, dom
  <2>2. /\ state' \in [Sources -> {"none", "connecting", "open", "closed"}]
        /\ \A t \in Sources : /\ Gone(s[1]) /\ t = <<s[1], recorded[s[1]]>> => state'[t] = "closed"
                              /\ ~(Gone(s[1]) /\ t = <<s[1], recorded[s[1]]>>) =>
                                    state'[t] = IF t = s THEN "closed" ELSE state[t]
    BY <2>1 DEF IInv, TypeOK
  <2>3. faults' \in 0..MaxFaults
    BY <2>1, BoundAssumption DEF IInv, TypeOK
  <2>4. IF Gone(s[1]) THEN retry' = retry ELSE retry' = retry \cup {s}
    BY <2>1 DEF Retries
  <2> QED BY <2>1, <2>2, <2>3, <2>4, ErrorPreserves
<1>5. ASSUME NEW s \in Sources, Timer(s)
      PROVE  IInv'
  BY <1>5, TimerPreserves
<1>6. ASSUME NEW s \in Sources, NEW m, Message(s, m)
      PROVE  IInv'
  BY <1>6, MessagePreserves
<1>7. ASSUME NEW x \in Slots, Call(x)
      PROVE  IInv'
  BY <1>7, CallPreserves
<1>8. CASE UNCHANGED vars
  <2>1. UNCHANGED <<linked, unused, hashed, settling, recorded, opened, state, tries, hears,
                   retry, todo, calls, from, faults>>
    BY <1>8 DEF vars, dom, streams
  <2>2. TypeOK' /\ Outside' /\ Visits' /\ Counted' /\ Timers' /\ Dispatched'
    BY <2>1 DEF IInv, TypeOK, Outside, Visits, Counted, Timers, Dispatched, Live
  <2>3. LiveSourceIsRecorded' /\ BrokenStreamIsRetried'
    BY <2>1 DEF IInv, LiveSourceIsRecorded, Live, BrokenStreamIsRetried, InPage
  <2> QED BY <2>2, <2>3 DEF IInv
<1> QED BY <1>1, <1>2, <1>3, <1>4, <1>5, <1>6, <1>7, <1>8 DEF Next

-----------------------------------------------------------------------------
(* The theorems *)

THEOREM Invariance == Spec => []IInv
<1> QED BY InitEstablishes, NextPreserves, PTL DEF Spec

(* Every variable keeps its type: the retry count never passes its cap,    *)
(* and a listener is never removed more often than it was added.           *)
THEOREM TypeCorrect == Spec => []TypeOK
<1>1. IInv => TypeOK
  BY DEF IInv
<1> QED BY <1>1, Invariance, PTL

(* Whatever fails, is retried, removed, detached or swapped in, in any     *)
(* order: a live EventSource of an element that stands alone is the one    *)
(* its data names, so cleaning up, an error and a message find it.         *)
THEOREM NoStreamIsLost == Spec => []LiveSourceIsRecorded
<1>1. IInv => LiveSourceIsRecorded
  BY DEF IInv
<1> QED BY <1>1, Invariance, PTL

(* No element in the page keeps a dead stream without a timer that will    *)
(* replace it, however streams are nested.                                 *)
THEOREM DeadStreamsHaveTimers == Spec => []BrokenStreamIsRetried
<1>1. IInv => BrokenStreamIsRetried
  BY DEF IInv
<1> QED BY <1>1, Invariance, PTL

(* An element that is out of the page loses its stream with the next error *)
(* or message on it, and starts no retry then.                             *)
THEOREM OrphansAreClosed == Spec => OrphansEnd
<1> DEFINE Ends == \A s \in Sources :
             Alone(s[1]) /\ ~InPage(s[1]) /\ Speaks(s) => state'[s] = "closed" /\ s \notin retry'
<1>1. ASSUME IInv, Next PROVE Ends
  <2> SUFFICES ASSUME NEW s \in Sources, Alone(s[1]), ~InPage(s[1]), Speaks(s)
               PROVE  state'[s] = "closed" /\ s \notin retry'
    OBVIOUS
  <2>1. s[1] \in Elements /\ s[2] \in 1..MaxSources /\ s = <<s[1], s[2]>>
    BY SourceParts
  <2>2. Live(s) => Gone(s[1]) /\ recorded[s[1]] = s[2] /\ s \notin retry
    BY <1>1, <2>1 DEF IInv, LiveSourceIsRecorded, Gone, Timers, Live
  <2>3. CASE Drops(s)
    BY <2>1, <2>2, <2>3 DEF Drops
  <2>4. CASE Fails(s)
    BY <2>1, <2>2, <2>4 DEF Fails, Retries
  <2>5. CASE from = s /\ \E x \in Slots : Call(x)
    <3>1. PICK x \in Slots : Call(x)
      BY <2>5
    <3>2. from \in Sources \ retry /\ state[from] # "none" /\ retry' = retry
      BY <1>1, <3>1, CallDispatches
    <3>3. state[s] \in {"connecting", "open", "closed"}
      BY <1>1, <2>5, <3>2 DEF IInv, TypeOK
    <3>4. CASE Live(s)
      <4>1. state' = Closed({s[1]})
        BY <2>2, <2>5, <3>1, <3>4 DEF Call
      <4> QED BY <2>1, <2>2, <2>5, <3>2, <3>4, <4>1, ClosedStates
    <3>5. CASE state[s] = "closed"
      <4>1. \/ state' = Closed({s[1]}) \/ UNCHANGED state
            \/ \E c \in Elements : Swap(c)
        BY <2>5, <3>1 DEF Call, streams, Slots
      <4>2. \A c \in Elements : Swap(c) => \E nodes : state' = Closed(nodes)
        BY DEF Swap, CleanedUp
      <4> QED BY <2>5, <3>2, <3>5, <4>1, <4>2, ClosedStates
    <3> QED BY <3>3, <3>4, <3>5 DEF Live
  <2> QED BY <2>3, <2>4, <2>5 DEF Speaks
<1>2. IInv /\ [Next]_vars => [Ends]_vars
  BY <1>1
<1> QED BY <1>2, Invariance, PTL DEF Spec, OrphansEnd

-----------------------------------------------------------------------------
(* Nobody goes deaf *)

(* A source is only ever opened below an element with the extension. *)
Extended == \A e \in Elements : opened[e] # 0 => Above[e] \cap HxExt # {}

(* htmx still has to come to something above e that the extension sees. *)
Coming(e) == \E a \in Above[e] \cap (settling \cup todo) : Above[a] \cap HxExt # {}

(* Stronger than the property: an element that waits for a pass that will  *)
(* not reach the extension has nothing to hear.                            *)
Heard == \A x \in Slots : InPage(x[1]) /\ ~Coming(x[1]) => ~Deaf(x)

HInv == Extended /\ Heard

LEMMA SlotElement ==
  ASSUME NEW x \in Slots
  PROVE  x[1] \in Elements
BY DEF Slots

(* In the page nothing is cut off from what is above it. *)
LEMMA PageIsWhole ==
  ASSUME NEW c \in Elements
  PROVE  /\ InPage(c) => \A q \in Above[c] : c \in Under(q)
         /\ InPage(c)' => \A q \in Above[c] : (c \in Under(q))'
<1>1. Above[c] \subseteq Elements
  BY PageAssumption
<1> QED BY <1>1 DEF InPage, Under, Path

(* An element whose ancestors keep their sources goes on hearing them. *)
LEMMA StillHears ==
  ASSUME IInv, NEW x \in Slots, InPage(x[1]), InPage(x[1])',
         \A a \in Above[x[1]] : recorded'[a] = recorded[a],
         \A s \in Sources : s[1] \in Above[x[1]] /\ Live(s)' => Live(s),
         \A s \in Sources : hears[s][x] # 0 => hears'[s][x] # 0,
         ~Deaf(x)
  PROVE  ~Deaf(x)'
<1> DEFINE c == x[1]
<1> SUFFICES ASSUME Deaf(x)' PROVE FALSE
  OBVIOUS
<1>1. c \in Elements /\ Above[c] \subseteq Elements
  BY SlotElement, PageAssumption
<1>2. PICK s \in Hearing(c, recorded)' : Live(s)' /\ hears'[s][x] = 0
  BY DEF Deaf
<1>3. PICK p \in Above[c] :
        /\ s = <<p, recorded'[p]>> /\ recorded'[p] # 0
        /\ \A q \in Above[c] : recorded'[q] # 0 /\ p \in Above[q] => q = p
  BY DEF Hearing, HasEventSource
<1>4. s \in Sources /\ s[1] = p /\ s = <<p, recorded[p]>>
  BY <1>1, <1>3, BoundAssumption DEF Sources, IInv, TypeOK
<1>5. s \in Hearing(c, recorded)
  BY <1>1, <1>3, <1>4, PageIsWhole DEF Hearing, HasEventSource
<1>6. Live(s) /\ hears[s][x] = 0
  BY <1>2, <1>4
<1> QED BY <1>5, <1>6 DEF Deaf

(* What a step has to leave alone. *)
LEMMA HeardFrame ==
  ASSUME IInv, HInv, UNCHANGED opened,
         \A s \in Sources : Live(s)' => Live(s),
         \A x \in Slots : InPage(x[1])' =>
            \/ Coming(x[1])' \/ ~Deaf(x)'
            \/ /\ InPage(x[1])
               /\ Coming(x[1]) => Coming(x[1])'
               /\ \A a \in Above[x[1]] : recorded'[a] = recorded[a]
               /\ \A s \in Sources : hears'[s][x] = hears[s][x]
  PROVE  HInv'
<1>1. Extended'
  BY DEF HInv, Extended
<1>2. ASSUME NEW x \in Slots, InPage(x[1])', ~Coming(x[1])' PROVE ~Deaf(x)'
  <2> SUFFICES ASSUME InPage(x[1]), ~Coming(x[1]),
                      \A a \in Above[x[1]] : recorded'[a] = recorded[a],
                      \A s \in Sources : hears'[s][x] = hears[s][x]
               PROVE  ~Deaf(x)'
    BY <1>2
  <2>1. ~Deaf(x)
    BY DEF HInv, Heard
  <2> QED BY <1>2, <2>1, StillHears
<1> QED BY <1>1, <1>2 DEF HInv, Heard

(* A pass over r registers everything below r. *)
LEMMA EnsureHears ==
  ASSUME IInv, IInv', NEW r \in Elements, NEW n, NEW st, NEW rec, Ensure(r, n, st, rec),
         UNCHANGED linked,
         \A d \in Elements \ Under(r) : rec[d] = recorded[d],
         \A s \in Sources : s[1] \notin Under(r) => st[s] = state[s],
         NEW x \in Slots, InPage(x[1]), r \in Above[x[1]] \/ ~Deaf(x)
  PROVE  ~Deaf(x)'
<1> DEFINE c == x[1]
<1>1. c \in Elements /\ Above[c] \subseteq Elements /\ InPage(c)'
  BY SlotElement, PageAssumption DEF InPage
<1>2. \A s \in Sources : hears'[s][x] = hears[s][x] + Registered(r, recorded', s, x)
  BY DEF Ensure
<1>3. \A s \in Sources : hears[s][x] \in Nat /\ Registered(r, recorded', s, x) \in {0, 1}
  BY DEF IInv, TypeOK, Registered
<1>4. CASE r \in Above[c]
  <2> SUFFICES ASSUME NEW s, s \in Hearing(c, recorded)', Live(s)', hears'[s][x] = 0 PROVE FALSE
    BY DEF Deaf
  <2>1. PICK p \in Above[c] : s = <<p, recorded'[p]>> /\ recorded'[p] # 0
    BY DEF Hearing, HasEventSource
  <2>2. s \in Sources
    BY <1>1, <2>1, BoundAssumption DEF Sources, IInv, TypeOK
  <2>3. c \in Under(r)
    BY <1>1, <1>4, PageIsWhole
  <2>4. Hearing(c, recorded)' = Hearing(c, recorded')
    BY DEF Hearing, Under, Path
  <2>5. Registered(r, recorded', s, x) = 1
    BY <2>3, <2>4 DEF Registered
  <2> QED BY <1>2, <1>3, <2>2, <2>5
<1>5. CASE r \notin Above[c]
  <2>1. \A a \in Above[c] : a \notin Under(r)
    BY <1>1, <1>5, PageAssumption DEF Under
  <2>2. \A a \in Above[c] : recorded'[a] = recorded[a]
    BY <1>1, <2>1, EnsureStates DEF IInv
  <2>3. \A s \in Sources : s[1] \in Above[c] /\ Live(s)' => Live(s)
    <3> SUFFICES ASSUME NEW s \in Sources, s[1] \in Above[c] PROVE Live(s)' => Live(s)
      OBVIOUS
    <3>1. state'[s] = st[s] /\ st[s] = state[s]
      BY <2>1, EnsureStates DEF IInv
    <3> QED BY <3>1 DEF Live
  <2>4. \A s \in Sources : hears[s][x] # 0 => hears'[s][x] # 0
    BY <1>2, <1>3
  <2> QED BY <1>1, <1>5, <2>2, <2>3, <2>4, StillHears
<1> QED BY <1>4, <1>5

(* Below an element with the extension everything has it. *)
LEMMA EnsureExtended ==
  ASSUME IInv, Extended, NEW r \in Elements, NEW n, NEW st, NEW rec, Ensure(r, n, st, rec),
         Above[r] \cap HxExt # {}
  PROVE  Extended'
<1> SUFFICES ASSUME NEW e \in Elements, opened'[e] # 0 PROVE Above[e] \cap HxExt # {}
  BY DEF Extended
<1>1. CASE e \in Under(r)
  BY <1>1, UnderLinked, PageAssumption
<1>2. CASE e \notin Under(r)
  BY <1>2, EnsureStates DEF IInv, Extended
<1> QED BY <1>1, <1>2

LEMMA InitHears == Init => HInv
<1> SUFFICES ASSUME Init PROVE HInv
  OBVIOUS
<1>1. Extended
  BY DEF Init, Extended
<1>2. \A x \in Slots : ~Deaf(x)
  BY SlotElement, PageAssumption DEF Init, Deaf, Hearing, HasEventSource
<1> QED BY <1>1, <1>2 DEF HInv, Heard

LEMMA ProcessNodeHears ==
  ASSUME IInv, IInv', HInv, NEW e \in Elements, ProcessNode(e)
  PROVE  HInv'
<1> DEFINE st == Closed({e})
           rec == [recorded EXCEPT ![e] = 0]
<1>1. /\ todo' = todo \ {e} /\ UNCHANGED <<linked, settling>>
      /\ \/ InExt(e) /\ Ensure(e, 0, st, rec)
         \/ ~InExt(e) /\ state' = st /\ recorded' = rec /\ UNCHANGED <<opened, hears>>
  BY DEF ProcessNode
<1>2. \A d \in Elements : rec[d] = IF d = e THEN 0 ELSE recorded[d]
  BY DEF IInv, TypeOK
<1>3. \A s \in Sources : st[s] \in {state[s], "closed"} /\ (s[1] # e => st[s] = state[s])
  BY ClosedStates
<1> HIDE DEF st, rec
<1>4. \A x \in Slots : InPage(x[1])' => InPage(x[1])
  BY <1>1 DEF InPage
<1>5. CASE InExt(e) /\ Ensure(e, 0, st, rec)
  <2>1. e \in Under(e)
    BY UnderSelf
  <2>2. Extended'
    BY <1>5, EnsureExtended DEF HInv, InExt
  <2>3. ASSUME NEW x \in Slots, InPage(x[1]), ~Coming(x[1])' PROVE ~Deaf(x)'
    <3>1. e \in Above[x[1]] \/ ~Coming(x[1])
      BY <1>1, <2>3 DEF Coming
    <3>2. e \in Above[x[1]] \/ ~Deaf(x)
      BY <2>3, <3>1 DEF HInv, Heard
    <3>3. \A d \in Elements \ Under(e) : rec[d] = recorded[d]
      BY <1>2, <2>1
    <3>4. \A s \in Sources : s[1] \notin Under(e) => st[s] = state[s]
      BY <1>3, <2>1
    <3> QED BY <1>1, <1>5, <2>3, <3>2, <3>3, <3>4, EnsureHears
  <2> QED BY <1>4, <2>2, <2>3 DEF HInv, Heard
<1>6. CASE ~InExt(e) /\ state' = st /\ recorded' = rec /\ UNCHANGED <<opened, hears>>
  <2>1. \A s \in Sources : Live(s)' => Live(s)
    BY <1>3, <1>6 DEF Live
  <2>2. ASSUME NEW x \in Slots, InPage(x[1])
        PROVE  /\ Coming(x[1]) => Coming(x[1])'
               /\ \A a \in Above[x[1]] : recorded'[a] = recorded[a]
    <3>1. x[1] \in Elements /\ Above[x[1]] \subseteq Elements
      BY SlotElement, PageAssumption
    <3>2. e \in Above[x[1]] => Above[e] \cap HxExt = {}
      <4> SUFFICES ASSUME e \in Above[x[1]] PROVE Above[e] \cap HxExt = {}
        OBVIOUS
      <4>1. InPage(e)
        BY <2>2, <3>1, PageAssumption DEF InPage
      <4> QED BY <1>6, <4>1, PageIsWhole DEF InExt
    <3>3. e \in Above[x[1]] => recorded[e] = 0
      <4>1. Above[e] \cap HxExt = {} => opened[e] = 0
        BY DEF HInv, Extended
      <4>2. recorded[e] <= opened[e] /\ recorded[e] \in Nat
        BY BoundAssumption DEF IInv, Counted, TypeOK
      <4> QED BY <3>2, <4>1, <4>2
    <3> QED BY <1>1, <1>2, <1>6, <3>1, <3>2, <3>3 DEF Coming
  <2> QED BY <1>4, <1>6, <2>1, <2>2, HeardFrame
<1> QED BY <1>1, <1>5, <1>6

LEMMA TimerHears ==
  ASSUME IInv, IInv', HInv, NEW z \in Sources, Timer(z)
  PROVE  HInv'
<1> DEFINE r == z[1]
           n == NextTry(tries[z])
<1>1. /\ z \in retry /\ UNCHANGED <<linked, settling, todo>>
      /\ Ensure(r, n, state, recorded)
  BY DEF Timer, dom
<1> HIDE DEF n
<1>2. r \in Elements /\ z[2] \in 1..MaxSources
  BY SourceParts
<1>3. Above[r] \cap HxExt # {}
  <2>1. state[z] # "none"
    BY <1>1 DEF IInv, Timers
  <2>2. opened[r] # 0
    BY <1>2, <2>1, BoundAssumption DEF IInv, Counted, TypeOK
  <2> QED BY <1>2, <2>2 DEF HInv, Extended
<1>4. Extended'
  BY <1>1, <1>2, <1>3, EnsureExtended DEF HInv
<1>5. ASSUME NEW x \in Slots, InPage(x[1])', ~Coming(x[1])' PROVE ~Deaf(x)'
  <2>1. InPage(x[1]) /\ ~Deaf(x)
    BY <1>1, <1>5 DEF InPage, Coming, HInv, Heard
  <2> QED BY <1>1, <1>2, <2>1, EnsureHears
<1> QED BY <1>4, <1>5 DEF HInv, Heard

LEMMA RemovedHears ==
  ASSUME IInv, HInv, NEW e \in Elements, Removed(e)
  PROVE  HInv'
<1> DEFINE nodes == UNION {Under(r) : r \in {e}}
<1>1. /\ state' = Closed(nodes)
      /\ recorded' = [d \in Elements |-> IF d \in nodes THEN 0 ELSE recorded[d]]
      /\ linked' = linked \ {e}
      /\ UNCHANGED <<settling, opened, hears, todo>>
  BY DEF Removed, CleanedUp
<1>2. \A d \in nodes : d \in Elements /\ e \in Above[d]
  BY UnderLinked
<1> HIDE DEF nodes
<1>3. \A s \in Sources : Live(s)' => Live(s)
  BY <1>1, ClosedStates DEF Live
<1>4. ASSUME NEW x \in Slots, InPage(x[1])'
      PROVE  /\ InPage(x[1])
             /\ Coming(x[1]) => Coming(x[1])'
             /\ \A a \in Above[x[1]] : recorded'[a] = recorded[a]
  <2>1. x[1] \in Elements /\ Above[x[1]] \subseteq Elements
    BY SlotElement, PageAssumption
  <2>2. InPage(x[1]) /\ e \notin Above[x[1]]
    BY <1>1, <1>4 DEF InPage
  <2>3. \A a \in Above[x[1]] : a \notin nodes
    BY <1>2, <2>1, <2>2, PageAssumption
  <2> QED BY <1>1, <2>1, <2>2, <2>3 DEF Coming
<1> QED BY <1>1, <1>3, <1>4, HeardFrame

LEMMA DetachedHears ==
  ASSUME IInv, HInv, NEW e \in Elements, Detached(e)
  PROVE  HInv'
<1>1. /\ linked' = linked \ {e}
      /\ UNCHANGED <<settling, recorded, opened, state, hears, todo>>
  BY DEF Detached, streams
<1>2. \A x \in Slots : InPage(x[1])' => InPage(x[1]) /\ (Coming(x[1]) => Coming(x[1])')
  BY <1>1 DEF InPage, Coming
<1> QED BY <1>1, <1>2, HeardFrame DEF Live

LEMMA SettleHears ==
  ASSUME IInv, HInv, NEW n \in Elements, Settle(n)
  PROVE  HInv'
<1>1. /\ settling' = settling \ {n} /\ todo = {} /\ n \in todo'
      /\ UNCHANGED <<linked, recorded, opened, state, hears>>
  BY DEF Settle, Idle, streams, Nodes
<1>2. \A x \in Slots : InPage(x[1])' => InPage(x[1]) /\ (Coming(x[1]) => Coming(x[1])')
  BY <1>1 DEF InPage, Coming
<1> QED BY <1>1, <1>2, HeardFrame DEF Live

(* A message that brings something into c: what was in the page is left    *)
(* alone, and what is new waits for its pass if there is a source above it.*)
LEMMA SwapHears ==
  ASSUME IInv, HInv, NEW c \in Elements, InPage(c), Swap(c), todo = {}, UNCHANGED <<opened, hears>>
  PROVE  HInv'
<1>1. PICK new \in Brought(c) :
        LET nodes == {d \in unused : Above[d] \cap new # {}} IN
        /\ CleanedUp(Replaced(c))
        /\ linked' = (linked \ Replaced(c)) \cup nodes
        /\ settling' = IF SettleDelay > 0 THEN settling \cup new ELSE settling
        /\ todo' = IF SettleDelay > 0 THEN {} ELSE new \cup (Processed \cap nodes)
  BY DEF Swap
<1> DEFINE nodes == {d \in unused : Above[d] \cap new # {}}
           left == UNION {Under(r) : r \in Replaced(c)}
<1>2. /\ state' = Closed(left)
      /\ recorded' = [d \in Elements |-> IF d \in left THEN 0 ELSE recorded[d]]
  BY <1>1 DEF CleanedUp
<1>3. /\ linked' = (linked \ Replaced(c)) \cup nodes
      /\ settling \subseteq settling' /\ new \subseteq settling' \cup todo'
  BY <1>1
<1>4. new \subseteq unused /\ nodes \subseteq unused /\ unused \subseteq Elements
  BY DEF Brought, IInv, TypeOK
<1>5. \A a \in nodes : \E m \in new : m \in Above[a]
  OBVIOUS
<1>6. \A a \in left : a \in Elements /\ \E r \in Replaced(c) : r \in Above[a]
  <2>1. Replaced(c) \subseteq Elements
    BY DEF Replaced, IInv, TypeOK
  <2> QED BY <2>1, UnderLinked
<1> HIDE DEF nodes, left
<1>7. \A s \in Sources : Live(s)' => Live(s)
  BY <1>2, ClosedStates DEF Live
<1>8. ASSUME NEW x \in Slots, InPage(x[1])', Above[x[1]] \cap nodes = {}
      PROVE  /\ InPage(x[1])
             /\ Coming(x[1]) => Coming(x[1])'
             /\ \A a \in Above[x[1]] : recorded'[a] = recorded[a]
  <2>1. x[1] \in Elements /\ Above[x[1]] \subseteq Elements
    BY SlotElement, PageAssumption
  <2>2. Above[x[1]] \subseteq linked \ Replaced(c)
    BY <1>3, <1>8 DEF InPage
  <2>3. \A a \in Above[x[1]] : a \notin left
    BY <1>6, <2>1, <2>2, PageAssumption
  <2> QED BY <1>2, <1>3, <2>1, <2>2, <2>3 DEF Coming, InPage
<1>9. ASSUME NEW x \in Slots, Above[x[1]] \cap nodes # {}, Deaf(x)'
      PROVE  Coming(x[1])'
  <2>1. x[1] \in Elements /\ Above[x[1]] \subseteq Elements
    BY SlotElement, PageAssumption
  <2>2. PICK m \in new : m \in Above[x[1]]
    BY <1>5, <1>9, <2>1, PageAssumption
  <2>3. PICK p \in Above[x[1]] : recorded'[p] # 0
    BY <1>9 DEF Deaf, Hearing, HasEventSource
  <2>4. opened[p] # 0
    <3>1. recorded[p] \in Nat /\ recorded[p] <= opened[p] /\ recorded'[p] \in {0, recorded[p]}
      BY <1>2, <2>1, BoundAssumption DEF IInv, Counted, TypeOK
    <3> QED BY <2>3, <3>1
  <2>5. p \notin unused
    BY <2>4 DEF IInv, Outside
  <2>6. m \notin Above[p]
    BY <1>4, <2>1, <2>5 DEF IInv, Outside
  <2>7. p \in Above[m]
    BY <2>1, <2>2, <2>6, PageAssumption
  <2>8. Above[m] \cap HxExt # {}
    <3>1. Above[p] \cap HxExt # {}
      BY <2>1, <2>4 DEF HInv, Extended
    <3> QED BY <2>1, <2>2, <2>7, <3>1, PageAssumption
  <2> QED BY <1>3, <2>2, <2>8 DEF Coming
<1> QED BY <1>7, <1>8, <1>9, HeardFrame

LEMMA CallHears ==
  ASSUME IInv, HInv, NEW x \in Slots, Call(x)
  PROVE  HInv'
<1> DEFINE c == x[1]
           last == <<c, Len(SseSwap[c])>>
<1>1. c \in Elements /\ todo = {}
  BY SlotElement DEF Call
<1>2. \/ state' = Closed({from[1]}) /\ UNCHANGED <<dom, recorded, opened, tries, hears, todo>>
      \/ /\ ~InPage(c)
         /\ hears' = [hears EXCEPT ![from][last] = IF @ > 0 THEN @ - 1 ELSE 0]
         /\ UNCHANGED <<dom, recorded, opened, state, tries, todo>>
      \/ UNCHANGED <<dom, streams, todo>>
      \/ InPage(c) /\ Swap(c) /\ UNCHANGED <<opened, tries, hears>>
  BY DEF Call
<1>3. CASE state' = Closed({from[1]}) /\ UNCHANGED <<dom, recorded, opened, tries, hears, todo>>
  <2>1. \A s \in Sources : Live(s)' => Live(s)
    BY <1>3, ClosedStates DEF Live
  <2>2. \A y \in Slots : InPage(y[1])' => InPage(y[1]) /\ (Coming(y[1]) => Coming(y[1])')
    BY <1>3 DEF dom, InPage, Coming
  <2> QED BY <1>3, <2>1, <2>2, HeardFrame
<1>4. CASE /\ ~InPage(c)
           /\ hears' = [hears EXCEPT ![from][last] = IF @ > 0 THEN @ - 1 ELSE 0]
           /\ UNCHANGED <<dom, recorded, opened, state, tries, todo>>
  <2>1. ASSUME NEW y \in Slots, InPage(y[1])'
        PROVE  /\ InPage(y[1]) /\ (Coming(y[1]) => Coming(y[1])')
               /\ \A s \in Sources : hears'[s][y] = hears[s][y]
    <3>1. InPage(y[1]) /\ (Coming(y[1]) => Coming(y[1])')
      BY <1>4, <2>1 DEF dom, InPage, Coming
    <3>2. y # last
      BY <1>4, <3>1
    <3> QED BY <1>4, <3>1, <3>2 DEF IInv, TypeOK
  <2> QED BY <1>4, <2>1, HeardFrame DEF Live
<1>5. CASE UNCHANGED <<dom, streams, todo>>
  <2>1. \A y \in Slots : InPage(y[1])' => InPage(y[1]) /\ (Coming(y[1]) => Coming(y[1])')
    BY <1>5 DEF dom, InPage, Coming
  <2> QED BY <1>5, <2>1, HeardFrame DEF Live, streams
<1>6. CASE InPage(c) /\ Swap(c) /\ UNCHANGED <<opened, tries, hears>>
  BY <1>1, <1>6, SwapHears
<1> QED BY <1>2, <1>3, <1>4, <1>5, <1>6

LEMMA StepHears ==
  ASSUME IInv, IInv', HInv, [Next]_vars
  PROVE  HInv'
<1>1. ASSUME NEW e \in Elements, ProcessNode(e) \/ Removed(e) \/ Detached(e) \/ Settle(e)
      PROVE  HInv'
  BY <1>1, ProcessNodeHears, RemovedHears, DetachedHears, SettleHears
<1>2. ASSUME NEW s \in Sources, Timer(s)
      PROVE  HInv'
  BY <1>2, TimerHears
<1>3. ASSUME NEW x \in Slots, Call(x)
      PROVE  HInv'
  BY <1>3, CallHears
<1>4. ASSUME UNCHANGED <<linked, settling, todo, recorded, opened, hears>>,
             \A t \in Sources : Live(t)' => Live(t)
      PROVE  HInv'
  <2>1. \A y \in Slots : InPage(y[1])' => InPage(y[1]) /\ (Coming(y[1]) => Coming(y[1])')
    BY <1>4 DEF InPage, Coming
  <2> QED BY <1>4, <2>1, HeardFrame
<1>5. ASSUME NEW s \in Sources, Opens(s) \/ Drops(s) \/ Fails(s)
      PROVE  HInv'
  <2>1. UNCHANGED <<linked, settling, todo, recorded, opened, hears>>
    BY <1>5 DEF Opens, Drops, Fails, dom
  <2>2. \A t \in Sources : Live(t)' => Live(t)
    BY <1>5 DEF Opens, Drops, Fails, Live, IInv, TypeOK
  <2> QED BY <1>4, <2>1, <2>2
<1>6. ASSUME NEW s \in Sources, NEW m, Message(s, m)
      PROVE  HInv'
  BY <1>4, <1>6 DEF Message, dom, streams, Live
<1>7. CASE UNCHANGED vars
  BY <1>4, <1>7 DEF vars, dom, streams, Live
<1> QED BY <1>1, <1>2, <1>3, <1>5, <1>6, <1>7 DEF Next

(* Whatever is retried, removed, detached or swapped in, in any order, and *)
(* however sources are nested: an element in the page that no pass of htmx *)
(* is still to come to has a listener for each of its names at the live    *)
(* source it hears, also at one a retry has opened (sse.js:236).           *)
THEOREM NobodyGoesDeaf == Spec => []SwapsHearTheirSource
<1>1. IInv /\ HInv /\ [Next]_vars => HInv'
  BY NextPreserves, StepHears
<1>2. HInv => SwapsHearTheirSource
  BY DEF HInv, Heard, SwapsHearTheirSource, Coming, Awaited
<1> QED BY <1>1, <1>2, InitHears, Invariance, PTL DEF Spec
=============================================================================
