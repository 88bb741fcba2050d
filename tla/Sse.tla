-------------------------------- MODULE Sse --------------------------------
(***************************************************************************)
(* The server-sent-events extension of htmx that every page of the panel   *)
(* loads (static/js/sse.js, from templates/base.html:32), for any page.    *)
(*                                                                         *)
(* It keeps one EventSource in the data of an element with sse-connect,    *)
(* gives the elements with sse-swap below it a listener, and opens a new   *)
(* source some time after one has failed for good.  One action is one call *)
(* of the browser into the extension; `todo' and `calls' hold what is left *)
(* of a pass of htmx over new nodes, or of the dispatch of one event, and  *)
(* nothing else runs until they are empty.                                 *)
(*                                                                         *)
(* The DOM is a fixed forest of which a part is linked.  What htmx 1.9.12  *)
(* does with the nodes around the calls is modelled as sse.js relies on it.*)
(* No element has the legacy attribute hx-sse, on which the core of htmx   *)
(* acts by itself too.  URLs, the data of a message, the classes of        *)
(* settling and the length of a retry's delay are left out: timers run in  *)
(* any order.                                                              *)
(***************************************************************************)
EXTENDS Naturals, Sequences, FiniteSets

CONSTANTS
  Elements,     \* elements of the page, now or later
  Above,        \* Above[e]: e and its ancestors
  SseConnect,   \* elements with sse-connect
  SseSwap,      \* SseSwap[e]: the event names of sse-swap, <<>> without it
  HxExt,        \* elements with hx-ext="sse"
  Processed,    \* elements htmx initialises one by one (an hx- attribute)
  Style,        \* Style[e]: hx-swap of an element that is swapped into
  Later,        \* elements that are not in the page when it loads
  SettleDelay,  \* settle delay of a swap; htmx's default is 20 ms
  MaxTries,     \* cap of the retry count: 7
  MaxSources,   \* bound: EventSources ever opened for one element
  MaxFaults,    \* bound: fatal errors
  NoSource      \* no EventSource

(* A listener is registered for an element and one of its names. *)
Slots == UNION {{c} \X DOMAIN SseSwap[c] : c \in Elements}

Sources == Elements \X (1..MaxSources)

ASSUME PageAssumption ==
  /\ \A e \in Elements : e \in Above[e] /\ Above[e] \subseteq Elements
  /\ \A e \in Elements : \A a \in Above[e] : Above[a] \subseteq Above[e]
  /\ \A e \in Elements : \A a \in Above[e] : e \in Above[a] => a = e
  /\ \A e \in Elements : \A a, b \in Above[e] : a \in Above[b] \/ b \in Above[a]
  /\ SseConnect \subseteq Elements
  /\ HxExt \subseteq Processed /\ Processed \subseteq Elements
  /\ Later \subseteq Elements
  /\ \A e \in Elements : \A a \in Above[e] : a \in Later => e \in Later

ASSUME BoundAssumption ==
  /\ MaxTries \in Nat /\ MaxSources \in Nat /\ MaxFaults \in Nat /\ SettleDelay \in Nat
  /\ NoSource \notin Sources

VARIABLES
  linked,     \* elements that hang on their parent
  unused,     \* elements no message has brought yet
  hashed,     \* elements initialised with their attributes (internalData.initHash)
  recorded,   \* internalData.sseEventSource of an element, 0 when undefined
  opened,     \* how many EventSources were opened for it
  state,      \* readyState of an EventSource ("none": not opened yet)
  tries,      \* retryCount in the closure of its onerror
  hears,      \* how many listeners it has for a slot
  retry,      \* sources whose failure left a timer
  settling,   \* elements swapped in whose settle task has not run
  todo,       \* elements that htmx still has to initialise in this pass
  calls,      \* listeners still to be called for the event being dispatched
  from,       \* the source of that event
  faults      \* fatal errors so far (bounded)

dom == <<linked, unused, hashed, settling>>
streams == <<recorded, opened, state, tries, hears>>
vars == <<dom, streams, retry, todo, calls, from, faults>>

Quiet == [x \in Slots |-> 0]
Idle == todo = {} /\ calls = Quiet

(* The elements that hang below r, r included: querySelectorAll. *)
Path(d, r) == {x \in Above[d] \ {r} : r \in Above[x]}
Under(r) == {d \in Elements : r \in Above[d] /\ Path(d, r) \subseteq linked}

(* bodyContains *)
InPage(e) == Above[e] \subseteq linked

InExt(e) == \E a \in Above[e] \cap HxExt : e \in Under(a)

Live(s) == state[s] \in {"connecting", "open"}

HasEventSource(p, rec) == rec[p] # 0

(* The source an element below would register with: the nearest above. *)
Hearing(c, rec) ==
  {<<p, rec[p]>> : p \in {q \in Above[c] :
     /\ c \in Under(q) /\ HasEventSource(q, rec)
     /\ \A r \in Above[c] : HasEventSource(r, rec) /\ q \in Above[r] => r = q}}

Init ==
  /\ linked = Elements \ Later
  /\ unused = Later /\ hashed = {}
  /\ recorded = [e \in Elements |-> 0]
  /\ opened = [e \in Elements |-> 0]
  /\ state = [s \in Sources |-> "none"]
  /\ tries = [s \in Sources |-> 0]
  /\ hears = [s \in Sources |-> Quiet]
  /\ retry = {} /\ settling = {}
  /\ todo = Processed \ Later
  /\ calls = Quiet /\ from = NoSource
  /\ faults = 0

-----------------------------------------------------------------------------
(* Opening sources and registering listeners *)

(* Closing the recorded sources of some elements, given the states. *)
Closed(es) == [s \in Sources |-> IF s[1] \in es /\ recorded[s[1]] = s[2] THEN "closed" ELSE state[s]]

(* Mutant: only elements with a source of their own below are registered *)
(* when the source is opened for the first time.                         *)
RegisteredOnce(r, rec, s, x) ==
  IF x[1] \in Under(r) /\ s \in Hearing(x[1], rec) /\ s[2] = 1 THEN 1 ELSE 0

(* registerSSE(r).  Its second loop builds listeners for hx-trigger that   *)
(* it adds to no source.                                                   *)
Registered(r, rec, s, x) == IF x[1] \in Under(r) /\ s \in Hearing(x[1], rec) THEN 1 ELSE 0

NextTry(n) == IF n < MaxTries THEN n + 1 ELSE MaxTries

(* ensureEventSource for every element of new, with n as the retry count.  *)
(* A source that was recorded before is neither used nor closed.           *)
Opening(new, n, st, rec) ==
  /\ \A e \in new : opened[e] < MaxSources
  /\ opened' = [e \in Elements |-> IF e \in new THEN opened[e] + 1 ELSE opened[e]]
  /\ recorded' = [e \in Elements |-> IF e \in new THEN opened[e] + 1 ELSE rec[e]]
  /\ state' = [s \in Sources |->
                 IF s[1] \in new /\ s[2] = opened[s[1]] + 1 THEN "connecting" ELSE st[s]]
  /\ tries' = [s \in Sources |->
                 IF s[1] \in new /\ s[2] = opened[s[1]] + 1 THEN n ELSE tries[s]]

(* ensureEventSourceOnElement(r, n) *)
Ensure(r, n, st, rec) ==
  /\ Opening(Under(r) \cap SseConnect, n, st, rec)
  /\ hears' = [s \in Sources |-> [x \in Slots |-> hears[s][x] + Registered(r, recorded', s, x)]]

(* htmx initialises a node: it closes and forgets what the node had, and   *)
(* tells the extension with htmx:afterProcessNode.                         *)
ProcessNode(e) ==
  /\ e \in todo /\ Above[e] \cap todo = {e}
  /\ todo' = todo \ {e}
  /\ hashed' = hashed \cup {e}
  /\ \/ InExt(e) /\ Ensure(e, 0, Closed({e}), [recorded EXCEPT ![e] = 0])
     \/ /\ ~InExt(e)
        /\ state' = Closed({e})
        /\ recorded' = [recorded EXCEPT ![e] = 0]
        /\ UNCHANGED <<opened, tries, hears>>
  /\ UNCHANGED <<linked, unused, settling, retry, calls, from, faults>>

-----------------------------------------------------------------------------
(* Elements that leave *)

(* Cut the elements of roots off the page after htmx has cleaned them up:  *)
(* htmx:beforeCleanupElement closes the recorded source of each node below.*)
CleanedUp(roots) ==
  LET nodes == UNION {Under(r) : r \in roots} IN
  /\ state' = Closed(nodes)
  /\ recorded' = [e \in Elements |-> IF e \in nodes THEN 0 ELSE recorded[e]]
  /\ hashed' = hashed \ nodes

(* A response of htmx replaces an element. *)
Removed(e) ==
  /\ Idle /\ InPage(e)
  /\ CleanedUp({e})
  /\ linked' = linked \ {e}
  /\ UNCHANGED <<unused, settling, opened, tries, hears, retry, todo, calls, from, faults>>

(* A script that knows nothing of htmx removes an element. *)
Detached(e) ==
  /\ Idle /\ InPage(e)
  /\ linked' = linked \ {e}
  /\ UNCHANGED <<unused, hashed, settling, streams, retry, todo, calls, from, faults>>

(* Mutant: the check is left to the listeners. *)
NeverGone(p) == FALSE

(* maybeCloseSSESource(p) closes and returns true. *)
Gone(p) == ~InPage(p) /\ recorded[p] # 0

-----------------------------------------------------------------------------
(* Messages *)

Message(s, m) ==
  /\ Idle /\ state[s] = "open"
  /\ calls' = [x \in Slots |-> IF SseSwap[x[1]][x[2]] = m THEN hears[s][x] ELSE 0]
  /\ calls' # Quiet
  /\ from' = s
  /\ UNCHANGED <<dom, streams, retry, todo, faults>>

(* What a message may bring to c: nothing but text, or an element. *)
Brought(c) ==
  {{}} \cup {{n} : n \in {u \in unused :
     IF Style[c] = "outerHTML" THEN Above[u] \ {u} = Above[c] \ {c}
                               ELSE Above[u] \ {u} = Above[c]}}

Replaced(c) ==
  CASE Style[c] = "innerHTML" -> {d \in linked : Above[d] \ {d} = Above[c]}
    [] Style[c] = "outerHTML" -> {c}
    [] OTHER -> {}

(* What htmx initialises when n settles: n, from which the class htmx-added*)
(* has just been taken, and what has not its present attributes already.   *)
Nodes(n) == {n} \cup ((Processed \cap Under(n)) \ hashed)

(* swap(c, data).  The new nodes are in the page at once and are processed *)
(* when the swap settles.                                                  *)
Swap(c) ==
  \E new \in Brought(c) :
    LET nodes == {d \in unused : Above[d] \cap new # {}} IN
    /\ CleanedUp(Replaced(c))
    /\ linked' = (linked \ Replaced(c)) \cup nodes
    /\ unused' = unused \ nodes
    /\ settling' = IF SettleDelay > 0 THEN settling \cup new ELSE settling
    /\ todo' = IF SettleDelay > 0 THEN {} ELSE new \cup (Processed \cap nodes)

(* doSettle: the task that processes new content, which may have left the  *)
(* page by then.                                                           *)
Settle(n) ==
  /\ Idle /\ n \in settling
  /\ settling' = settling \ {n}
  /\ todo' = Nodes(n)
  /\ UNCHANGED <<linked, unused, hashed, streams, retry, calls, from, faults>>

(* One listener of the event.  It removes, when its element has left, the  *)
(* last listener of its registration, whichever it is itself: the loop     *)
(* shares its variables.                                                   *)
Call(x) ==
  LET c == x[1]
      last == <<c, Len(SseSwap[c])>>
  IN
  /\ todo = {} /\ calls[x] > 0
  /\ calls' = [calls EXCEPT ![x] = @ - 1]
  /\ from' = IF calls' = Quiet THEN NoSource ELSE from
  /\ \/ /\ Gone(from[1])
        /\ state' = Closed({from[1]})
        /\ UNCHANGED <<dom, recorded, opened, tries, hears, todo>>
     \/ /\ ~Gone(from[1]) /\ ~InPage(c)
        /\ hears' = [hears EXCEPT ![from][last] = IF @ > 0 THEN @ - 1 ELSE 0]
        /\ UNCHANGED <<dom, recorded, opened, state, tries, todo>>
     \/ \* htmx:sseBeforeMessage was refused
        /\ ~Gone(from[1]) /\ InPage(c)
        /\ UNCHANGED <<dom, streams, todo>>
     \/ /\ ~Gone(from[1]) /\ InPage(c)
        /\ Swap(c)
        /\ UNCHANGED <<opened, tries, hears>>
  /\ UNCHANGED <<retry, faults>>

-----------------------------------------------------------------------------
(* Connections *)

Opens(s) ==
  /\ Idle /\ state[s] = "connecting"
  /\ state' = [state EXCEPT ![s] = "open"]
  /\ UNCHANGED <<dom, recorded, opened, tries, hears, retry, todo, calls, from, faults>>

(* Mutant: readyState is not looked at, every error sets a timer. *)
DropsWithTimer(s) ==
  /\ Idle /\ Live(s) /\ faults < MaxFaults
  /\ state' = [t \in Sources |->
       IF Gone(s[1]) /\ t = <<s[1], recorded[s[1]]>> THEN "closed"
       ELSE IF t = s THEN "connecting" ELSE state[t]]
  /\ retry' = IF Gone(s[1]) THEN retry ELSE retry \cup {s}
  /\ faults' = faults + 1
  /\ UNCHANGED <<dom, recorded, opened, tries, hears, todo, calls, from>>

(* onerror while the browser reconnects by itself. *)
Drops(s) ==
  /\ Idle /\ Live(s)
  /\ state' = [t \in Sources |->
       IF Gone(s[1]) /\ t = <<s[1], recorded[s[1]]>> THEN "closed"
       ELSE IF t = s THEN "connecting" ELSE state[t]]
  /\ UNCHANGED <<dom, recorded, opened, tries, hears, retry, todo, calls, from, faults>>

(* Mutant: the timer is only set by a source that has been open. *)
RetriesIfOpened(s) == IF state[s] = "open" /\ ~Gone(s[1]) THEN {s} ELSE {}

(* Mutant: it gives up when the count is at its cap. *)
RetriesUpToCap(s) == IF tries[s] = MaxTries \/ Gone(s[1]) THEN {} ELSE {s}

(* The timer that onerror leaves when the browser has given the source up. *)
Retries(s) == IF Gone(s[1]) THEN {} ELSE {s}

(* onerror with readyState CLOSED: not an event stream, or refused. *)
Fails(s) ==
  /\ Idle /\ Live(s) /\ faults < MaxFaults
  /\ state' = [t \in Sources |->
       IF t = s \/ (Gone(s[1]) /\ t = <<s[1], recorded[s[1]]>>) THEN "closed" ELSE state[t]]
  /\ retry' = retry \cup Retries(s)
  /\ faults' = faults + 1
  /\ UNCHANGED <<dom, recorded, opened, tries, hears, todo, calls, from>>

(* The timer: whether the element is still in the page is not asked. *)
Timer(s) ==
  /\ Idle /\ s \in retry
  /\ retry' = retry \ {s}
  /\ Ensure(s[1], NextTry(tries[s]), state, recorded)
  /\ UNCHANGED <<dom, todo, calls, from, faults>>

Next ==
  \/ \E e \in Elements : ProcessNode(e) \/ Removed(e) \/ Detached(e) \/ Settle(e)
  \/ \E s \in Sources :
       \/ Opens(s) \/ Drops(s) \/ Fails(s) \/ Timer(s)
       \/ \E c \in Elements : \E i \in DOMAIN SseSwap[c] : Message(s, SseSwap[c][i])
  \/ \E x \in Slots : Call(x)

Spec == Init /\ [][Next]_vars

(* A pass of htmx and the dispatch of an event run to their end; and timers*)
(* that are due go on being served, however many messages come between: the*)
(* event loop takes tasks of both sources.                                 *)
Fairness ==
  /\ WF_vars(\E e \in Elements : ProcessNode(e))
  /\ WF_vars(\E x \in Slots : Call(x))
  /\ SF_vars(\E s \in Sources : Timer(s))
  /\ SF_vars(\E e \in Elements : Settle(e))

FairSpec == Spec /\ Fairness

-----------------------------------------------------------------------------
(* Properties *)

(* Every variable keeps its type. *)
TypeOK ==
  /\ linked \subseteq Elements /\ unused \subseteq Elements
  /\ hashed \subseteq Elements
  /\ settling \subseteq Elements /\ todo \subseteq Elements
  /\ recorded \in [Elements -> 0..MaxSources]
  /\ opened \in [Elements -> 0..MaxSources]
  /\ state \in [Sources -> {"none", "connecting", "open", "closed"}]
  /\ tries \in [Sources -> 0..MaxTries]
  /\ hears \in [Sources -> [Slots -> Nat]]
  /\ retry \subseteq Sources
  /\ calls \in [Slots -> Nat]
  /\ from \in Sources \cup {NoSource}
  /\ faults \in 0..MaxFaults

(* Nothing above e makes the extension open sources for e. *)
Alone(e) == e \in Processed /\ Above[e] \cap (SseConnect \cup Processed \cup Later) = {e}

(* No connection is lost from sight: a live EventSource of an element that *)
(* stands alone is the one its data names, so that cleaning the element up *)
(* (sse.js:46), an error and a message can close it, whatever failed,      *)
(* was retried, removed or swapped in before.                              *)
LiveSourceIsRecorded ==
  \A s \in Sources : Alone(s[1]) /\ Live(s) => recorded[s[1]] = s[2]

(* No element in the page goes deaf: with every name of its sse-swap it    *)
(* listens to the nearest source above it as long as that one is live, also*)
(* when the source is a successor, opened by a retry (sse.js:236), or when *)
(* the element itself was swapped in later.                                *)
Deaf(x) == \E s \in Hearing(x[1], recorded) : Live(s) /\ hears[s][x] = 0
Awaited(e) == Above[e] \cap (settling \cup todo) # {}
SwapsHearTheirSource ==
  \A x \in Slots : InPage(x[1]) /\ ~Awaited(x[1]) => ~Deaf(x)

(* No element is left with a dead stream: while it is in the page, a       *)
(* recorded source that is closed has a timer that will replace it         *)
(* (sse.js:253-259); nothing else closes the source of such an element.    *)
BrokenStreamIsRetried ==
  \A s \in Sources :
    recorded[s[1]] = s[2] /\ state[s] = "closed" /\ InPage(s[1]) => s \in retry

(* An element that left without its source being closed, or got one from a *)
(* timer afterwards, keeps it no longer than to the next error or message  *)
(* on it, and that error starts no retry (sse.js:140, sse.js:248).         *)
Speaks(s) == Drops(s) \/ Fails(s) \/ (from = s /\ \E x \in Slots : Call(x))
OrphansEnd ==
  [][\A s \in Sources :
       Alone(s[1]) /\ ~InPage(s[1]) /\ Speaks(s) => state'[s] = "closed" /\ s \notin retry']_vars

(* A failed stream comes back: whenever the recorded source of an element  *)
(* is closed, the element leaves the page or has a live source again, at   *)
(* whatever retry count (sse.js:256).                                      *)
RecordedIs(e, st) == \E s \in Sources : s[1] = e /\ recorded[e] = s[2] /\ state[s] \in st
StreamsComeBack ==
  \A e \in SseConnect :
    RecordedIs(e, {"closed"}) ~> (~InPage(e) \/ RecordedIs(e, {"connecting", "open"}))
=============================================================================
