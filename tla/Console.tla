------------------------------ MODULE Console ------------------------------
(***************************************************************************)
(* Web consoles (console.py, routers/console.py).  A console is minted by  *)
(* one request, claimed by a WebSocket and carried by its bridge until     *)
(* either side ends, the token expires, or the panel drains.               *)
(*                                                                         *)
(* One action is the code between two awaits of the event loop; the reap   *)
(* of a bridge runs in an executor thread and has two steps of its own.    *)
(* Bytes, window sizes and the argv are left out; staging an argv either   *)
(* leaves a run directory with its key or fails.  A child that survives    *)
(* its reap (a shell of root that ignores the hangup) is not followed.     *)
(***************************************************************************)
EXTENDS Integers, FiniteSets

CONSTANTS
  Tokens,       \* bound: the tokens ever minted
  Sockets,      \* bound: WebSockets open at one time
  Admins,       \* users with the admin role
  MaxSessions,  \* MAX_SESSIONS
  MaxFaults,    \* bound: handshakes that fail after the claim
  NoToken,      \* no session
  Nobody        \* no user

ASSUME ConsoleAssumption ==
  /\ NoToken \notin Tokens
  /\ Nobody \notin Admins
  /\ MaxSessions \in Nat \ {0}
  /\ MaxFaults \in Nat

VARIABLES
  minted,     \* tokens given out so far; secrets.token_urlsafe never repeats one
  sessions,   \* ConsoleManager._sessions
  owner,      \* ConsoleSession.user_id
  claimed,    \* ConsoleSession.claimed
  asked,      \* ConsoleSession.close_requested
  draining,   \* ConsoleManager._draining
  timers,     \* pending calls of _expire_unclaimed
  keys,       \* run directories below CONSOLE_RUN_ROOT
  at,         \* where the coroutine of a WebSocket is
  token,      \* the session it claimed
  user,       \* and for whom
  gone,       \* WebSockets whose browser has left, while that can still be noticed
  master,     \* the PTY master of a session
  readers,    \* masters the event loop watches
  shell,      \* the child process of a session
  panel,      \* is the panel process up?
  stranded,   \* sessions claimed by a WebSocket that then failed to open
  faults      \* handshakes that failed (bounded)

registry == <<minted, sessions, owner, claimed, asked, keys>>
sockets == <<at, token, user, gone>>
ptys == <<master, readers, shell>>
vars == <<registry, sockets, ptys, draining, timers, panel, stranded, faults>>

Bridged == {"pumping", "reaping", "hungup", "reaped"}

Init ==
  /\ minted = {} /\ sessions = {} /\ claimed = {} /\ asked = {} /\ keys = {}
  /\ owner = [t \in Tokens |-> Nobody]
  /\ at = [s \in Sockets |-> "closed"]
  /\ token = [s \in Sockets |-> NoToken]
  /\ user = [s \in Sockets |-> Nobody]
  /\ gone = {} /\ timers = {} /\ readers = {} /\ stranded = {}
  /\ master = [t \in Tokens |-> "none"]
  /\ shell = [t \in Tokens |-> "none"]
  /\ draining = FALSE
  /\ panel = "up"
  /\ faults = 0

-----------------------------------------------------------------------------
(* POST /console/token *)

(* Mutant: the directory is left when no argv could be built. *)
KeysKeptOnFailure(t) == keys \cup {t}

(* What is below CONSOLE_RUN_ROOT once no argv could be built for t. *)
KeysAfterFailure(t) == keys \ {t}

CanIssue == ~draining /\ Cardinality(sessions) < MaxSessions

Issue(t, u) ==
  /\ panel = "up" /\ CanIssue /\ t \notin minted
  /\ minted' = minted \cup {t}
  /\ keys' = keys \cup {t}
  /\ sessions' = sessions \cup {t}
  /\ owner' = [owner EXCEPT ![t] = u]
  /\ timers' = timers \cup {t}
  /\ UNCHANGED <<claimed, asked, sockets, ptys, draining, panel, stranded, faults>>

(* Bad target or missing credentials: the directory goes again.  A token   *)
(* nobody was given may as well be drawn again.                            *)
IssueFails(t) ==
  /\ panel = "up" /\ CanIssue /\ t \notin minted
  /\ keys' = KeysAfterFailure(t)
  /\ UNCHANGED <<minted, sessions, owner, claimed, asked, sockets, ptys, draining, timers,
                 panel, stranded, faults>>

(* close: out of the registry, directory removed.  Its own reap finds no   *)
(* master any more: the bridge has reaped, or there never was one.         *)
Close(t) ==
  /\ sessions' = sessions \ {t}
  /\ owner' = [owner EXCEPT ![t] = Nobody]
  /\ claimed' = claimed \ {t}
  /\ asked' = asked \ {t}
  /\ keys' = keys \ {t}

(* The TTL timer: a claimed session is left to its bridge. *)
Expire(t) ==
  /\ panel = "up" /\ t \in timers
  /\ timers' = timers \ {t}
  /\ \/ t \in sessions \ claimed /\ Close(t)
     \/ t \notin sessions \ claimed /\ UNCHANGED <<sessions, owner, claimed, asked, keys>>
  /\ UNCHANGED <<minted, sockets, ptys, draining, panel, stranded, faults>>

-----------------------------------------------------------------------------
(* WS /console/ws/{token}.  A refused claim closes the socket and changes  *)
(* nothing else.                                                           *)

(* Mutant: the claimed flag is not looked at. *)
ClaimableAgain(t, u) == t \in sessions /\ owner[t] = u

Claimable(t, u) == t \in sessions /\ t \notin claimed /\ owner[t] = u

Claim(s, t, u) ==
  /\ panel = "up" /\ at[s] = "closed" /\ Claimable(t, u)
  /\ claimed' = claimed \cup {t}
  /\ at' = [at EXCEPT ![s] = "accepting"]
  /\ token' = [token EXCEPT ![s] = t]
  /\ user' = [user EXCEPT ![s] = u]
  /\ UNCHANGED <<minted, sessions, owner, asked, keys, gone, ptys, draining, timers,
                 panel, stranded, faults>>

Hangup(s) ==
  /\ at' = [at EXCEPT ![s] = "closed"]
  /\ token' = [token EXCEPT ![s] = NoToken]
  /\ user' = [user EXCEPT ![s] = Nobody]
  /\ gone' = gone \ {s}

(* accept raises: the coroutine ends here, outside the reach of _bridge. *)
AcceptFails(s) ==
  /\ panel = "up" /\ at[s] = "accepting" /\ faults < MaxFaults
  /\ Hangup(s)
  /\ stranded' = stranded \cup {token[s]}
  /\ faults' = faults + 1
  /\ UNCHANGED <<registry, ptys, draining, timers, panel>>

Spawn(s) ==
  /\ panel = "up" /\ at[s] = "accepting"
  /\ at' = [at EXCEPT ![s] = "pumping"]
  /\ master' = [master EXCEPT ![token[s]] = "held"]
  /\ shell' = [shell EXCEPT ![token[s]] = "running"]
  /\ readers' = readers \cup {token[s]}
  /\ UNCHANGED <<registry, token, user, gone, draining, timers, panel, stranded, faults>>

(* openpty raises, or Popen does and nobody closes the master.  The        *)
(* apology to the browser is awaited before the session is closed.         *)
SpawnFails(s) ==
  /\ panel = "up" /\ at[s] = "accepting"
  /\ at' = [at EXCEPT ![s] = "apologising"]
  /\ \E fd \in {"none", "leaked"} : master' = [master EXCEPT ![token[s]] = fd]
  /\ gone' = gone \ {s}
  /\ UNCHANGED <<registry, token, user, readers, shell, draining, timers, panel,
                 stranded, faults>>

(* Mutant: the spawn failure is reported, and the session forgotten. *)
GivesUpWithoutClosing(s) ==
  /\ panel = "up" /\ at[s] = "apologising"
  /\ Hangup(s)
  /\ UNCHANGED <<registry, ptys, draining, timers, panel, stranded, faults>>

GivesUp(s) ==
  /\ panel = "up" /\ at[s] = "apologising"
  /\ Close(token[s])
  /\ Hangup(s)
  /\ UNCHANGED <<minted, ptys, draining, timers, panel, stranded, faults>>

(* Before the handshake is over, or under the bridge; later nobody looks. *)
ClientLeaves(s) ==
  /\ panel = "up" /\ at[s] \in {"accepting", "pumping"}
  /\ gone' = gone \cup {s}
  /\ UNCHANGED <<registry, at, token, user, ptys, draining, timers, panel, stranded, faults>>

(* The shell ends: exit typed, its host gone, or by hangup or signal. *)
ShellExits(t) ==
  /\ shell[t] = "running"
  /\ shell' = [shell EXCEPT ![t] = "exited"]
  /\ UNCHANGED <<registry, sockets, master, readers, draining, timers, panel, stranded,
                 faults>>

(* on_readable meets the end of the output. *)
EndOfOutput(t) ==
  /\ panel = "up" /\ t \in readers /\ shell[t] = "exited"
  /\ readers' = readers \ {t}
  /\ UNCHANGED <<registry, sockets, master, shell, draining, timers, panel, stranded, faults>>

(* Mutant: the bridge does not wait for the browser. *)
EndedUnlessLeft(s) == token[s] \notin readers \/ token[s] \in asked

(* One of the three tasks of the bridge is done. *)
Ended(s) == token[s] \notin readers \/ s \in gone \/ token[s] \in asked

(* Mutant: the session is closed first and reaped later. *)
WakeClosingFirst(s) ==
  /\ panel = "up" /\ at[s] = "pumping" /\ Ended(s)
  /\ at' = [at EXCEPT ![s] = "reaping"]
  /\ readers' = readers \ {token[s]}
  /\ Close(token[s])
  /\ gone' = gone \ {s}
  /\ UNCHANGED <<minted, token, user, master, shell, draining, timers, panel,
                 stranded, faults>>

Wake(s) ==
  /\ panel = "up" /\ at[s] = "pumping" /\ Ended(s)
  /\ at' = [at EXCEPT ![s] = "reaping"]
  /\ readers' = readers \ {token[s]}
  /\ gone' = gone \ {s}
  /\ UNCHANGED <<registry, token, user, master, shell, draining, timers, panel,
                 stranded, faults>>

(* The executor thread: first the master, then the grace time and the      *)
(* signals, which the shell may or may not heed.                           *)
ReapHangsUp(s) ==
  /\ panel = "up" /\ at[s] = "reaping"
  /\ at' = [at EXCEPT ![s] = "hungup"]
  /\ master' = [master EXCEPT ![token[s]] = "none"]
  /\ UNCHANGED <<registry, token, user, gone, readers, shell, draining, timers, panel,
                 stranded, faults>>

ReapEnds(s) ==
  /\ panel = "up" /\ at[s] = "hungup"
  /\ at' = [at EXCEPT ![s] = "reaped"]
  /\ UNCHANGED <<registry, token, user, gone, ptys, draining, timers, panel, stranded,
                 faults>>

(* Back on the loop. *)
FinishBridge(s) ==
  /\ panel = "up" /\ at[s] = "reaped"
  /\ Close(token[s])
  /\ Hangup(s)
  /\ shell' = [shell EXCEPT ![token[s]] = "none"]
  /\ UNCHANGED <<minted, master, readers, draining, timers, panel, stranded, faults>>

-----------------------------------------------------------------------------
(* SIGHUP, and the end and the start of the panel. *)

(* Mutant: only the consoles in use are asked. *)
AskedByDrainIfClaimed == asked \cup claimed

AskedByDrain == asked \cup sessions

(* Mutant: the drain closes the masters itself. *)
BeginDrainReaping ==
  /\ panel = "up"
  /\ draining' = TRUE
  /\ asked' = AskedByDrain
  /\ master' = [t \in Tokens |-> "none"]
  /\ UNCHANGED <<minted, sessions, owner, claimed, keys, sockets, readers, shell, timers,
                 panel, stranded, faults>>

BeginDrain ==
  /\ panel = "up"
  /\ draining' = TRUE
  /\ asked' = AskedByDrain
  /\ UNCHANGED <<minted, sessions, owner, claimed, keys, sockets, ptys, timers, panel,
                 stranded, faults>>

(* However it ends (execv included: the masters are not inheritable), the  *)
(* memory is lost and the masters close.  An issue that was under way may  *)
(* leave its directory behind.                                             *)
PanelStops ==
  /\ panel = "up"
  /\ panel' = "down"
  /\ \/ UNCHANGED keys
     \/ \E t \in Tokens \ minted : keys' = keys \cup {t}
  /\ sessions' = {} /\ claimed' = {} /\ asked' = {} /\ timers' = {}
  /\ owner' = [t \in Tokens |-> Nobody]
  /\ at' = [s \in Sockets |-> "closed"]
  /\ token' = [s \in Sockets |-> NoToken]
  /\ user' = [s \in Sockets |-> Nobody]
  /\ gone' = {} /\ readers' = {} /\ stranded' = {}
  /\ master' = [t \in Tokens |-> "none"]
  /\ shell' = [t \in Tokens |-> "none"]
  /\ draining' = FALSE
  /\ UNCHANGED <<minted, faults>>

(* lifespan sweeps the run directories before the first request. *)
KeysAtBoot == {}

Boot ==
  /\ panel = "down"
  /\ panel' = "up"
  /\ keys' = KeysAtBoot
  /\ UNCHANGED <<minted, sessions, owner, claimed, asked, sockets, ptys, draining, timers,
                 stranded, faults>>

(* What the loop and the executor do for a WebSocket once it has claimed,  *)
(* and for a token.                                                        *)
Carry(s) ==
  \/ AcceptFails(s) \/ Spawn(s) \/ SpawnFails(s) \/ GivesUp(s)
  \/ Wake(s) \/ ReapHangsUp(s) \/ ReapEnds(s) \/ FinishBridge(s)

Callback(t) == Expire(t) \/ EndOfOutput(t)

Next ==
  \/ \E t \in Tokens :
       \/ \E u \in Admins : Issue(t, u)
       \/ IssueFails(t) \/ ShellExits(t) \/ Callback(t)
  \/ \E s \in Sockets :
       \/ \E t \in Tokens, u \in Admins : Claim(s, t, u)
       \/ ClientLeaves(s) \/ Carry(s)
  \/ BeginDrain \/ PanelStops \/ Boot

Spec == Init /\ [][Next]_vars

(* The loop runs what is ready, the executor runs its threads, and the     *)
(* panel is started again by systemd or by its own execv: something that   *)
(* is ready is done, in whatever order.  Nothing is asked of the browser,  *)
(* of the user at the shell, or of a drain.                                *)
Ready ==
  \/ Boot
  \/ \E t \in Tokens : Callback(t)
  \/ \E s \in Sockets : Carry(s)

FairSpec == Spec /\ WF_vars(Ready)

-----------------------------------------------------------------------------

TypeOK ==
  /\ minted \subseteq Tokens /\ sessions \subseteq minted /\ keys \subseteq Tokens
  /\ claimed \subseteq sessions /\ asked \subseteq sessions
  /\ timers \subseteq minted
  /\ stranded \subseteq claimed
  /\ owner \in [Tokens -> Admins \cup {Nobody}]
  /\ at \in [Sockets -> {"closed", "accepting", "apologising"} \cup Bridged]
  /\ token \in [Sockets -> Tokens \cup {NoToken}]
  /\ user \in [Sockets -> Admins \cup {Nobody}]
  /\ gone \subseteq Sockets
  /\ readers \subseteq Tokens
  /\ master \in [Tokens -> {"none", "held", "leaked"}]
  /\ shell \in [Tokens -> {"none", "running", "exited"}]
  /\ draining \in BOOLEAN
  /\ panel \in {"up", "down"}
  /\ faults \in 0..MaxFaults

(* "the SSH key is written 0600 into a per-session run dir and deleted on  *)
(* teardown": while the panel serves, there is a run directory for each    *)
(* session and for nothing else, whatever failed and whatever the process  *)
(* before it left behind.                                                  *)
KeysBelongToSessions == panel = "up" => keys = sessions

(* "a token is minted by an authenticated, admin-only POST and is single-  *)
(* use": a session is carried by at most one WebSocket, opened for the     *)
(* administrator who asked for it, until the registry has dropped it.      *)
OneSocketPerSession ==
  \A s \in Sockets : at[s] # "closed" =>
    /\ token[s] \in claimed
    /\ owner[token[s]] = user[s]
    /\ \A s2 \in Sockets : token[s2] = token[s] => s2 = s

(* Somebody will give each session back: its timer, or the WebSocket that  *)
(* claimed it.  Only a handshake that fails after the claim strands one.   *)
EverySessionHasKeeper ==
  \A t \in sessions :
    IF t \in claimed
    THEN t \in stranded \/ \E s \in Sockets : token[s] = t
    ELSE t \in timers

(* MAX_SESSIONS "bounds runaway PTYs": a PTY that a bridge opened belongs  *)
(* to a session that still counts until its master is closed, so no more   *)
(* than that many are open at once.                                        *)
OpenPtys == {t \in Tokens : master[t] = "held"}
PtysCounted == OpenPtys \subseteq sessions /\ Cardinality(OpenPtys) <= MaxSessions

(* "no cross-thread fd-close race": the loop never watches a descriptor    *)
(* that has been closed and whose number may already be another's.         *)
NoReaderOnClosedMaster == readers \subseteq OpenPtys

(* A console is used once, by one user, and its terminal is hung up before *)
(* its place is free (console.py:21-22, 323-347), also when the shell ends,*)
(* the browser leaves, the timer, the drain and a failure meet in between. *)
HungUp == {token[s] : s \in {c \in Sockets : at[c] \in {"hungup", "reaped"}}}
Stage(t) ==
  IF t \notin minted THEN "fresh"
  ELSE IF t \notin sessions THEN "gone"
  ELSE IF t \notin claimed THEN "offered"
  ELSE IF t \in stranded THEN "lost"
  ELSE IF t \in OpenPtys THEN "open"
  ELSE IF t \in HungUp THEN "hungup" ELSE "used"
Access(t) == ({owner[t]} \cup {user[s] : s \in {c \in Sockets : token[c] = t}}) \ {Nobody}
stageBar == [t \in Tokens |-> Stage(t)]
accessBar == [t \in Tokens |-> Access(t)]
OneTime == INSTANCE OneTimeConsole WITH
  Users <- Admins, Capacity <- MaxSessions, stage <- stageBar, access <- accessBar
ImplementsOneTime == OneTime!Spec

(* begin_drain must "ask every live one to close", also the session that   *)
(* is claimed only after it: a drain empties the registry, but for the     *)
(* stranded sessions.                                                      *)
DrainEmptiesRegistry == draining ~> (~draining \/ sessions \subseteq stranded)

(* When a console's shell has ended, or its browser has left while the     *)
(* bridge was pumping, its session and its key material go.                *)
Over(t) == shell[t] = "exited" \/ \E s \in gone : at[s] = "pumping" /\ token[s] = t
EndedConsoleIsCleared == \A t \in Tokens : Over(t) ~> t \notin keys
=============================================================================
