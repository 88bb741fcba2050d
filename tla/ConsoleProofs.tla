--------------------------- MODULE ConsoleProofs ---------------------------
(***************************************************************************)
(* The safety properties of Console, for any number of tokens, WebSockets, *)
(* administrators and sessions.                                            *)
(***************************************************************************)
EXTENDS Console, FiniteSetTheorems, TLAPS

(* A closed WebSocket has no session; another one has a claimed one that   *)
(* is not stranded, its own, of its own user.                              *)
Carried ==
  /\ \A s \in Sockets :
       IF at[s] = "closed" THEN token[s] = NoToken
       ELSE token[s] \in claimed \ stranded /\ owner[token[s]] = user[s]
  /\ \A s1, s2 \in Sockets :
       token[s1] = token[s2] /\ token[s1] # NoToken => s1 = s2

(* A PTY is open exactly while a bridge pumps or is about to hang up, and  *)
(* its master is only watched in the first of the two.                     *)
Wired ==
  /\ \A s \in Sockets : at[s] \in {"pumping", "reaping"} => master[token[s]] = "held"
  /\ \A t \in Tokens : master[t] = "held" =>
       \E s \in Sockets : token[s] = t /\ at[s] \in {"pumping", "reaping"}
  /\ \A t \in readers : \E s \in Sockets : token[s] = t /\ at[s] = "pumping"

Capped == IsFiniteSet(sessions) /\ Cardinality(sessions) <= MaxSessions

NothingWhenDown == panel = "down" => sessions = {}

IInv ==
  /\ TypeOK
  /\ Carried
  /\ Wired
  /\ Capped
  /\ NothingWhenDown
  /\ KeysBelongToSessions
  /\ EverySessionHasKeeper

-----------------------------------------------------------------------------

(* Dropping a session keeps the registry under its cap. *)
LEMMA DropCapped ==
  ASSUME NEW S, NEW t, IsFiniteSet(S), Cardinality(S) <= MaxSessions
  PROVE  IsFiniteSet(S \ {t}) /\ Cardinality(S \ {t}) <= MaxSessions
<1>1. Cardinality(S) \in Nat /\ MaxSessions \in Nat
  BY FS_CardinalityType, ConsoleAssumption
<1>2. IsFiniteSet(S \ {t}) /\ Cardinality(S \ {t}) \in Nat
  BY FS_RemoveElement, FS_CardinalityType
<1>3. Cardinality(S \ {t}) <= Cardinality(S)
  BY FS_Subset, S \ {t} \subseteq S
<1> QED BY <1>1, <1>2, <1>3, SMT

(* CanIssue leaves room for one more. *)
LEMMA AddCapped ==
  ASSUME NEW S, NEW t, IsFiniteSet(S), Cardinality(S) < MaxSessions
  PROVE  IsFiniteSet(S \cup {t}) /\ Cardinality(S \cup {t}) <= MaxSessions
<1>1. Cardinality(S) \in Nat /\ MaxSessions \in Nat
  BY FS_CardinalityType, ConsoleAssumption
<1>2. IsFiniteSet(S \cup {t})
     /\ (Cardinality(S \cup {t}) = Cardinality(S) \/ Cardinality(S \cup {t}) = Cardinality(S) + 1)
  BY FS_AddElement
<1> QED BY <1>1, <1>2, SMT

LEMMA InitEstablishes == Init => IInv
<1> SUFFICES ASSUME Init PROVE IInv
  OBVIOUS
<1>1. TypeOK
  <2>1. faults \in 0..MaxFaults
    BY ConsoleAssumption, SMT DEF Init
  <2>2. /\ owner \in [Tokens -> Admins \cup {Nobody}]
        /\ at \in [Sockets -> {"closed", "accepting", "apologising"} \cup Bridged]
        /\ token \in [Sockets -> Tokens \cup {NoToken}]
        /\ user \in [Sockets -> Admins \cup {Nobody}]
        /\ master \in [Tokens -> {"none", "held", "leaked"}]
        /\ shell \in [Tokens -> {"none", "running", "exited"}]
    BY SMT DEF Init
  <2>3. draining \in BOOLEAN /\ panel \in {"up", "down"}
    BY DEF Init
  <2>4. /\ minted \subseteq Tokens /\ sessions \subseteq minted /\ keys \subseteq Tokens
        /\ claimed \subseteq sessions /\ asked \subseteq sessions /\ timers \subseteq minted
        /\ stranded \subseteq claimed /\ gone \subseteq Sockets /\ readers \subseteq Tokens
    BY DEF Init
  <2> QED BY <2>1, <2>2, <2>3, <2>4 DEF TypeOK
<1>2. Carried /\ Wired /\ NothingWhenDown /\ KeysBelongToSessions /\ EverySessionHasKeeper
  BY SMT DEF Init, Carried, Wired, NothingWhenDown, KeysBelongToSessions, EverySessionHasKeeper
<1>3. Capped
  <2>1. sessions = {} /\ IsFiniteSet({}) /\ Cardinality({}) = 0
    BY FS_EmptySet DEF Init
  <2> QED BY <2>1, ConsoleAssumption, SMT DEF Capped
<1> QED BY <1>1, <1>2, <1>3 DEF IInv

LEMMA IssuePreserves ==
  ASSUME IInv, NEW t \in Tokens, NEW u \in Admins, Issue(t, u)
  PROVE  IInv'
<1>1. TypeOK'
  BY ConsoleAssumption, SMT DEF IInv, TypeOK, Carried, Issue, CanIssue, registry, sockets, ptys, Bridged
<1>2. Carried'
  BY ConsoleAssumption, SMT DEF IInv, TypeOK, Carried, Issue, CanIssue, registry, sockets, ptys, Bridged
<1>3. Wired'
  BY ConsoleAssumption, SMT DEF IInv, TypeOK, Carried, Wired, Issue, CanIssue, registry, sockets, ptys, Bridged
<1>4. Capped'
  BY AddCapped DEF IInv, Capped, Issue, CanIssue, registry, sockets, ptys, Bridged
<1>5. NothingWhenDown' /\ KeysBelongToSessions'
  BY SMT DEF IInv, TypeOK, NothingWhenDown, KeysBelongToSessions, Issue, CanIssue, registry, sockets, ptys, Bridged
<1>6. EverySessionHasKeeper'
  BY ConsoleAssumption, SMT DEF IInv, TypeOK, Carried, EverySessionHasKeeper, Issue, CanIssue, registry, sockets, ptys, Bridged
<1> QED BY <1>1, <1>2, <1>3, <1>4, <1>5, <1>6 DEF IInv

LEMMA IssueFailsPreserves ==
  ASSUME IInv, NEW t \in Tokens, IssueFails(t)
  PROVE  IInv'
<1>1. TypeOK'
  BY ConsoleAssumption, SMT DEF IInv, TypeOK, Carried, IssueFails, KeysAfterFailure, registry, sockets, ptys, Bridged
<1>2. Carried'
  BY ConsoleAssumption, SMT DEF IInv, TypeOK, Carried, IssueFails, KeysAfterFailure, registry, sockets, ptys, Bridged
<1>3. Wired'
  BY ConsoleAssumption, SMT DEF IInv, TypeOK, Carried, Wired, IssueFails, KeysAfterFailure, registry, sockets, ptys, Bridged
<1>4. Capped'
  BY DEF IInv, Capped, IssueFails, KeysAfterFailure, registry, sockets, ptys, Bridged
<1>5. NothingWhenDown' /\ KeysBelongToSessions'
  BY SMT DEF IInv, TypeOK, NothingWhenDown, KeysBelongToSessions, IssueFails, KeysAfterFailure, registry, sockets, ptys, Bridged
<1>6. EverySessionHasKeeper'
  BY ConsoleAssumption, SMT DEF IInv, TypeOK, Carried, EverySessionHasKeeper, IssueFails, KeysAfterFailure, registry, sockets, ptys, Bridged
<1> QED BY <1>1, <1>2, <1>3, <1>4, <1>5, <1>6 DEF IInv

LEMMA ExpirePreserves ==
  ASSUME IInv, NEW t \in Tokens, Expire(t)
  PROVE  IInv'
<1>1. TypeOK'
  BY ConsoleAssumption, SMT DEF IInv, TypeOK, Carried, Expire, Close, registry, sockets, ptys, Bridged
<1>2. Carried'
  BY ConsoleAssumption, SMT DEF IInv, TypeOK, Carried, Expire, Close, registry, sockets, ptys, Bridged
<1>3. Wired'
  BY ConsoleAssumption, SMT DEF IInv, TypeOK, Carried, Wired, Expire, Close, registry, sockets, ptys, Bridged
<1>4. Capped'
  BY DropCapped DEF IInv, Capped, Expire, Close, registry, sockets, ptys, Bridged
<1>5. NothingWhenDown' /\ KeysBelongToSessions'
  <2>1. CASE t \in sessions \ claimed /\ Close(t)
    BY <2>1, SMT DEF IInv, NothingWhenDown, KeysBelongToSessions, Expire, Close
  <2>2. CASE UNCHANGED <<sessions, owner, claimed, asked, keys>>
    BY <2>2, SMT DEF IInv, NothingWhenDown, KeysBelongToSessions, Expire
  <2> QED BY <2>1, <2>2 DEF Expire
<1>6. EverySessionHasKeeper'
  BY ConsoleAssumption, SMT DEF IInv, TypeOK, Carried, EverySessionHasKeeper, Expire, Close, registry, sockets, ptys, Bridged
<1> QED BY <1>1, <1>2, <1>3, <1>4, <1>5, <1>6 DEF IInv

LEMMA ClaimPreserves ==
  ASSUME IInv, NEW s \in Sockets, NEW t \in Tokens, NEW u \in Admins, Claim(s, t, u)
  PROVE  IInv'
<1>1. TypeOK'
  BY ConsoleAssumption, SMT DEF IInv, TypeOK, Carried, Claim, Claimable, registry, sockets, ptys, Bridged
<1>2. Carried'
  BY ConsoleAssumption, SMT DEF IInv, TypeOK, Carried, Claim, Claimable, registry, sockets, ptys, Bridged
<1>3. Wired'
  BY ConsoleAssumption, SMT DEF IInv, TypeOK, Carried, Wired, Claim, Claimable, registry, sockets, ptys, Bridged
<1>4. Capped'
  BY DEF IInv, Capped, Claim, Claimable, registry, sockets, ptys, Bridged
<1>5. NothingWhenDown' /\ KeysBelongToSessions'
  BY SMT DEF IInv, TypeOK, NothingWhenDown, KeysBelongToSessions, Claim, Claimable, registry, sockets, ptys, Bridged
<1>6. EverySessionHasKeeper'
  BY ConsoleAssumption, SMT DEF IInv, TypeOK, Carried, EverySessionHasKeeper, Claim, Claimable, registry, sockets, ptys, Bridged
<1> QED BY <1>1, <1>2, <1>3, <1>4, <1>5, <1>6 DEF IInv

LEMMA AcceptFailsPreserves ==
  ASSUME IInv, NEW s \in Sockets, AcceptFails(s)
  PROVE  IInv'
<1>1. TypeOK'
  BY ConsoleAssumption, SMT DEF IInv, TypeOK, Carried, AcceptFails, Hangup, registry, sockets, ptys, Bridged
<1>2. Carried'
  BY ConsoleAssumption, SMT DEF IInv, TypeOK, Carried, AcceptFails, Hangup, registry, sockets, ptys, Bridged
<1>3. Wired'
  BY ConsoleAssumption, SMT DEF IInv, TypeOK, Carried, Wired, AcceptFails, Hangup, registry, sockets, ptys, Bridged
<1>4. Capped'
  BY DEF IInv, Capped, AcceptFails, Hangup, registry, sockets, ptys, Bridged
<1>5. NothingWhenDown' /\ KeysBelongToSessions'
  BY SMT DEF IInv, TypeOK, NothingWhenDown, KeysBelongToSessions, AcceptFails, Hangup, registry, sockets, ptys, Bridged
<1>6. EverySessionHasKeeper'
  BY ConsoleAssumption, SMT DEF IInv, TypeOK, Carried, EverySessionHasKeeper, AcceptFails, Hangup, registry, sockets, ptys, Bridged
<1> QED BY <1>1, <1>2, <1>3, <1>4, <1>5, <1>6 DEF IInv

LEMMA SpawnPreserves ==
  ASSUME IInv, NEW s \in Sockets, Spawn(s)
  PROVE  IInv'
<1>1. TypeOK'
  BY ConsoleAssumption, SMT DEF IInv, TypeOK, Carried, Spawn, registry, sockets, ptys, Bridged
<1>2. Carried'
  BY ConsoleAssumption, SMT DEF IInv, TypeOK, Carried, Spawn, registry, sockets, ptys, Bridged
<1>3. Wired'
  BY ConsoleAssumption, SMT DEF IInv, TypeOK, Carried, Wired, Spawn, registry, sockets, ptys, Bridged
<1>4. Capped'
  BY DEF IInv, Capped, Spawn, registry, sockets, ptys, Bridged
<1>5. NothingWhenDown' /\ KeysBelongToSessions'
  BY SMT DEF IInv, TypeOK, NothingWhenDown, KeysBelongToSessions, Spawn, registry, sockets, ptys, Bridged
<1>6. EverySessionHasKeeper'
  BY ConsoleAssumption, SMT DEF IInv, TypeOK, Carried, EverySessionHasKeeper, Spawn, registry, sockets, ptys, Bridged
<1> QED BY <1>1, <1>2, <1>3, <1>4, <1>5, <1>6 DEF IInv

LEMMA SpawnFailsPreserves ==
  ASSUME IInv, NEW s \in Sockets, SpawnFails(s)
  PROVE  IInv'
<1>1. TypeOK'
  BY ConsoleAssumption, SMT DEF IInv, TypeOK, Carried, SpawnFails, registry, sockets, ptys, Bridged
<1>2. Carried'
  BY ConsoleAssumption, SMT DEF IInv, TypeOK, Carried, SpawnFails, registry, sockets, ptys, Bridged
<1>3. Wired'
  BY ConsoleAssumption, SMT DEF IInv, TypeOK, Carried, Wired, SpawnFails, registry, sockets, ptys, Bridged
<1>4. Capped'
  BY DEF IInv, Capped, SpawnFails, registry, sockets, ptys, Bridged
<1>5. NothingWhenDown' /\ KeysBelongToSessions'
  BY SMT DEF IInv, TypeOK, NothingWhenDown, KeysBelongToSessions, SpawnFails, registry, sockets, ptys, Bridged
<1>6. EverySessionHasKeeper'
  BY ConsoleAssumption, SMT DEF IInv, TypeOK, Carried, EverySessionHasKeeper, SpawnFails, registry, sockets, ptys, Bridged
<1> QED BY <1>1, <1>2, <1>3, <1>4, <1>5, <1>6 DEF IInv

LEMMA GivesUpPreserves ==
  ASSUME IInv, NEW s \in Sockets, GivesUp(s)
  PROVE  IInv'
<1>1. TypeOK'
  BY ConsoleAssumption, SMT DEF IInv, TypeOK, Carried, GivesUp, Close, Hangup, registry, sockets, ptys, Bridged
<1>2. Carried'
  BY ConsoleAssumption, SMT DEF IInv, TypeOK, Carried, GivesUp, Close, Hangup, registry, sockets, ptys, Bridged
<1>3. Wired'
  BY ConsoleAssumption, SMT DEF IInv, TypeOK, Carried, Wired, GivesUp, Close, Hangup, registry, sockets, ptys, Bridged
<1>4. Capped'
  BY DropCapped DEF IInv, Capped, GivesUp, Close, Hangup, registry, sockets, ptys, Bridged
<1>5. NothingWhenDown' /\ KeysBelongToSessions'
  BY SMT DEF IInv, TypeOK, NothingWhenDown, KeysBelongToSessions, GivesUp, Close, Hangup, registry, sockets, ptys, Bridged
<1>6. EverySessionHasKeeper'
  BY ConsoleAssumption, SMT DEF IInv, TypeOK, Carried, EverySessionHasKeeper, GivesUp, Close, Hangup, registry, sockets, ptys, Bridged
<1> QED BY <1>1, <1>2, <1>3, <1>4, <1>5, <1>6 DEF IInv

LEMMA ClientLeavesPreserves ==
  ASSUME IInv, NEW s \in Sockets, ClientLeaves(s)
  PROVE  IInv'
<1>1. TypeOK'
  BY ConsoleAssumption, SMT DEF IInv, TypeOK, Carried, ClientLeaves, registry, sockets, ptys, Bridged
<1>2. Carried'
  BY ConsoleAssumption, SMT DEF IInv, TypeOK, Carried, ClientLeaves, registry, sockets, ptys, Bridged
<1>3. Wired'
  BY ConsoleAssumption, SMT DEF IInv, TypeOK, Carried, Wired, ClientLeaves, registry, sockets, ptys, Bridged
<1>4. Capped'
  BY DEF IInv, Capped, ClientLeaves, registry, sockets, ptys, Bridged
<1>5. NothingWhenDown' /\ KeysBelongToSessions'
  BY SMT DEF IInv, TypeOK, NothingWhenDown, KeysBelongToSessions, ClientLeaves, registry, sockets, ptys, Bridged
<1>6. EverySessionHasKeeper'
  BY ConsoleAssumption, SMT DEF IInv, TypeOK, Carried, EverySessionHasKeeper, ClientLeaves, registry, sockets, ptys, Bridged
<1> QED BY <1>1, <1>2, <1>3, <1>4, <1>5, <1>6 DEF IInv

LEMMA ShellExitsPreserves ==
  ASSUME IInv, NEW t \in Tokens, ShellExits(t)
  PROVE  IInv'
<1>1. TypeOK'
  BY ConsoleAssumption, SMT DEF IInv, TypeOK, Carried, ShellExits, registry, sockets, ptys, Bridged
<1>2. Carried'
  BY ConsoleAssumption, SMT DEF IInv, TypeOK, Carried, ShellExits, registry, sockets, ptys, Bridged
<1>3. Wired'
  BY ConsoleAssumption, SMT DEF IInv, TypeOK, Carried, Wired, ShellExits, registry, sockets, ptys, Bridged
<1>4. Capped'
  BY DEF IInv, Capped, ShellExits, registry, sockets, ptys, Bridged
<1>5. NothingWhenDown' /\ KeysBelongToSessions'
  BY SMT DEF IInv, TypeOK, NothingWhenDown, KeysBelongToSessions, ShellExits, registry, sockets, ptys, Bridged
<1>6. EverySessionHasKeeper'
  BY ConsoleAssumption, SMT DEF IInv, TypeOK, Carried, EverySessionHasKeeper, ShellExits, registry, sockets, ptys, Bridged
<1> QED BY <1>1, <1>2, <1>3, <1>4, <1>5, <1>6 DEF IInv

LEMMA EndOfOutputPreserves ==
  ASSUME IInv, NEW t \in Tokens, EndOfOutput(t)
  PROVE  IInv'
<1>1. TypeOK'
  BY ConsoleAssumption, SMT DEF IInv, TypeOK, Carried, EndOfOutput, registry, sockets, ptys, Bridged
<1>2. Carried'
  BY ConsoleAssumption, SMT DEF IInv, TypeOK, Carried, EndOfOutput, registry, sockets, ptys, Bridged
<1>3. Wired'
  BY ConsoleAssumption, SMT DEF IInv, TypeOK, Carried, Wired, EndOfOutput, registry, sockets, ptys, Bridged
<1>4. Capped'
  BY DEF IInv, Capped, EndOfOutput, registry, sockets, ptys, Bridged
<1>5. NothingWhenDown' /\ KeysBelongToSessions'
  BY SMT DEF IInv, TypeOK, NothingWhenDown, KeysBelongToSessions, EndOfOutput, registry, sockets, ptys, Bridged
<1>6. EverySessionHasKeeper'
  BY ConsoleAssumption, SMT DEF IInv, TypeOK, Carried, EverySessionHasKeeper, EndOfOutput, registry, sockets, ptys, Bridged
<1> QED BY <1>1, <1>2, <1>3, <1>4, <1>5, <1>6 DEF IInv

LEMMA WakePreserves ==
  ASSUME IInv, NEW s \in Sockets, Wake(s)
  PROVE  IInv'
<1>1. TypeOK'
  BY ConsoleAssumption, SMT DEF IInv, TypeOK, Carried, Wake, registry, sockets, ptys, Bridged
<1>2. Carried'
  BY ConsoleAssumption, SMT DEF IInv, TypeOK, Carried, Wake, registry, sockets, ptys, Bridged
<1>3. Wired'
  BY ConsoleAssumption, SMT DEF IInv, TypeOK, Carried, Wired, Wake, registry, sockets, ptys, Bridged
<1>4. Capped'
  BY DEF IInv, Capped, Wake, registry, sockets, ptys, Bridged
<1>5. NothingWhenDown' /\ KeysBelongToSessions'
  BY SMT DEF IInv, TypeOK, NothingWhenDown, KeysBelongToSessions, Wake, registry, sockets, ptys, Bridged
<1>6. EverySessionHasKeeper'
  BY ConsoleAssumption, SMT DEF IInv, TypeOK, Carried, EverySessionHasKeeper, Wake, registry, sockets, ptys, Bridged
<1> QED BY <1>1, <1>2, <1>3, <1>4, <1>5, <1>6 DEF IInv

LEMMA ReapHangsUpPreserves ==
  ASSUME IInv, NEW s \in Sockets, ReapHangsUp(s)
  PROVE  IInv'
<1>1. TypeOK'
  BY ConsoleAssumption, SMT DEF IInv, TypeOK, Carried, ReapHangsUp, registry, sockets, ptys, Bridged
<1>2. Carried'
  BY ConsoleAssumption, SMT DEF IInv, TypeOK, Carried, ReapHangsUp, registry, sockets, ptys, Bridged
<1>3. Wired'
  BY ConsoleAssumption, SMT DEF IInv, TypeOK, Carried, Wired, ReapHangsUp, registry, sockets, ptys, Bridged
<1>4. Capped'
  BY DEF IInv, Capped, ReapHangsUp, registry, sockets, ptys, Bridged
<1>5. NothingWhenDown' /\ KeysBelongToSessions'
  BY SMT DEF IInv, TypeOK, NothingWhenDown, KeysBelongToSessions, ReapHangsUp, registry, sockets, ptys, Bridged
<1>6. EverySessionHasKeeper'
  BY ConsoleAssumption, SMT DEF IInv, TypeOK, Carried, EverySessionHasKeeper, ReapHangsUp, registry, sockets, ptys, Bridged
<1> QED BY <1>1, <1>2, <1>3, <1>4, <1>5, <1>6 DEF IInv

LEMMA ReapEndsPreserves ==
  ASSUME IInv, NEW s \in Sockets, ReapEnds(s)
  PROVE  IInv'
<1>1. TypeOK'
  BY ConsoleAssumption, SMT DEF IInv, TypeOK, Carried, ReapEnds, registry, sockets, ptys, Bridged
<1>2. Carried'
  BY ConsoleAssumption, SMT DEF IInv, TypeOK, Carried, ReapEnds, registry, sockets, ptys, Bridged
<1>3. Wired'
  BY ConsoleAssumption, SMT DEF IInv, TypeOK, Carried, Wired, ReapEnds, registry, sockets, ptys, Bridged
<1>4. Capped'
  BY DEF IInv, Capped, ReapEnds, registry, sockets, ptys, Bridged
<1>5. NothingWhenDown' /\ KeysBelongToSessions'
  BY SMT DEF IInv, TypeOK, NothingWhenDown, KeysBelongToSessions, ReapEnds, registry, sockets, ptys, Bridged
<1>6. EverySessionHasKeeper'
  BY ConsoleAssumption, SMT DEF IInv, TypeOK, Carried, EverySessionHasKeeper, ReapEnds, registry, sockets, ptys, Bridged
<1> QED BY <1>1, <1>2, <1>3, <1>4, <1>5, <1>6 DEF IInv

LEMMA FinishBridgePreserves ==
  ASSUME IInv, NEW s \in Sockets, FinishBridge(s)
  PROVE  IInv'
<1>1. TypeOK'
  BY ConsoleAssumption, SMT DEF IInv, TypeOK, Carried, FinishBridge, Close, Hangup, registry, sockets, ptys, Bridged
<1>2. Carried'
  BY ConsoleAssumption, SMT DEF IInv, TypeOK, Carried, FinishBridge, Close, Hangup, registry, sockets, ptys, Bridged
<1>3. Wired'
  BY ConsoleAssumption, SMT DEF IInv, TypeOK, Carried, Wired, FinishBridge, Close, Hangup, registry, sockets, ptys, Bridged
<1>4. Capped'
  BY DropCapped DEF IInv, Capped, FinishBridge, Close, Hangup, registry, sockets, ptys, Bridged
<1>5. NothingWhenDown' /\ KeysBelongToSessions'
  BY SMT DEF IInv, TypeOK, NothingWhenDown, KeysBelongToSessions, FinishBridge, Close, Hangup, registry, sockets, ptys, Bridged
<1>6. EverySessionHasKeeper'
  BY ConsoleAssumption, SMT DEF IInv, TypeOK, Carried, EverySessionHasKeeper, FinishBridge, Close, Hangup, registry, sockets, ptys, Bridged
<1> QED BY <1>1, <1>2, <1>3, <1>4, <1>5, <1>6 DEF IInv

LEMMA BeginDrainPreserves ==
  ASSUME IInv, BeginDrain
  PROVE  IInv'
<1>1. TypeOK'
  BY ConsoleAssumption, SMT DEF IInv, TypeOK, Carried, BeginDrain, AskedByDrain, registry, sockets, ptys, Bridged
<1>2. Carried'
  BY ConsoleAssumption, SMT DEF IInv, TypeOK, Carried, BeginDrain, AskedByDrain, registry, sockets, ptys, Bridged
<1>3. Wired'
  BY ConsoleAssumption, SMT DEF IInv, TypeOK, Carried, Wired, BeginDrain, AskedByDrain, registry, sockets, ptys, Bridged
<1>4. Capped'
  BY DEF IInv, Capped, BeginDrain, AskedByDrain, registry, sockets, ptys, Bridged
<1>5. NothingWhenDown' /\ KeysBelongToSessions'
  BY SMT DEF IInv, TypeOK, NothingWhenDown, KeysBelongToSessions, BeginDrain, AskedByDrain, registry, sockets, ptys, Bridged
<1>6. EverySessionHasKeeper'
  BY ConsoleAssumption, SMT DEF IInv, TypeOK, Carried, EverySessionHasKeeper, BeginDrain, AskedByDrain, registry, sockets, ptys, Bridged
<1> QED BY <1>1, <1>2, <1>3, <1>4, <1>5, <1>6 DEF IInv

LEMMA PanelStopsPreserves ==
  ASSUME IInv, PanelStops
  PROVE  IInv'
<1>1. TypeOK'
  <2>1. /\ owner' \in [Tokens -> Admins \cup {Nobody}]
        /\ at' \in [Sockets -> {"closed", "accepting", "apologising"} \cup Bridged]
        /\ token' \in [Sockets -> Tokens \cup {NoToken}]
        /\ user' \in [Sockets -> Admins \cup {Nobody}]
        /\ master' \in [Tokens -> {"none", "held", "leaked"}]
        /\ shell' \in [Tokens -> {"none", "running", "exited"}]
    BY SMT DEF PanelStops
  <2>2. minted' \subseteq Tokens /\ keys' \subseteq Tokens
    BY SMT DEF IInv, TypeOK, PanelStops
  <2>3. /\ sessions' = {} /\ claimed' = {} /\ asked' = {} /\ timers' = {}
        /\ gone' = {} /\ readers' = {} /\ stranded' = {}
        /\ draining' = FALSE /\ panel' = "down" /\ faults' = faults
    BY DEF PanelStops
  <2> QED BY <2>1, <2>2, <2>3 DEF IInv, TypeOK
<1>2. Carried'
  BY ConsoleAssumption, SMT DEF IInv, TypeOK, Carried, PanelStops, registry, sockets, ptys, Bridged
<1>3. Wired'
  BY ConsoleAssumption, SMT DEF IInv, TypeOK, Carried, Wired, PanelStops, registry, sockets, ptys, Bridged
<1>4. Capped'
  BY FS_EmptySet, ConsoleAssumption DEF IInv, Capped, PanelStops, registry, sockets, ptys, Bridged
<1>5. NothingWhenDown' /\ KeysBelongToSessions'
  BY SMT DEF IInv, TypeOK, NothingWhenDown, KeysBelongToSessions, PanelStops, registry, sockets, ptys, Bridged
<1>6. EverySessionHasKeeper'
  BY ConsoleAssumption, SMT DEF IInv, TypeOK, Carried, EverySessionHasKeeper, PanelStops, registry, sockets, ptys, Bridged
<1> QED BY <1>1, <1>2, <1>3, <1>4, <1>5, <1>6 DEF IInv

LEMMA BootPreserves ==
  ASSUME IInv, Boot
  PROVE  IInv'
<1>1. TypeOK'
  BY ConsoleAssumption, SMT DEF IInv, TypeOK, Carried, Boot, KeysAtBoot, registry, sockets, ptys, Bridged
<1>2. Carried'
  BY ConsoleAssumption, SMT DEF IInv, TypeOK, Carried, Boot, KeysAtBoot, registry, sockets, ptys, Bridged
<1>3. Wired'
  BY ConsoleAssumption, SMT DEF IInv, TypeOK, Carried, Wired, Boot, KeysAtBoot, registry, sockets, ptys, Bridged
<1>4. Capped'
  BY DEF IInv, Capped, Boot, KeysAtBoot, registry, sockets, ptys, Bridged
<1>5. NothingWhenDown' /\ KeysBelongToSessions'
  BY SMT DEF IInv, TypeOK, NothingWhenDown, KeysBelongToSessions, Boot, KeysAtBoot, registry, sockets, ptys, Bridged
<1>6. EverySessionHasKeeper'
  BY ConsoleAssumption, SMT DEF IInv, TypeOK, Carried, EverySessionHasKeeper, Boot, KeysAtBoot, registry, sockets, ptys, Bridged
<1> QED BY <1>1, <1>2, <1>3, <1>4, <1>5, <1>6 DEF IInv

-----------------------------------------------------------------------------

LEMMA StepPreserves == IInv /\ [Next]_vars => IInv'
<1> SUFFICES ASSUME IInv, [Next]_vars PROVE IInv'
  OBVIOUS
<1>1. ASSUME NEW t \in Tokens, NEW u \in Admins, Issue(t, u) PROVE IInv'
  BY <1>1, IssuePreserves
<1>2. ASSUME NEW t \in Tokens, IssueFails(t) \/ ShellExits(t) \/ Callback(t) PROVE IInv'
  BY <1>2, IssueFailsPreserves, ShellExitsPreserves, ExpirePreserves, EndOfOutputPreserves
     DEF Callback
<1>3. ASSUME NEW s \in Sockets, NEW t \in Tokens, NEW u \in Admins, Claim(s, t, u)
      PROVE  IInv'
  BY <1>3, ClaimPreserves
<1>4. ASSUME NEW s \in Sockets, ClientLeaves(s) \/ Carry(s) PROVE IInv'
  BY <1>4, ClientLeavesPreserves, AcceptFailsPreserves, SpawnPreserves, SpawnFailsPreserves,
     GivesUpPreserves, WakePreserves, ReapHangsUpPreserves, ReapEndsPreserves,
     FinishBridgePreserves DEF Carry
<1>5. ASSUME BeginDrain \/ PanelStops \/ Boot PROVE IInv'
  BY <1>5, BeginDrainPreserves, PanelStopsPreserves, BootPreserves
<1>6. ASSUME UNCHANGED vars PROVE IInv'
  <2>1. TypeOK'
    BY <1>6 DEF IInv, TypeOK, vars, registry, sockets, ptys
  <2>2. Carried' /\ Wired' /\ Capped' /\ NothingWhenDown'
    BY <1>6 DEF IInv, Carried, Wired, Capped, NothingWhenDown, vars, registry, sockets, ptys
  <2>3. KeysBelongToSessions' /\ EverySessionHasKeeper'
    BY <1>6 DEF IInv, KeysBelongToSessions, EverySessionHasKeeper, vars, registry, sockets
  <2> QED BY <2>1, <2>2, <2>3 DEF IInv
<1> QED BY <1>1, <1>2, <1>3, <1>4, <1>5, <1>6 DEF Next

LEMMA AlwaysIInv == Spec => []IInv
<1>1. Init => IInv
  BY InitEstablishes
<1>2. IInv /\ [Next]_vars => IInv'
  BY StepPreserves
<1> QED BY <1>1, <1>2, PTL DEF Spec

(* Every variable keeps its type, for any number of tokens and sockets.    *)
THEOREM TypeCorrect == Spec => []TypeOK
<1>1. IInv => TypeOK
  BY DEF IInv
<1> QED BY <1>1, AlwaysIInv, PTL

(* Run directories are those of the sessions (console.py:305-311, 336-347, *)
(* main.py:139-141), whatever fails or crashes.                            *)
THEOREM KeysGoWithSessions == Spec => []KeysBelongToSessions
<1>1. IInv => KeysBelongToSessions
  BY DEF IInv
<1> QED BY <1>1, AlwaysIInv, PTL

(* A console is carried by one WebSocket of the user who asked for it      *)
(* (console.py:323-329), whoever else presents its token, and when.        *)
THEOREM OneSocket == Spec => []OneSocketPerSession
<1>1. IInv => OneSocketPerSession
  BY ConsoleAssumption, SMT DEF IInv, TypeOK, Carried, OneSocketPerSession
<1> QED BY <1>1, AlwaysIInv, PTL

(* Only the failed handshake of routers/console.py:102 loses a session.    *)
THEOREM NobodyForgotten == Spec => []EverySessionHasKeeper
<1>1. IInv => EverySessionHasKeeper
  BY DEF IInv
<1> QED BY <1>1, AlwaysIInv, PTL

(* The cap on sessions is a cap on the PTYs of the bridges (console.py:48- *)
(* 49): no PTY outlives the place its session takes.                       *)
THEOREM PtysAreCapped == Spec => []PtysCounted
<1>1. ASSUME IInv PROVE PtysCounted
  <2>1. OpenPtys \subseteq sessions
    BY <1>1, ConsoleAssumption, SMT DEF IInv, TypeOK, Carried, Wired, OpenPtys
  <2>2. IsFiniteSet(sessions) /\ Cardinality(sessions) \in Nat /\ Cardinality(sessions) <= MaxSessions
    BY <1>1, FS_CardinalityType DEF IInv, Capped
  <2>3. IsFiniteSet(OpenPtys) /\ Cardinality(OpenPtys) \in Nat
        /\ Cardinality(OpenPtys) <= Cardinality(sessions)
    BY <2>1, <2>2, FS_Subset, FS_CardinalityType
  <2>4. MaxSessions \in Nat
    BY ConsoleAssumption
  <2>5. Cardinality(OpenPtys) <= MaxSessions
    BY <2>2, <2>3, <2>4, SMT
  <2> QED BY <2>1, <2>5 DEF PtysCounted
<1>2. IInv => PtysCounted
  BY <1>1
<1> QED BY <1>2, AlwaysIInv, PTL

(* The loop watches no master that a reap has closed (console.py:226-228,  *)
(* routers/console.py:200-208).                                            *)
THEOREM WatchedMastersAreOpen == Spec => []NoReaderOnClosedMaster
<1>1. IInv => NoReaderOnClosedMaster
  BY SMT DEF IInv, TypeOK, Wired, NoReaderOnClosedMaster, OpenPtys
<1> QED BY <1>1, AlwaysIInv, PTL

-----------------------------------------------------------------------------
(* The refinement of OneTimeConsole.  What the abstract state of a token   *)
(* depends on are six sets of tokens and, since a WebSocket is always its  *)
(* owner's, the owner.                                                     *)

LEMMA StageFrame ==
  ASSUME NEW t,
         t \in minted' <=> t \in minted, t \in sessions' <=> t \in sessions,
         t \in claimed' <=> t \in claimed, t \in stranded' <=> t \in stranded,
         t \in OpenPtys' <=> t \in OpenPtys, t \in HungUp' <=> t \in HungUp
  PROVE  Stage(t)' = Stage(t)
BY SMT DEF Stage

LEMMA AccessIsOwner ==
  ASSUME IInv, NEW t \in Tokens
  PROVE  Access(t) = {owner[t]} \ {Nobody}
<1>1. \A s \in Sockets : token[s] = t => user[s] = owner[t]
  BY ConsoleAssumption DEF IInv, Carried
<1> QED BY <1>1 DEF Access

LEMMA AccessIsOwnerNext ==
  ASSUME IInv', NEW t \in Tokens
  PROVE  Access(t)' = {owner'[t]} \ {Nobody}
<1>1. \A s \in Sockets : token'[s] = t => user'[s] = owner'[t]
  BY ConsoleAssumption DEF IInv, Carried
<1> QED BY <1>1 DEF Access

(* What carries a token fixes its stage. *)
LEMMA CarriedStage ==
  ASSUME IInv, NEW s \in Sockets, at[s] # "closed"
  PROVE  /\ token[s] \in Tokens /\ token[s] \in minted /\ token[s] \in sessions
         /\ token[s] \in claimed /\ token[s] \notin stranded
         /\ at[s] \in {"accepting", "apologising"} => Stage(token[s]) = "used"
         /\ at[s] \in {"pumping", "reaping"} => Stage(token[s]) = "open"
         /\ at[s] \in {"hungup", "reaped"} => Stage(token[s]) = "hungup"
         /\ \A c \in Sockets : token[c] = token[s] => c = s
<1> DEFINE t == token[s]
<1>1. /\ t \in Tokens /\ t \in minted /\ t \in sessions /\ t \in claimed /\ t \notin stranded
      /\ \A c \in Sockets : token[c] = t => c = s
  BY ConsoleAssumption, SMT DEF IInv, TypeOK, Carried
<1>2. t \in OpenPtys <=> at[s] \in {"pumping", "reaping"}
  BY <1>1 DEF IInv, Wired, OpenPtys
<1>3. t \in HungUp <=> at[s] \in {"hungup", "reaped"}
  BY <1>1 DEF HungUp
<1> HIDE DEF t
<1>4. Stage(t) = IF t \in OpenPtys THEN "open" ELSE IF t \in HungUp THEN "hungup" ELSE "used"
  BY <1>1 DEF Stage
<1> QED BY <1>1, <1>2, <1>3, <1>4 DEF t

(* What waits for its WebSocket has no terminal. *)
LEMMA OfferedStage ==
  ASSUME IInv, NEW t \in Tokens, t \notin claimed
  PROVE  t \notin stranded /\ t \notin OpenPtys /\ t \notin HungUp
<1>1. \A s \in Sockets : at[s] # "closed" => token[s] # t
  BY CarriedStage
<1>2. t \notin OpenPtys /\ t \notin HungUp
  BY <1>1 DEF IInv, Wired, OpenPtys, HungUp
<1> QED BY <1>2 DEF IInv, TypeOK

(* The set of the running consoles is the registry. *)
LEMMA AliveIsRegistry ==
  ASSUME IInv
  PROVE  OneTime!Alive = sessions
<1>1. \A t \in Tokens : Stage(t) \notin {"fresh", "gone"} <=> t \in minted /\ t \in sessions
  BY DEF Stage
<1>2. sessions \subseteq Tokens /\ sessions \subseteq minted
  BY DEF IInv, TypeOK
<1> QED BY <1>1, <1>2 DEF OneTime!Alive, stageBar

(* A step that moves one token and leaves the owners alone. *)
LEMMA OneMoves ==
  ASSUME IInv, IInv', owner' = owner, NEW t \in Tokens, NEW before, NEW after,
         Stage(t) = before, Stage(t)' = after,
         \A d \in Tokens \ {t} : Stage(d)' = Stage(d)
  PROVE  OneTime!Moves(t, before, after)
<1>1. accessBar' = accessBar
  BY AccessIsOwner, AccessIsOwnerNext DEF accessBar
<1>2. stageBar[t] = before
  BY DEF stageBar
<1>3. stageBar' = [stageBar EXCEPT ![t] = after]
  BY DEF stageBar
<1> QED BY <1>1, <1>2, <1>3 DEF OneTime!Moves

(* A step that drops one token from the registry. *)
LEMMA OneEnds ==
  ASSUME IInv, IInv', NEW t \in Tokens, Close(t), t \in minted,
         Stage(t) \in {"offered", "used", "hungup"},
         UNCHANGED <<minted, stranded>>,
         \A d \in Tokens \ {t} : (d \in OpenPtys' <=> d \in OpenPtys) /\ (d \in HungUp' <=> d \in HungUp)
  PROVE  OneTime!End(t)
<1>1. /\ sessions' = sessions \ {t} /\ claimed' = claimed \ {t}
      /\ owner' = [owner EXCEPT ![t] = Nobody]
  BY DEF Close
<1>2. Stage(t)' = "gone"
  BY <1>1 DEF Stage
<1>3. \A d \in Tokens \ {t} : Stage(d)' = Stage(d)
  BY <1>1, StageFrame
<1>4. stageBar' = [stageBar EXCEPT ![t] = "gone"]
  BY <1>2, <1>3 DEF stageBar
<1>5. accessBar' = [accessBar EXCEPT ![t] = {}]
  <2>1. \A d \in Tokens : owner'[d] = IF d = t THEN Nobody ELSE owner[d]
    BY <1>1 DEF IInv, TypeOK
  <2>2. \A d \in Tokens : Access(d)' = IF d = t THEN {} ELSE Access(d)
    BY <2>1, AccessIsOwner, AccessIsOwnerNext
  <2> QED BY <2>2 DEF accessBar
<1>6. stageBar[t] = Stage(t)
  BY DEF stageBar
<1> QED BY <1>4, <1>5, <1>6 DEF OneTime!End

(* A step that the abstract console does not see. *)
LEMMA NothingMoves ==
  ASSUME IInv, IInv', owner' = owner,
         UNCHANGED <<minted, sessions, claimed, stranded>>,
         OpenPtys' = OpenPtys, HungUp' = HungUp
  PROVE  UNCHANGED <<stageBar, accessBar>>
<1>1. \A t \in Tokens : Stage(t)' = Stage(t)
  BY StageFrame
<1>2. \A t \in Tokens : Access(t)' = Access(t)
  BY AccessIsOwner, AccessIsOwnerNext
<1> QED BY <1>1, <1>2 DEF stageBar, accessBar

LEMMA IssueMints ==
  ASSUME IInv, IInv', NEW t \in Tokens, NEW u \in Admins, Issue(t, u)
  PROVE  OneTime!Mint(t, u)
<1>1. /\ t \notin minted /\ Cardinality(sessions) < MaxSessions
      /\ minted' = minted \cup {t} /\ sessions' = sessions \cup {t}
      /\ owner' = [owner EXCEPT ![t] = u]
      /\ UNCHANGED <<claimed, stranded, at, token, master>>
  BY DEF Issue, CanIssue, sockets, ptys
<1>2. t \notin claimed
  BY <1>1 DEF IInv, TypeOK
<1>3. Stage(t) = "fresh" /\ Stage(t)' = "offered"
  BY <1>1, <1>2 DEF Stage
<1>4. \A d \in Tokens \ {t} : Stage(d)' = Stage(d)
  BY <1>1, StageFrame DEF OpenPtys, HungUp
<1>5. stageBar[t] = "fresh" /\ stageBar' = [stageBar EXCEPT ![t] = "offered"]
  BY <1>3, <1>4 DEF stageBar
<1>6. accessBar' = [accessBar EXCEPT ![t] = {u}]
  <2>1. \A d \in Tokens : owner'[d] = IF d = t THEN u ELSE owner[d]
    BY <1>1 DEF IInv, TypeOK
  <2>2. u # Nobody
    BY ConsoleAssumption
  <2>3. \A d \in Tokens : Access(d)' = IF d = t THEN {u} ELSE Access(d)
    BY <2>1, <2>2, AccessIsOwner, AccessIsOwnerNext
  <2> QED BY <2>3 DEF accessBar
<1>7. OneTime!Cardinality(sessions) = Cardinality(sessions)
  BY DEF OneTime!Cardinality, Cardinality
<1> QED BY <1>1, <1>5, <1>6, <1>7, AliveIsRegistry DEF OneTime!Mint

LEMMA ExpireEnds ==
  ASSUME IInv, IInv', NEW t \in Tokens, Expire(t)
  PROVE  OneTime!End(t) \/ UNCHANGED <<stageBar, accessBar>>
<1>1. UNCHANGED <<minted, stranded, at, token, master>>
  BY DEF Expire, sockets, ptys
<1>2. OpenPtys' = OpenPtys /\ HungUp' = HungUp
  BY <1>1 DEF OpenPtys, HungUp
<1>3. CASE t \in sessions \ claimed /\ Close(t)
  <2>1. t \in minted /\ Stage(t) = "offered"
    BY <1>3 DEF IInv, TypeOK, Stage
  <2> QED BY <1>1, <1>2, <1>3, <2>1, OneEnds
<1>4. CASE UNCHANGED <<sessions, owner, claimed, asked, keys>>
  BY <1>1, <1>2, <1>4, NothingMoves
<1> QED BY <1>3, <1>4 DEF Expire

LEMMA ClaimUses ==
  ASSUME IInv, IInv', NEW s \in Sockets, NEW t \in Tokens, NEW u \in Admins, Claim(s, t, u)
  PROVE  OneTime!Use(t)
<1>1. /\ at[s] = "closed" /\ t \in sessions /\ t \notin claimed
      /\ claimed' = claimed \cup {t}
      /\ at' = [at EXCEPT ![s] = "accepting"] /\ token' = [token EXCEPT ![s] = t]
      /\ UNCHANGED <<minted, sessions, owner, stranded, master>>
  BY DEF Claim, Claimable, ptys
<1>2. OpenPtys' = OpenPtys
  BY <1>1 DEF OpenPtys
<1>3. HungUp' = HungUp
  BY <1>1 DEF HungUp, IInv, TypeOK
<1>4. t \in minted /\ t \notin stranded /\ t \notin OpenPtys /\ t \notin HungUp
  BY <1>1, OfferedStage DEF IInv, TypeOK
<1>5. Stage(t) = "offered" /\ Stage(t)' = "used"
  BY <1>1, <1>2, <1>3, <1>4 DEF Stage
<1>6. \A d \in Tokens \ {t} : Stage(d)' = Stage(d)
  BY <1>1, <1>2, <1>3, StageFrame
<1> QED BY <1>1, <1>5, <1>6, OneMoves DEF OneTime!Use

(* A WebSocket that moves on: what it does to the two derived sets. *)
LEMMA SocketMoves ==
  ASSUME IInv, NEW s \in Sockets, NEW stage, at[s] # "closed",
         at' = [at EXCEPT ![s] = stage]
  PROVE  /\ UNCHANGED token => \A d \in Tokens :
              d \in HungUp' <=> IF d = token[s] THEN stage \in {"hungup", "reaped"} ELSE d \in HungUp
         /\ token' = [token EXCEPT ![s] = NoToken] => \A d \in Tokens :
              d \in HungUp' <=> d # token[s] /\ d \in HungUp
<1>1. \A c \in Sockets : token[c] = token[s] => c = s
  BY CarriedStage
<1>2. \A c \in Sockets : at'[c] = IF c = s THEN stage ELSE at[c]
  BY DEF IInv, TypeOK
<1>3. ASSUME UNCHANGED token, NEW d \in Tokens
      PROVE  d \in HungUp' <=> IF d = token[s] THEN stage \in {"hungup", "reaped"} ELSE d \in HungUp
  BY <1>1, <1>2, <1>3 DEF HungUp
<1>4. ASSUME token' = [token EXCEPT ![s] = NoToken], NEW d \in Tokens
      PROVE  d \in HungUp' <=> d # token[s] /\ d \in HungUp
  <2>1. \A c \in Sockets : token'[c] = IF c = s THEN NoToken ELSE token[c]
    BY <1>4 DEF IInv, TypeOK
  <2> QED BY <1>1, <1>2, <2>1, ConsoleAssumption DEF HungUp
<1> QED BY <1>3, <1>4

LEMMA AcceptFailsLoses ==
  ASSUME IInv, IInv', NEW s \in Sockets, AcceptFails(s)
  PROVE  OneTime!Lose(token[s])
<1> SUFFICES ASSUME NEW t \in Tokens, t = token[s] PROVE OneTime!Lose(t)
  BY CarriedStage DEF AcceptFails, Spawn, ReapHangsUp, GivesUp, FinishBridge
<1>1. /\ at[s] = "accepting" /\ at' = [at EXCEPT ![s] = "closed"]
      /\ token' = [token EXCEPT ![s] = NoToken]
      /\ stranded' = stranded \cup {t}
      /\ UNCHANGED <<minted, sessions, owner, claimed, master>>
  BY DEF AcceptFails, Hangup, registry, ptys
<1>2. /\ t \in Tokens /\ t \in minted /\ t \in sessions /\ t \in claimed
      /\ Stage(t) = "used"
  BY <1>1, CarriedStage
<1>3. Stage(t)' = "lost"
  BY <1>1, <1>2 DEF Stage
<1>4. \A d \in Tokens \ {t} : d \in HungUp' <=> d \in HungUp
  BY <1>1, SocketMoves
<1>5. OpenPtys' = OpenPtys
  BY <1>1 DEF OpenPtys
<1>6. \A d \in Tokens \ {t} : Stage(d)' = Stage(d)
  BY <1>1, <1>4, <1>5, StageFrame
<1>7. OneTime!Moves(t, "used", "lost")
  BY <1>1, <1>2, <1>3, <1>6, OneMoves
<1> QED BY <1>7 DEF OneTime!Lose

LEMMA SpawnOpens ==
  ASSUME IInv, IInv', NEW s \in Sockets, Spawn(s)
  PROVE  OneTime!OpenTerminal(token[s])
<1> SUFFICES ASSUME NEW t \in Tokens, t = token[s] PROVE OneTime!OpenTerminal(t)
  BY CarriedStage DEF AcceptFails, Spawn, ReapHangsUp, GivesUp, FinishBridge
<1>1. /\ at[s] = "accepting" /\ at' = [at EXCEPT ![s] = "pumping"]
      /\ master' = [master EXCEPT ![t] = "held"]
      /\ UNCHANGED <<minted, sessions, owner, claimed, stranded, token>>
  BY DEF Spawn, registry
<1>2. t \in Tokens /\ Stage(t) = "used"
  BY <1>1, CarriedStage
<1>3. \A d \in Tokens : d \in OpenPtys' <=> d = t \/ d \in OpenPtys
  BY <1>1, <1>2 DEF OpenPtys, IInv, TypeOK
<1>4. Stage(t)' = "open"
  BY <1>1, <1>2, <1>3, CarriedStage DEF Stage
<1>5. \A d \in Tokens \ {t} : Stage(d)' = Stage(d)
  BY <1>1, <1>3, SocketMoves, StageFrame
<1>6. OneTime!Moves(t, "used", "open")
  BY <1>1, <1>2, <1>4, <1>5, OneMoves
<1> QED BY <1>6 DEF OneTime!OpenTerminal

LEMMA ReapHangsUpMoves ==
  ASSUME IInv, IInv', NEW s \in Sockets, ReapHangsUp(s)
  PROVE  OneTime!HangUp(token[s])
<1> SUFFICES ASSUME NEW t \in Tokens, t = token[s] PROVE OneTime!HangUp(t)
  BY CarriedStage DEF AcceptFails, Spawn, ReapHangsUp, GivesUp, FinishBridge
<1>1. /\ at[s] = "reaping" /\ at' = [at EXCEPT ![s] = "hungup"]
      /\ master' = [master EXCEPT ![t] = "none"]
      /\ UNCHANGED <<minted, sessions, owner, claimed, stranded, token>>
  BY DEF ReapHangsUp, registry
<1>2. t \in Tokens /\ Stage(t) = "open"
  BY <1>1, CarriedStage
<1>3. \A d \in Tokens : d \in OpenPtys' <=> d # t /\ d \in OpenPtys
  BY <1>1, <1>2 DEF OpenPtys, IInv, TypeOK
<1>4. \A d \in Tokens : d \in HungUp' <=> d = t \/ d \in HungUp
  BY <1>1, SocketMoves
<1>5. Stage(t)' = "hungup"
  BY <1>1, <1>2, <1>3, <1>4, CarriedStage DEF Stage
<1>6. \A d \in Tokens \ {t} : Stage(d)' = Stage(d)
  BY <1>1, <1>3, <1>4, StageFrame
<1>7. OneTime!Moves(t, "open", "hungup")
  BY <1>1, <1>2, <1>5, <1>6, OneMoves
<1> QED BY <1>7 DEF OneTime!HangUp

(* The two ways a bridge ends. *)
LEMMA BridgeEnds ==
  ASSUME IInv, IInv', NEW s \in Sockets, GivesUp(s) \/ FinishBridge(s)
  PROVE  OneTime!End(token[s])
<1> SUFFICES ASSUME NEW t \in Tokens, t = token[s] PROVE OneTime!End(t)
  BY CarriedStage DEF AcceptFails, Spawn, ReapHangsUp, GivesUp, FinishBridge
<1>1. /\ at[s] \in {"apologising", "reaped"} /\ Close(t)
      /\ at' = [at EXCEPT ![s] = "closed"] /\ token' = [token EXCEPT ![s] = NoToken]
      /\ UNCHANGED <<minted, stranded, master>>
  BY DEF GivesUp, FinishBridge, Hangup, ptys
<1>2. t \in Tokens /\ t \in minted /\ Stage(t) \in {"used", "hungup"}
  BY <1>1, CarriedStage
<1>3. OpenPtys' = OpenPtys
  BY <1>1 DEF OpenPtys
<1>4. \A d \in Tokens \ {t} : d \in HungUp' <=> d \in HungUp
  BY <1>1, SocketMoves
<1> QED BY <1>1, <1>2, <1>3, <1>4, OneEnds

(* Errors, waiting and clean-up between these are nobody's business. *)
LEMMA BridgeUnseen ==
  ASSUME IInv, IInv', NEW s \in Sockets, SpawnFails(s) \/ Wake(s) \/ ReapEnds(s)
  PROVE  UNCHANGED <<stageBar, accessBar>>
<1>1. UNCHANGED <<minted, sessions, owner, claimed, stranded, token>>
  BY DEF SpawnFails, Wake, ReapEnds, registry
<1>2. PICK stage \in {"apologising", "reaping", "reaped"} :
        /\ at' = [at EXCEPT ![s] = stage]
        /\ at[s] \in {"accepting", "pumping", "hungup"}
        /\ stage = "reaped" <=> at[s] = "hungup"
  BY DEF SpawnFails, Wake, ReapEnds
<1>3. \A d \in Tokens : d \in HungUp' <=> d \in HungUp
  <2>1. token[s] \in HungUp <=> at[s] \in {"hungup", "reaped"}
    BY <1>2, CarriedStage DEF HungUp
  <2> QED BY <1>1, <1>2, <2>1, SocketMoves
<1>4. \A d \in Tokens : d \in OpenPtys' <=> d \in OpenPtys
  <2>1. CASE SpawnFails(s)
    <3>1. at[s] = "accepting"
      BY <2>1 DEF SpawnFails
    <3>2. token[s] \notin OpenPtys
      BY <3>1, CarriedStage DEF IInv, Wired, OpenPtys
    <3>3. PICK fd \in {"none", "leaked"} : master' = [master EXCEPT ![token[s]] = fd]
      BY <2>1 DEF SpawnFails
    <3> QED BY <3>2, <3>3 DEF OpenPtys, IInv, TypeOK
  <2>2. CASE Wake(s) \/ ReapEnds(s)
    BY <2>2 DEF Wake, ReapEnds, ptys, OpenPtys
  <2> QED BY <2>1, <2>2
<1>5. \A t \in Tokens : Stage(t)' = Stage(t)
  BY <1>1, <1>3, <1>4, StageFrame
<1>6. \A t \in Tokens : Access(t)' = Access(t)
  BY <1>1, AccessIsOwner, AccessIsOwnerNext
<1> QED BY <1>5, <1>6 DEF stageBar, accessBar

LEMMA PanelStopsAll ==
  ASSUME IInv, IInv', PanelStops
  PROVE  OneTime!Stop
<1>1. sessions' = {} /\ minted' = minted /\ owner' = [t \in Tokens |-> Nobody]
  BY DEF PanelStops
<1>2. \A t \in Tokens : Stage(t) = "fresh" <=> t \notin minted
  BY DEF Stage
<1>3. \A t \in Tokens : Stage(t)' = IF t \in minted THEN "gone" ELSE "fresh"
  BY <1>1 DEF Stage
<1>4. stageBar' = [t \in Tokens |-> IF stageBar[t] = "fresh" THEN "fresh" ELSE "gone"]
  BY <1>2, <1>3 DEF stageBar
<1>5. \A t \in Tokens : Access(t)' = {}
  BY <1>1, AccessIsOwnerNext
<1> QED BY <1>4, <1>5 DEF OneTime!Stop, accessBar

LEMMA StepImplements ==
  ASSUME IInv, IInv', [Next]_vars
  PROVE  [OneTime!Next]_<<stageBar, accessBar>>
<1>1. ASSUME NEW t \in Tokens, NEW u \in Admins, Issue(t, u) PROVE OneTime!Next
  BY <1>1, IssueMints DEF OneTime!Next
<1>2. ASSUME NEW t \in Tokens, Expire(t) PROVE OneTime!Next \/ UNCHANGED <<stageBar, accessBar>>
  BY <1>2, ExpireEnds DEF OneTime!Next
<1>3. ASSUME NEW s \in Sockets, NEW t \in Tokens, NEW u \in Admins, Claim(s, t, u)
      PROVE  OneTime!Next
  BY <1>3, ClaimUses DEF OneTime!Next
<1>4. ASSUME NEW s \in Sockets, Carry(s)
      PROVE  OneTime!Next \/ UNCHANGED <<stageBar, accessBar>>
  <2>1. at[s] # "closed"
    BY <1>4 DEF Carry, AcceptFails, Spawn, SpawnFails, GivesUp, Wake, ReapHangsUp, ReapEnds,
                FinishBridge
  <2>2. token[s] \in Tokens
    BY <2>1, CarriedStage
  <2> QED BY <1>4, <2>2, AcceptFailsLoses, SpawnOpens, ReapHangsUpMoves, BridgeEnds, BridgeUnseen
             DEF Carry, OneTime!Next
<1>5. ASSUME UNCHANGED <<minted, sessions, owner, claimed, stranded, at, token, master>>
      PROVE  UNCHANGED <<stageBar, accessBar>>
  BY <1>5, NothingMoves DEF OpenPtys, HungUp
<1>6. ASSUME NEW t \in Tokens, IssueFails(t) \/ ShellExits(t) \/ EndOfOutput(t)
      PROVE  UNCHANGED <<stageBar, accessBar>>
  BY <1>5, <1>6 DEF IssueFails, ShellExits, EndOfOutput, registry, sockets, ptys
<1>7. ASSUME NEW s \in Sockets, ClientLeaves(s)
      PROVE  UNCHANGED <<stageBar, accessBar>>
  BY <1>5, <1>7 DEF ClientLeaves, registry, ptys
<1>8. ASSUME BeginDrain \/ Boot \/ UNCHANGED vars
      PROVE  UNCHANGED <<stageBar, accessBar>>
  BY <1>5, <1>8 DEF BeginDrain, Boot, vars, registry, sockets, ptys
<1>9. CASE PanelStops
  BY <1>9, PanelStopsAll DEF OneTime!Next
<1> QED BY <1>1, <1>2, <1>3, <1>4, <1>6, <1>7, <1>8, <1>9 DEF Next, Callback

(* Every behaviour of the consoles, with all their failures and restarts,  *)
(* is one of the abstract console: a token is used once, by one user, and  *)
(* gives its place back with its terminal hung up (console.py:21-22).      *)
THEOREM Refinement == Spec => ImplementsOneTime
<1>1. Init => OneTime!Init
  <2> SUFFICES ASSUME Init PROVE OneTime!Init
    OBVIOUS
  <2>1. \A t \in Tokens : Stage(t) = "fresh"
    BY DEF Init, Stage
  <2>2. \A t \in Tokens : Access(t) = {}
    BY InitEstablishes, AccessIsOwner DEF Init
  <2> QED BY <2>1, <2>2 DEF OneTime!Init, stageBar, accessBar
<1>2. IInv /\ IInv' /\ [Next]_vars => [OneTime!Next]_<<stageBar, accessBar>>
  BY StepImplements
<1> QED BY <1>1, <1>2, AlwaysIInv, PTL DEF Spec, ImplementsOneTime, OneTime!Spec
=============================================================================
