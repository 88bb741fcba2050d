--------------------------- MODULE OneTimeConsole ---------------------------
(***************************************************************************)
(* What a console promises, with no WebSockets, no coroutines, no threads  *)
(* and no timers.  console.py:21-22: "a token is minted by an              *)
(* authenticated, admin-only POST and is single-use".  One user alone has  *)
(* access, from the minting to the end; the token is used at most once and *)
(* opens at most one terminal; the terminal is hung up before the console  *)
(* gives its place back; and what has ended stays so.                      *)
(***************************************************************************)
EXTENDS Naturals, FiniteSets

CONSTANTS
  Tokens,    \* the tokens ever minted
  Users,     \* who may ask for a console
  Capacity   \* consoles at one time

VARIABLES
  stage,     \* "fresh", then as below
  access     \* the users who can reach the console of a token

Alive == {t \in Tokens : stage[t] \notin {"fresh", "gone"}}

Init ==
  /\ stage = [t \in Tokens |-> "fresh"]
  /\ access = [t \in Tokens |-> {}]

Mint(t, u) ==
  /\ stage[t] = "fresh" /\ Cardinality(Alive) < Capacity
  /\ stage' = [stage EXCEPT ![t] = "offered"]
  /\ access' = [access EXCEPT ![t] = {u}]

Moves(t, before, after) ==
  /\ stage[t] = before
  /\ stage' = [stage EXCEPT ![t] = after]
  /\ UNCHANGED access

Use(t) == Moves(t, "offered", "used")

OpenTerminal(t) == Moves(t, "used", "open")

HangUp(t) == Moves(t, "open", "hungup")

(* The one who used it cannot be reached: it keeps its place. *)
Lose(t) == Moves(t, "used", "lost")

(* Never with an open terminal. *)
End(t) ==
  /\ stage[t] \in {"offered", "used", "hungup"}
  /\ stage' = [stage EXCEPT ![t] = "gone"]
  /\ access' = [access EXCEPT ![t] = {}]

(* The panel ends, and every console with it. *)
Stop ==
  /\ stage' = [t \in Tokens |-> IF stage[t] = "fresh" THEN "fresh" ELSE "gone"]
  /\ access' = [t \in Tokens |-> {}]

Next ==
  \/ \E t \in Tokens :
       \/ \E u \in Users : Mint(t, u)
       \/ Use(t) \/ OpenTerminal(t) \/ HangUp(t) \/ Lose(t) \/ End(t)
  \/ Stop

Spec == Init /\ [][Next]_<<stage, access>>
=============================================================================
