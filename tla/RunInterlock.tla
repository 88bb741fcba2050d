---------------------------- MODULE RunInterlock ----------------------------
(***************************************************************************)
(* What the run lock promises, with no queue, no pool and no lock file:    *)
(* ansible processes belong to one party at a time (the panel, or whatever *)
(* else takes /run/hack.lock: the scheduler child, a run.sh invocation).   *)
(* README.md:76 of the repository: "panel, scheduler, and CLI runs never   *)
(* overlap".  A party may run several processes; a second party may not    *)
(* start while the first still has one.                                    *)
(***************************************************************************)
CONSTANTS Parties,   \* who may run ansible
          NoParty    \* nobody does

VARIABLE holder      \* the party that has an ansible process alive

Init == holder = NoParty

(* A party's first process starts only when no process is alive at all. *)
Begin(p) == holder = NoParty /\ holder' = p

(* A party's last process ends. *)
End(p) == holder = p /\ holder' = NoParty

Next == \E p \in Parties : Begin(p) \/ End(p)

Spec == Init /\ [][Next]_holder
=============================================================================
