------------------------------ MODULE LogStream ------------------------------
(***************************************************************************)
(* What the live log of a job promises, with no queues, no subscribers, no *)
(* connections and no rows: a page that follows a job is sent the lines of *)
(* its log from the first one on, each once and in order, as far as the log*)
(* has come.  The end of a log is its last line, and who was sent it was   *)
(* sent everything.  A page may leave and follow again, from the start.    *)
(***************************************************************************)
EXTENDS Naturals, Sequences

CONSTANTS
  Jobs, Pages,
  Batches,   \* the sequences of lines that are written at once
  End,       \* the line that ends a log
  NoJob      \* what a page follows that follows nothing

VARIABLES
  log,       \* the lines of each job
  stage,     \* of a page: "away", "following" or "told" the end
  of,        \* the job it follows or has followed
  sent       \* the lines it was sent since it began to

Init ==
  /\ log = [j \in Jobs |-> <<>>]
  /\ stage = [p \in Pages |-> "away"]
  /\ of = [p \in Pages |-> NoJob]
  /\ sent = [p \in Pages |-> <<>>]

Ended(j) == \E i \in DOMAIN log[j] : log[j][i] = End

Write(j, batch) ==
  /\ ~Ended(j)
  /\ log' = [log EXCEPT ![j] = @ \o batch]
  /\ UNCHANGED <<stage, of, sent>>

Follow(p, j) ==
  /\ stage[p] = "away"
  /\ stage' = [stage EXCEPT ![p] = "following"]
  /\ of' = [of EXCEPT ![p] = j]
  /\ UNCHANGED <<log, sent>>

(* The next line of the log. *)
Send(p) ==
  /\ stage[p] = "following" /\ Len(sent[p]) < Len(log[of[p]])
  /\ LET line == log[of[p]][Len(sent[p]) + 1]
     IN  /\ sent' = [sent EXCEPT ![p] = Append(@, line)]
         /\ stage' = [stage EXCEPT ![p] = IF line = End THEN "told" ELSE "following"]
  /\ UNCHANGED <<log, of>>

Leave(p) ==
  /\ stage[p] # "away"
  /\ stage' = [stage EXCEPT ![p] = "away"]
  /\ of' = [of EXCEPT ![p] = NoJob]
  /\ sent' = [sent EXCEPT ![p] = <<>>]
  /\ UNCHANGED log

(* The logs are in the memory of the panel. *)
Lose ==
  /\ log' = [j \in Jobs |-> <<>>]
  /\ stage' = [p \in Pages |-> "away"]
  /\ of' = [p \in Pages |-> NoJob]
  /\ sent' = [p \in Pages |-> <<>>]

Next ==
  \/ \E j \in Jobs, batch \in Batches : Write(j, batch)
  \/ \E p \in Pages : Send(p) \/ Leave(p) \/ \E j \in Jobs : Follow(p, j)
  \/ Lose

Spec == Init /\ [][Next]_<<log, stage, of, sent>>
=============================================================================
