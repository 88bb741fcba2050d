------------------------------- MODULE MCSse -------------------------------
(* A page with a feed (sse-connect), a pane in it that messages are swapped *)
(* into, and cards that messages may bring: one with a stream of its own    *)
(* and a line that listens to it.                                           *)
EXTENDS Sse

MCElements == {"feed", "pane", "card", "line"}
MCAbove == [feed |-> {"feed"}, pane |-> {"feed", "pane"},
            card |-> {"feed", "pane", "card"}, line |-> {"feed", "pane", "card", "line"}]
MCSseSwap == [feed |-> <<>>, pane |-> <<"m", "done">>, card |-> <<>>, line |-> <<"m">>]
MCStyle == [feed |-> "none", pane |-> "innerHTML", card |-> "none", line |-> "outerHTML"]
=============================================================================
