----------------------------- MODULE MCHostRuns -----------------------------
(* A small instance of HostRuns.                                           *)
EXTENDS HostRuns

CONSTANT h1
=============================================================================
