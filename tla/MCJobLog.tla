----------------------------- MODULE MCJobLog -----------------------------
(* Small panels: fewer run directories are kept than jobs are submitted.   *)
EXTENDS JobLog
=============================================================================
