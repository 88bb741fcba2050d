------------------------------ MODULE MCJobs ------------------------------
(***************************************************************************)
(* Model-checking instances of JobManager; the numbers are in the cfgs.    *)
(* Job ids are ordered (rows are numbered), so jobs are not symmetric.     *)
(***************************************************************************)
EXTENDS JobManager
=============================================================================
