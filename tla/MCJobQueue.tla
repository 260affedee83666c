----------------------------- MODULE MCJobQueue -----------------------------
(* The job queue with two jobs of one key or none, one caller beside the     *)
(* drain and one shutdown sequence at a time.                                *)
EXTENDS JobQueue
=============================================================================
