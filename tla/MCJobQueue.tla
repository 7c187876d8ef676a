----------------------------- MODULE MCJobQueue -----------------------------
(* An instance of JobQueue for TLC: identifiers are model values. *)
EXTENDS JobQueue
=============================================================================
